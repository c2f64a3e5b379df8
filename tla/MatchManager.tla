----------------------------- MODULE MatchManager -----------------------------
(***************************************************************************)
(* The match manager of backend/internal/matchmgr with several runs under   *)
(* it, the lobby whose rooms start them (the module Rooms, which Lobby       *)
(* implements) and the connections whose handlers use its two indexes.      *)
(*                                                                         *)
(* The indexes are sync.Maps and no lock spans two accesses, so each access *)
(* is a step: the three stores of StartMatch, the load, the change of the   *)
(* slot, the delete and the store of HandleReconnect, the load and the      *)
(* change of the slot of OnDisconnect, the three deletes of the end         *)
(* callback.  StartMatch reads the room without the lobby's lock.  A match  *)
(* goes by its room's code, which is free again when the room closes,       *)
(* whatever the match does; and a player may leave the room of a running    *)
(* match and play another one.                                              *)
(*                                                                         *)
(* Abstracted: what happens inside a match (MatchRun) and the ready flags   *)
(* (Lobby).  A host who reads the seat of a guest who has left it panics;   *)
(* here he does not go on (the process is gone: Lobby has that run).        *)
(***************************************************************************)
EXTENDS Rooms, Naturals, FiniteSets

Slots == {0, 1}

CONSTANTS
    Runs,           \* identities of MatchRun objects (bounds how many start)
    ReconnectCap,   \* capacity of reconnectCh (4 in the code)
    MaxReconnects   \* connections that send match.reconnect, each once (bound)

ASSUME ManagerAssumption ==
    /\ None \notin Runs \cup Codes
    /\ ReconnectCap \in Nat \ {0}
    /\ MaxReconnects \in Nat

VARIABLES
    runs,       \* Manager.runs: match id, which is a code, -> run
    byConn,     \* Manager.byConn: connection -> run
    code,       \* MatchRun.MatchID, less its prefix
    players,    \* MatchRun.Players[s].ConnID
    session,    \* MatchRun.Players[s].SessionID, as the connection that has it
    sender,     \* MatchRun.Players[s].Sender
    signals,    \* how many signals reconnectCh holds
    phase,      \* where a run is between StartMatch and the end of its callback
    at,         \* where the goroutine of each connection is
    run,        \* its local run, None outside a handler
    id,         \* the identifier it has read and will use: players[1].ConnID of
                \* StartMatch, oldConnID of HandleReconnect
    asked,      \* the connections that have sent match.reconnect (bound)
    ids,        \* history: the ConnIDs the slots of a run have had
    early       \* history: <<c, r>> when the OnDisconnect of c came before the
                \* StartMatch of r had stored its entry

indexes == <<runs, byConn>>
slots == <<players, session, sender, ids>>
matches == <<code, slots, signals, phase>>
handlers == <<at, run, id, asked, early>>
vars == <<rooms, indexes, matches, handlers>>

\* c is, or has been, the ConnID of a slot of r.
Played(c, r) == c \in ids[r]

Reading == {"readSender", "readConnID", "readSession"}
Storing == {"stored0", "stored1", "stored2"}

\* From the last store of StartMatch to the end of the match loop.
Live(r) == phase[r] \in {"countdown", "playing"}

Init ==
    /\ RoomsInit
    /\ runs = [k \in Codes |-> None]
    /\ byConn = [c \in Conns |-> None]
    /\ code = [r \in Runs |-> None]
    /\ players = [r \in Runs |-> [s \in Slots |-> None]]
    /\ session = [r \in Runs |-> [s \in Slots |-> None]]
    /\ sender = [r \in Runs |-> [s \in Slots |-> None]]
    /\ signals = [r \in Runs |-> 0]
    /\ phase = [r \in Runs |-> "free"]
    /\ at = [c \in Conns |-> "idle"]
    /\ run = [c \in Conns |-> None]
    /\ id = [c \in Conns |-> None]
    /\ asked = {}
    /\ ids = [r \in Runs |-> {}]
    /\ early = {}

-----------------------------------------------------------------------------
(* The lobby: its handlers, and the first half of OnDisconnect *)

\* The bound on the runs also ends the rooms: nobody takes a seat any more once
\* no run is left that could start or is reading its room.
RunsLeft == \E r \in Runs : phase[r] \in {"free"} \cup Reading

CreateRoom(c, k) ==
    /\ RunsLeft
    /\ at[c] = "idle"
    /\ OpenRoom(c, k)
    /\ UNCHANGED <<indexes, matches, handlers>>

JoinRoom(c, k) ==
    /\ RunsLeft
    /\ at[c] = "idle"
    /\ EnterRoom(c, k)
    /\ UNCHANGED <<indexes, matches, handlers>>

LeaveRoom(c) ==
    /\ at[c] = "idle"
    /\ QuitRoom(c)
    /\ UNCHANGED <<indexes, matches, handlers>>

LobbyOnDisconnect(c) ==
    /\ at[c] = "idle"
    /\ IF InRoom(c) THEN QuitRoom(c) ELSE UNCHANGED rooms
    /\ at' = [at EXCEPT ![c] = "leftLobby"]
    /\ UNCHANGED <<indexes, matches, run, id, asked, early>>

-----------------------------------------------------------------------------
(* StartMatch, in the goroutine of the player who was ready last *)

Seats(k) == [s \in Slots |-> IF s = 0 THEN host[k] ELSE guest[k]]

\* The guest reads his own seat, which he keeps meanwhile, and that of the host,
\* which the room keeps even if he goes.
StartByGuest(c, k, r) ==
    /\ at[c] = "idle"
    /\ c = guest[k]
    /\ StartRoom(k)
    /\ phase[r] = "free"
    /\ phase' = [phase EXCEPT ![r] = "stored0"]
    /\ code' = [code EXCEPT ![r] = k]
    /\ players' = [players EXCEPT ![r] = Seats(k)]
    /\ session' = [session EXCEPT ![r] = Seats(k)]
    /\ sender' = [sender EXCEPT ![r] = Seats(k)]
    /\ ids' = [ids EXCEPT ![r] = {host[k], c}]
    /\ at' = [at EXCEPT ![c] = "starting"]
    /\ run' = [run EXCEPT ![c] = r]
    /\ id' = [id EXCEPT ![c] = c]
    /\ UNCHANGED <<indexes, signals, asked, early>>

\* The host has the guest's seat still to read.
StartByHost(c, k, r) ==
    /\ at[c] = "idle"
    /\ c = host[k]
    /\ StartRoom(k)
    /\ phase[r] = "free"
    /\ phase' = [phase EXCEPT ![r] = "readSender"]
    /\ code' = [code EXCEPT ![r] = k]
    /\ players' = [players EXCEPT ![r][0] = c]
    /\ session' = [session EXCEPT ![r][0] = c]
    /\ sender' = [sender EXCEPT ![r][0] = c]
    /\ ids' = [ids EXCEPT ![r] = {c}]
    /\ at' = [at EXCEPT ![c] = "starting"]
    /\ run' = [run EXCEPT ![c] = r]
    /\ UNCHANGED <<indexes, signals, id, asked, early>>

\* Sender, ConnID and SessionID of the guest, read one after the other: he may
\* leave meanwhile, and another guest take the seat.
ReadSender(c) ==
    /\ at[c] = "starting"
    /\ phase[run[c]] = "readSender"
    /\ guest[code[run[c]]] # None
    /\ sender' = [sender EXCEPT ![run[c]][1] = guest[code[run[c]]]]
    /\ phase' = [phase EXCEPT ![run[c]] = "readConnID"]
    /\ UNCHANGED <<rooms, indexes, code, players, session, ids, signals, handlers>>

ReadConnID(c) ==
    /\ at[c] = "starting"
    /\ phase[run[c]] = "readConnID"
    /\ LET g == guest[code[run[c]]] IN
       /\ g # None
       /\ players' = [players EXCEPT ![run[c]][1] = g]
       /\ id' = [id EXCEPT ![c] = g]
       /\ ids' = [ids EXCEPT ![run[c]] = @ \cup {g}]
    /\ phase' = [phase EXCEPT ![run[c]] = "readSession"]
    /\ UNCHANGED <<rooms, indexes, code, session, sender, signals, at, run, asked,
                   early>>

ReadSession(c) ==
    /\ at[c] = "starting"
    /\ phase[run[c]] = "readSession"
    /\ guest[code[run[c]]] # None
    /\ session' = [session EXCEPT ![run[c]][1] = guest[code[run[c]]]]
    /\ phase' = [phase EXCEPT ![run[c]] = "stored0"]
    /\ UNCHANGED <<rooms, indexes, code, players, sender, ids, signals, handlers>>

\* m.runs.Store: whatever run the code had before.
StoreRun(c) ==
    /\ at[c] = "starting"
    /\ phase[run[c]] = "stored0"
    /\ runs' = [runs EXCEPT ![code[run[c]]] = run[c]]
    /\ phase' = [phase EXCEPT ![run[c]] = "stored1"]
    /\ UNCHANGED <<rooms, byConn, code, slots, signals, handlers>>

StoreHost(c) ==
    /\ at[c] = "starting"
    /\ phase[run[c]] = "stored1"
    /\ byConn' = [byConn EXCEPT ![players[run[c]][0]] = run[c]]
    /\ phase' = [phase EXCEPT ![run[c]] = "stored2"]
    /\ UNCHANGED <<rooms, runs, code, slots, signals, handlers>>

StoresHostTwice(c) == players[run[c]][0]

ReadsSeatAgain(c) == guest[code[run[c]]]

\* The ConnID that was read, whoever the slot has been given to meanwhile.
GuestRead(c) == id[c]

\* The last store, then "go matchLoop".
StoreGuest(c) ==
    /\ at[c] = "starting"
    /\ phase[run[c]] = "stored2"
    /\ byConn' = [byConn EXCEPT ![GuestRead(c)] = run[c]]
    /\ phase' = [phase EXCEPT ![run[c]] = "countdown"]
    /\ at' = [at EXCEPT ![c] = "idle"]
    /\ run' = [run EXCEPT ![c] = None]
    /\ id' = [id EXCEPT ![c] = None]
    /\ UNCHANGED <<rooms, runs, code, slots, signals, asked, early>>

-----------------------------------------------------------------------------
(* The match goroutine: countdown, reconnect signals, end callback *)

EndCountdown(r) ==
    /\ phase[r] = "countdown"
    /\ phase' = [phase EXCEPT ![r] = "playing"]
    /\ UNCHANGED <<rooms, indexes, code, slots, signals, handlers>>

Pending(r) == signals[r] > 0

TakeSignal(r) ==
    /\ phase[r] = "playing"
    /\ Pending(r)
    /\ signals' = [signals EXCEPT ![r] = @ - 1]
    /\ UNCHANGED <<rooms, indexes, code, slots, phase, handlers>>

\* By score or by forfeit; match.ended has been sent.
EndMatch(r) ==
    /\ phase[r] = "playing"
    /\ phase' = [phase EXCEPT ![r] = "ended"]
    /\ UNCHANGED <<rooms, indexes, code, slots, signals, handlers>>

\* m.runs.Delete(r.MatchID): whatever run the id stands for by now.
DeleteRun(r) ==
    /\ phase[r] = "ended"
    /\ runs' = [runs EXCEPT ![code[r]] = None]
    /\ phase' = [phase EXCEPT ![r] = "unindex0"]
    /\ UNCHANGED <<rooms, byConn, code, slots, signals, handlers>>

DeletesHostTwice(r, s) == players[r][0]

Entry(r, s) == players[r][s]

\* m.byConn.Delete(connID), slot by slot: whatever run it leads to by now.  The
\* ConnID is read in the same step: a HandleReconnect that came between would
\* delete the same entry itself.
Unindex(r, s) ==
    /\ phase[r] = IF s = 0 THEN "unindex0" ELSE "unindex1"
    /\ byConn' = [byConn EXCEPT ![Entry(r, s)] = None]
    /\ phase' = [phase EXCEPT ![r] = IF s = 0 THEN "unindex1" ELSE "done"]
    /\ UNCHANGED <<rooms, runs, code, slots, signals, handlers>>

-----------------------------------------------------------------------------
(* OnDisconnect *)

\* m.byConn.Load; without an entry there is nothing more to do.
DisconnectLoad(c) ==
    /\ at[c] = "leftLobby"
    /\ at' = [at EXCEPT ![c] = IF byConn[c] = None THEN "gone" ELSE "detaching"]
    /\ run' = [run EXCEPT ![c] = byConn[c]]
    /\ early' = early \cup {<<c, r>> : r \in {q \in Runs :
                    phase[q] \in Reading \cup Storing /\ Played(c, q)}}
    /\ UNCHANGED <<rooms, indexes, matches, id, asked>>

\* Under the lock: the slot whose ConnID it is, if it is still there.
DisconnectDetach(c) ==
    /\ at[c] = "detaching"
    /\ sender' = [sender EXCEPT ![run[c]] =
                     [s \in Slots |-> IF players[run[c]][s] = c THEN None ELSE @[s]]]
    /\ at' = [at EXCEPT ![c] = "gone"]
    /\ run' = [run EXCEPT ![c] = None]
    /\ UNCHANGED <<rooms, indexes, code, players, session, ids, signals, phase, id,
                   asked, early>>

-----------------------------------------------------------------------------
(* HandleReconnect *)

ReconnectLoad(c, k) ==
    /\ at[c] = "idle"
    /\ c \notin asked
    /\ Cardinality(asked) < MaxReconnects
    /\ asked' = asked \cup {c}
    /\ runs[k] # None
    /\ run' = [run EXCEPT ![c] = runs[k]]
    /\ at' = [at EXCEPT ![c] = "reconnecting"]
    /\ UNCHANGED <<rooms, indexes, matches, id, early>>

\* Slot s of the run has the session c had when it was read.
SessionMatches(c, s) == session[run[c]][s] = c

\* No slot has the session of c, or c has said hello since and has a new one.
ReconnectRefused(c) ==
    /\ at[c] = "reconnecting"
    /\ at' = [at EXCEPT ![c] = "idle"]
    /\ run' = [run EXCEPT ![c] = None]
    /\ UNCHANGED <<rooms, indexes, matches, id, asked, early>>

\* Under the lock.  An old entry of another connection will be deleted.
ReconnectAttach(c, s) ==
    /\ at[c] = "reconnecting"
    /\ SessionMatches(c, s)
    /\ sender' = [sender EXCEPT ![run[c]][s] = c]
    /\ players' = [players EXCEPT ![run[c]][s] = c]
    /\ ids' = [ids EXCEPT ![run[c]] = @ \cup {c}]
    /\ IF players[run[c]][s] = c
       THEN at' = [at EXCEPT ![c] = "attached"] /\ UNCHANGED id
       ELSE /\ at' = [at EXCEPT ![c] = "deleting"]
            /\ id' = [id EXCEPT ![c] = players[run[c]][s]]
    /\ UNCHANGED <<rooms, indexes, code, session, signals, phase, run, asked, early>>

\* m.byConn.Delete(oldConnID): whatever run it leads to by now.
ReconnectDelete(c) ==
    /\ at[c] = "deleting"
    /\ byConn' = [byConn EXCEPT ![id[c]] = None]
    /\ at' = [at EXCEPT ![c] = "attached"]
    /\ id' = [id EXCEPT ![c] = None]
    /\ UNCHANGED <<rooms, runs, matches, run, asked, early>>

\* m.byConn.Store: also when the match has ended meanwhile.
ReconnectStore(c) ==
    /\ at[c] = "attached"
    /\ byConn' = [byConn EXCEPT ![c] = run[c]]
    /\ at' = [at EXCEPT ![c] = "signalling"]
    /\ UNCHANGED <<rooms, runs, matches, run, id, asked, early>>

RoomWhenFull(r) == signals[r] <= ReconnectCap

Room(r) == signals[r] < ReconnectCap

\* reconnectCh <- slot: blocks while the channel is full.
ReconnectSignal(c) ==
    /\ at[c] = "signalling"
    /\ Room(run[c])
    /\ signals' = [signals EXCEPT ![run[c]] = @ + 1]
    /\ at' = [at EXCEPT ![c] = "idle"]
    /\ run' = [run EXCEPT ![c] = None]
    /\ UNCHANGED <<rooms, indexes, code, slots, phase, id, asked, early>>

-----------------------------------------------------------------------------

RunStep(r) ==
    \/ EndCountdown(r) \/ TakeSignal(r) \/ EndMatch(r)
    \/ DeleteRun(r) \/ \E s \in Slots : Unindex(r, s)

HandlerStep(c) ==
    \/ ReadSender(c) \/ ReadConnID(c) \/ ReadSession(c)
    \/ StoreRun(c) \/ StoreHost(c) \/ StoreGuest(c)
    \/ DisconnectLoad(c) \/ DisconnectDetach(c)
    \/ ReconnectRefused(c) \/ \E s \in Slots : ReconnectAttach(c, s)
    \/ ReconnectDelete(c) \/ ReconnectStore(c) \/ ReconnectSignal(c)

ClientStep(c) ==
    \/ \E k \in Codes : \/ CreateRoom(c, k) \/ JoinRoom(c, k) \/ ReconnectLoad(c, k)
                        \/ \E r \in Runs : StartByGuest(c, k, r) \/ StartByHost(c, k, r)
    \/ LeaveRoom(c)
    \/ LobbyOnDisconnect(c)

Next ==
    \/ \E r \in Runs : RunStep(r)
    \/ \E c \in Conns : HandlerStep(c) \/ ClientStep(c)

Spec == Init /\ [][Next]_vars

-----------------------------------------------------------------------------
(* Properties *)

Phases == {"free"} \cup Reading \cup Storing
          \cup {"countdown", "playing", "ended", "unindex0", "unindex1", "done"}
Places == {"idle", "starting", "leftLobby", "detaching", "gone", "reconnecting",
           "deleting", "attached", "signalling"}

TypeOK ==
    /\ runs \in [Codes -> Runs \cup {None}]
    /\ byConn \in [Conns -> Runs \cup {None}]
    /\ code \in [Runs -> Codes \cup {None}]
    /\ players \in [Runs -> [Slots -> Conns \cup {None}]]
    /\ session \in [Runs -> [Slots -> Conns \cup {None}]]
    /\ sender \in [Runs -> [Slots -> Conns \cup {None}]]
    /\ signals \in [Runs -> 0 .. ReconnectCap]
    /\ phase \in [Runs -> Phases]
    /\ at \in [Conns -> Places]
    /\ run \in [Conns -> Runs \cup {None}]
    /\ id \in [Conns -> Conns \cup {None}]
    /\ asked \in SUBSET Conns
    /\ ids \in [Runs -> SUBSET Conns]
    /\ early \in SUBSET (Conns \X Runs)

\* A connection is routed to a match it plays or has played in, and an id to a
\* match of that id, also when guests change seats while StartMatch reads them:
\* neither HandleInput nor OnDisconnect ever gets a stranger's match.
RoutesToPlayers ==
    /\ \A c \in Conns : byConn[c] # None => Played(c, byConn[c])
    /\ \A k \in Codes : runs[k] # None => code[runs[k]] = k

\* The handler of c has attached it to r and will store its entry.
Attaching(c, r) == at[c] \in {"deleting", "attached"} /\ run[c] = r

\* A live match is missing from the index only on account of another one: of
\* the same room code, for its id; which the same connection has played in, for
\* a connection.  So a player who plays one match is routed to it from its first
\* tick to its end, up to the store of a match.reconnect of his.
LostToAnotherMatch ==
    \A r \in Runs : Live(r) =>
        /\ runs[code[r]] # r => \E q \in Runs \ {r} : code[q] = code[r]
        /\ \A s \in Slots : LET c == players[r][s] IN
               byConn[c] # r => \/ \E q \in Runs \ {r} : Played(c, q)
                               \/ Attaching(c, r)

\* The Sender of a live match is a connection that is still there, unless its
\* onClose came before StartMatch had stored the match, it has played in another
\* match too, or the slot has the ConnID of another guest.
DisconnectsHeard ==
    \A r \in Runs, s \in Slots : LET c == sender[r][s] IN
        Live(r) /\ c # None /\ at[c] = "gone" =>
            \/ <<c, r>> \in early
            \/ \E q \in Runs \ {r} : Played(c, q)
            \/ players[r][s] # c

\* No player of a match that is over, its callback through, is routed to it,
\* except by a match.reconnect of his that the end has overtaken.
NoRouteToFinished ==
    \A c \in Conns : LET r == byConn[c] IN
        r # None /\ phase[r] = "done" /\ (\E s \in Slots : players[r][s] = c) =>
            c \in asked

=============================================================================
