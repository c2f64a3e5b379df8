------------------------- MODULE MatchManagerProofs -------------------------
(***************************************************************************)
(* Proofs about MatchManager, for any connections, codes and runs.          *)
(*                                                                         *)
(* A run keeps its code, its host and the ConnIDs it has had (Grows), so    *)
(* whoever overwrites or deletes an entry of another run goes on being the  *)
(* run that has done so: it has the same code, or the same player.  The     *)
(* guest of a run may change: StartMatch reads him in three steps, and the  *)
(* session it has read may attach another ConnID; the invariant follows the *)
(* ConnID from there to its store.  Each part of the invariant is kept by   *)
(* every step in a lemma of its own.                                       *)
(***************************************************************************)
EXTENDS MatchManager, TLAPS

Left == {"leftLobby", "detaching", "gone"}
Reconnecting == {"reconnecting", "deleting", "attached", "signalling"}
Early == {"readSender", "readConnID"}
Made(r) == phase[r] # "free"
Starts(c, r) == at[c] = "starting" /\ run[c] = r
Sits(c, k) == c \in {host[k], guest[k]}

\* A player has one seat, and none once he has left.
SeatsOK ==
    /\ host \in [Codes -> Conns \cup {None}]
    /\ guest \in [Codes -> Conns \cup {None}]
    /\ started \in [Codes -> BOOLEAN]
    /\ \A c \in Conns, k, l \in Codes : Sits(c, k) /\ Sits(c, l) => k = l
    /\ \A k \in Codes : host[k] \in Conns => host[k] # guest[k]
    /\ \A c \in Conns : at[c] \in Left => ~InRoom(c)

\* What StartMatch has made of a run: the host for good, the guest as far as it
\* has read him.
Used(r) ==
    /\ code[r] \in Codes
    /\ players[r][0] \in Conns /\ session[r][0] = players[r][0]
    /\ players[r][1] # players[r][0] /\ session[r][1] # players[r][0]
    /\ phase[r] \notin Early => players[r][1] \in Conns
    /\ phase[r] \in Reading => session[r][1] = None
    /\ \A s \in Slots : players[r][s] \in {None} \cup ids[r]

Fresh(r) ==
    /\ code[r] = None /\ ids[r] = {}
    /\ \A s \in Slots : players[r][s] = None /\ session[r][s] = None /\ sender[r][s] = None

UsedOK == \A r \in Runs : Made(r) => Used(r)

FreshOK == \A r \in Runs : ~Made(r) => Fresh(r)

\* The local variables of a StartMatch, of an OnDisconnect and of a HandleReconnect.
StarterOK(c) ==
    at[c] = "starting" =>
        /\ run[c] \in Runs
        /\ phase[run[c]] \in Reading \cup Storing
        /\ phase[run[c]] \in Reading => c = host[code[run[c]]] /\ c = players[run[c]][0]
        /\ phase[run[c]] \notin Early => id[c] \in ids[run[c]]

LeaverOK(c) == at[c] = "detaching" => run[c] \in Runs /\ Played(c, run[c])

ReturnerOK(c) ==
    /\ at[c] \in Reconnecting => run[c] \in Runs /\ c \in asked
    /\ at[c] \in {"deleting", "attached"} => Played(c, run[c])
    /\ at[c] = "deleting" =>
        /\ session[run[c]][1] = c /\ players[run[c]][1] = c
        /\ id[c] # c /\ id[c] # players[run[c]][0] /\ id[c] \in ids[run[c]]

LocalOK(c) == StarterOK(c) /\ LeaverOK(c) /\ ReturnerOK(c)

\* One goroutine starts a run.
LocalsOK ==
    /\ \A c \in Conns : LocalOK(c)
    /\ \A c, d \in Conns, r \in Runs : Starts(c, r) /\ Starts(d, r) => c = d

\* The entries that have been stored are there or lost to another run.
InRuns(r) == phase[r] \in {"stored1", "stored2", "countdown", "playing"}

RunIndexed(r) ==
    InRuns(r) => runs[code[r]] = r \/ \E q \in Runs \ {r} : code[q] = code[r]

\* The entry of c for r is there, lost to another run, or on its way.
Elsewhere(c, r) == \E q \in Runs \ {r} : Played(c, q)

Routed(c, r) == byConn[c] = r \/ Elsewhere(c, r) \/ Attaching(c, r)

HostIndexed(r) == Live(r) \/ phase[r] = "stored2" => Routed(players[r][0], r)

ToStore(r) == phase[r] \in {"readSession"} \cup Storing

GuestIndexed(r) ==
    /\ Live(r) => Routed(players[r][1], r)
    /\ ToStore(r) =>
        \/ Routed(players[r][1], r)
        \/ \A c \in Conns : Starts(c, r) => id[c] = players[r][1]

IndexedOK == \A r \in Runs : RunIndexed(r) /\ HostIndexed(r) /\ GuestIndexed(r)

\* DisconnectsHeard, from the moment StartMatch has made the run.
Active(r) == Live(r) \/ phase[r] \in Reading \cup Storing

Excused(c, r) == <<c, r>> \in early \/ Elsewhere(c, r)

HeardOK ==
    \A r \in Runs, s \in Slots, c \in Conns :
        Active(r) /\ sender[r][s] = c /\ players[r][s] = c /\ at[c] = "gone" => Excused(c, r)

\* The deletes of the end callback, slot by slot.
FinishedOK ==
    \A c \in Conns, r \in Runs : byConn[c] = r /\ c \notin asked =>
        /\ phase[r] = "unindex1" => c # players[r][0]
        /\ phase[r] = "done" => \A s \in Slots : c # players[r][s]

Typed == TypeOK /\ SeatsOK /\ UsedOK /\ FreshOK

IInv == Typed /\ LocalsOK /\ RoutesToPlayers /\ IndexedOK /\ HeardOK /\ FinishedOK

-----------------------------------------------------------------------------

LEMMA SlotsTwo == 0 \in Slots /\ 1 \in Slots /\ \A s \in Slots : s = 0 \/ s = 1
  BY DEF Slots

LEMMA Names ==
  /\ None \notin Conns /\ None \notin Runs /\ None \notin Codes
  /\ ReconnectCap \in Nat /\ ReconnectCap > 0
  BY NobodyAssumption, ManagerAssumption

\* A slot of one run is set.
LEMMA SlotSet ==
  ASSUME NEW f \in [Runs -> [Slots -> Conns \cup {None}]], NEW r \in Runs, NEW s \in Slots,
         NEW x \in Conns \cup {None}, NEW g, g = [f EXCEPT ![r][s] = x]
  PROVE  /\ g \in [Runs -> [Slots -> Conns \cup {None}]]
         /\ \A q \in Runs, t \in Slots : g[q][t] = IF q = r /\ t = s THEN x ELSE f[q][t]
<1>1. g = [f EXCEPT ![r] = [f[r] EXCEPT ![s] = x]]
  OBVIOUS
<1>2. [f[r] EXCEPT ![s] = x] \in [Slots -> Conns \cup {None}]
  OBVIOUS
<1> DEFINE new == [f[r] EXCEPT ![s] = x]
<1>3. \A t \in Slots : new[t] = IF t = s THEN x ELSE f[r][t]
  OBVIOUS
<1> HIDE DEF new
<1>4. g = [f EXCEPT ![r] = new] /\ new \in [Slots -> Conns \cup {None}]
  BY <1>1, <1>2 DEF new
<1>5. g \in [Runs -> [Slots -> Conns \cup {None}]]
  BY <1>4
<1>6. g[r] = new /\ \A q \in Runs \ {r} : g[q] = f[q]
  BY <1>4
<1> QED
  BY <1>3, <1>5, <1>6

LEMMA Steps ==
  ASSUME [Next]_vars
  PROVE  \/ \E c \in Conns, k \in Codes : CreateRoom(c, k) \/ JoinRoom(c, k) \/ ReconnectLoad(c, k)
         \/ \E c \in Conns, k \in Codes, r \in Runs : StartByGuest(c, k, r) \/ StartByHost(c, k, r)
         \/ \E c \in Conns : \/ LeaveRoom(c) \/ LobbyOnDisconnect(c)
                             \/ ReadSender(c) \/ ReadConnID(c) \/ ReadSession(c)
                             \/ StoreRun(c) \/ StoreHost(c) \/ StoreGuest(c)
                             \/ DisconnectLoad(c) \/ DisconnectDetach(c)
                             \/ ReconnectRefused(c) \/ ReconnectDelete(c)
                             \/ ReconnectStore(c) \/ ReconnectSignal(c)
         \/ \E c \in Conns, s \in Slots : ReconnectAttach(c, s)
         \/ \E r \in Runs : EndCountdown(r) \/ TakeSignal(r) \/ EndMatch(r) \/ DeleteRun(r)
         \/ \E r \in Runs, s \in Slots : Unindex(r, s)
         \/ UNCHANGED vars
  BY DEF Next, RunStep, HandlerStep, ClientStep

\* Types, seats and what runs are made of.
LEMMA InitTyped == Init => Typed
<1> SUFFICES ASSUME Init PROVE Typed
  OBVIOUS
<1> USE DEF Init, RoomsInit
<1>1. TypeOK
  BY Names DEF TypeOK, Phases, Places
<1>2. SeatsOK
  BY Names DEF SeatsOK, Sits, InRoom, Left
<1>3. UsedOK /\ FreshOK
  BY DEF UsedOK, FreshOK, Fresh, Made
<1> QED
  BY <1>1, <1>2, <1>3 DEF Typed

\* A StartMatch makes a run that was free: its host, and all of its guest or none.
LEMMA StartMade ==
  ASSUME Typed, NEW c \in Conns, NEW k \in Codes, NEW r \in Runs,
         StartByGuest(c, k, r) \/ StartByHost(c, k, r)
  PROVE  /\ phase[r] = "free" /\ code' = [code EXCEPT ![r] = k] /\ code'[r] = k
         /\ at[c] = "idle" /\ at' = [at EXCEPT ![c] = "starting"]
         /\ run' = [run EXCEPT ![c] = r]
         /\ UNCHANGED <<host, guest, runs, byConn, signals, asked, early>>
         /\ host[k] \in Conns /\ guest[k] \in Conns /\ host[k] # guest[k]
         /\ ids' \in [Runs -> SUBSET Conns]
         /\ players' \in [Runs -> [Slots -> Conns \cup {None}]]
         /\ session' \in [Runs -> [Slots -> Conns \cup {None}]]
         /\ sender' \in [Runs -> [Slots -> Conns \cup {None}]]
         /\ players'[r][0] = host[k] /\ session'[r][0] = host[k] /\ host[k] \in ids'[r]
         /\ sender'[r][0] = host[k]
         /\ \/ /\ phase' = [phase EXCEPT ![r] = "stored0"] /\ phase'[r] = "stored0"
               /\ players'[r][1] = guest[k] /\ session'[r][1] = guest[k] /\ sender'[r][1] = guest[k]
               /\ guest[k] \in ids'[r] /\ id' = [id EXCEPT ![c] = c] /\ c = guest[k]
            \/ /\ phase' = [phase EXCEPT ![r] = "readSender"] /\ phase'[r] = "readSender"
               /\ players'[r][1] = None /\ session'[r][1] = None /\ sender'[r][1] = None
               /\ id' = id /\ c = host[k]
         /\ \A q \in Runs \ {r} : /\ phase'[q] = phase[q] /\ code'[q] = code[q] /\ ids'[q] = ids[q]
                                  /\ \A s \in Slots : /\ players'[q][s] = players[q][s]
                                                      /\ session'[q][s] = session[q][s]
                                                      /\ sender'[q][s] = sender[q][s]
<1> USE SlotsTwo, Names DEF indexes
<1>1. /\ players \in [Runs -> [Slots -> Conns \cup {None}]]
      /\ session \in [Runs -> [Slots -> Conns \cup {None}]]
      /\ sender \in [Runs -> [Slots -> Conns \cup {None}]]
      /\ ids \in [Runs -> SUBSET Conns] /\ code \in [Runs -> Codes \cup {None}]
      /\ phase \in [Runs -> Phases]
  BY DEF Typed, TypeOK
<1>2. host[k] \in Conns /\ guest[k] \in Conns /\ host[k] # guest[k]
  BY DEF StartByGuest, StartByHost, StartRoom, Typed, SeatsOK
<1>3. /\ phase[r] = "free" /\ code' = [code EXCEPT ![r] = k] /\ code'[r] = k
      /\ at[c] = "idle" /\ at' = [at EXCEPT ![c] = "starting"]
      /\ run' = [run EXCEPT ![c] = r]
      /\ UNCHANGED <<host, guest, runs, byConn, signals, asked, early>>
  BY <1>1 DEF StartByGuest, StartByHost, StartRoom
<1>4. CASE StartByGuest(c, k, r)
  <2> DEFINE pair == [s \in Slots |-> IF s = 0 THEN host[k] ELSE guest[k]]
  <2>1. pair \in [Slots -> Conns \cup {None}] /\ pair[0] = host[k] /\ pair[1] = guest[k]
    BY <1>2
  <2>2. /\ players' = [players EXCEPT ![r] = pair] /\ session' = [session EXCEPT ![r] = pair]
        /\ sender' = [sender EXCEPT ![r] = pair] /\ ids' = [ids EXCEPT ![r] = {host[k], c}]
        /\ phase' = [phase EXCEPT ![r] = "stored0"] /\ c = guest[k] /\ id' = [id EXCEPT ![c] = c]
    BY <1>4 DEF StartByGuest, Seats
  <2> HIDE DEF pair
  <2>3. /\ players'[r] = pair /\ session'[r] = pair /\ sender'[r] = pair
        /\ ids'[r] = {host[k], guest[k]} /\ phase'[r] = "stored0"
    BY <1>1, <2>2
  <2>4. /\ players' \in [Runs -> [Slots -> Conns \cup {None}]]
        /\ session' \in [Runs -> [Slots -> Conns \cup {None}]]
        /\ sender' \in [Runs -> [Slots -> Conns \cup {None}]]
        /\ ids' \in [Runs -> SUBSET Conns]
    BY <1>1, <1>2, <2>1, <2>2
  <2>5. \A q \in Runs \ {r} : /\ phase'[q] = phase[q] /\ code'[q] = code[q] /\ ids'[q] = ids[q]
                              /\ players'[q] = players[q] /\ session'[q] = session[q]
                              /\ sender'[q] = sender[q]
    BY <1>1, <1>3, <2>2
  <2> QED
    BY <1>2, <1>3, <2>1, <2>2, <2>3, <2>4, <2>5
<1>5. CASE StartByHost(c, k, r)
  <2>1. /\ players' = [players EXCEPT ![r][0] = c] /\ session' = [session EXCEPT ![r][0] = c]
        /\ sender' = [sender EXCEPT ![r][0] = c] /\ ids' = [ids EXCEPT ![r] = {c}]
        /\ phase' = [phase EXCEPT ![r] = "readSender"] /\ c = host[k] /\ id' = id
    BY <1>5 DEF StartByHost
  <2>2. /\ players' \in [Runs -> [Slots -> Conns \cup {None}]]
        /\ \A q \in Runs, t \in Slots :
               players'[q][t] = IF q = r /\ t = 0 THEN c ELSE players[q][t]
    BY <1>1, <2>1, SlotSet
  <2>3. /\ session' \in [Runs -> [Slots -> Conns \cup {None}]]
        /\ \A q \in Runs, t \in Slots :
               session'[q][t] = IF q = r /\ t = 0 THEN c ELSE session[q][t]
    BY <1>1, <2>1, SlotSet
  <2>4. /\ sender' \in [Runs -> [Slots -> Conns \cup {None}]]
        /\ \A q \in Runs, t \in Slots :
               sender'[q][t] = IF q = r /\ t = 0 THEN c ELSE sender[q][t]
    BY <1>1, <2>1, SlotSet
  <2>5. /\ ids' \in [Runs -> SUBSET Conns] /\ ids'[r] = {c} /\ phase'[r] = "readSender"
        /\ \A q \in Runs \ {r} : phase'[q] = phase[q] /\ code'[q] = code[q] /\ ids'[q] = ids[q]
    BY <1>1, <1>3, <2>1
  <2>6. players[r][1] = None /\ session[r][1] = None /\ sender[r][1] = None
    BY <1>3 DEF Typed, FreshOK, Fresh, Made
  <2>7. /\ players'[r][0] = c /\ session'[r][0] = c /\ sender'[r][0] = c
        /\ players'[r][1] = None /\ session'[r][1] = None /\ sender'[r][1] = None
    BY <2>2, <2>3, <2>4, <2>6
  <2>8. \A q \in Runs \ {r}, s \in Slots : /\ players'[q][s] = players[q][s]
                                           /\ session'[q][s] = session[q][s]
                                           /\ sender'[q][s] = sender[q][s]
    BY <2>2, <2>3, <2>4
  <2> QED
    BY <1>2, <1>3, <2>1, <2>2, <2>3, <2>4, <2>5, <2>7, <2>8
<1> QED
  BY <1>4, <1>5

\* A read of the guest's seat gets who sits there now, who is not the host.
LEMMA ReadMade ==
  ASSUME Typed, LocalsOK, NEW c \in Conns, ReadSender(c) \/ ReadConnID(c) \/ ReadSession(c),
         NEW r, r = run[c], NEW g, g = guest[code[r]]
  PROVE  /\ r \in Runs /\ at[c] = "starting" /\ g \in Conns /\ InRoom(g) /\ code[r] \in Codes
         /\ players[r][0] \in Conns /\ g # players[r][0]
         /\ UNCHANGED <<host, guest, started, runs, byConn, code, signals, at, run, asked, early>>
         /\ ids' \in [Runs -> SUBSET Conns] /\ \A q \in Runs : ids[q] \subseteq ids'[q]
         /\ players' \in [Runs -> [Slots -> Conns \cup {None}]]
         /\ session' \in [Runs -> [Slots -> Conns \cup {None}]]
         /\ sender' \in [Runs -> [Slots -> Conns \cup {None}]]
         /\ \/ /\ phase[r] = "readSender" /\ phase' = [phase EXCEPT ![r] = "readConnID"]
               /\ players' = players /\ session' = session /\ ids' = ids /\ id' = id
               /\ \A q \in Runs, t \in Slots :
                      sender'[q][t] = IF q = r /\ t = 1 THEN g ELSE sender[q][t]
            \/ /\ phase[r] = "readConnID" /\ phase' = [phase EXCEPT ![r] = "readSession"]
               /\ sender' = sender /\ session' = session /\ g \in ids'[r]
               /\ id' = [id EXCEPT ![c] = g]
               /\ \A q \in Runs, t \in Slots :
                      players'[q][t] = IF q = r /\ t = 1 THEN g ELSE players[q][t]
            \/ /\ phase[r] = "readSession" /\ phase' = [phase EXCEPT ![r] = "stored0"]
               /\ sender' = sender /\ players' = players /\ ids' = ids /\ id' = id
               /\ \A q \in Runs, t \in Slots :
                      session'[q][t] = IF q = r /\ t = 1 THEN g ELSE session[q][t]
<1> USE SlotsTwo, Names DEF indexes, handlers, rooms
<1>1. /\ players \in [Runs -> [Slots -> Conns \cup {None}]]
      /\ session \in [Runs -> [Slots -> Conns \cup {None}]]
      /\ sender \in [Runs -> [Slots -> Conns \cup {None}]]
      /\ ids \in [Runs -> SUBSET Conns] /\ guest \in [Codes -> Conns \cup {None}]
  BY DEF Typed, TypeOK, SeatsOK
<1>2. /\ at[c] = "starting" /\ phase[r] \in Reading /\ g # None
      /\ UNCHANGED <<host, guest, started, runs, byConn, code, signals, at, run, asked, early>>
  BY DEF ReadSender, ReadConnID, ReadSession, Reading
<1>3. r \in Runs /\ c = host[code[r]] /\ c = players[r][0]
  BY <1>2 DEF LocalsOK, LocalOK, StarterOK
<1>4. code[r] \in Codes
  BY <1>2, <1>3 DEF Typed, UsedOK, Used, Made, Reading
<1>5. g \in Conns /\ InRoom(g) /\ g # c
  BY <1>1, <1>2, <1>3, <1>4 DEF InRoom, Typed, SeatsOK
<1>5a. r \in Runs /\ 1 \in Slots /\ g \in Conns \cup {None}
  BY <1>3, <1>5
<1>6. CASE ReadSender(c)
  <2>1. /\ phase[r] = "readSender" /\ phase' = [phase EXCEPT ![r] = "readConnID"]
        /\ players' = players /\ session' = session /\ ids' = ids /\ id' = id
        /\ sender' = [sender EXCEPT ![r][1] = g]
    BY <1>6 DEF ReadSender
  <2>2. /\ sender' \in [Runs -> [Slots -> Conns \cup {None}]]
        /\ \A q \in Runs, t \in Slots :
               sender'[q][t] = IF q = r /\ t = 1 THEN g ELSE sender[q][t]
    BY <1>1, <1>5a, <2>1, SlotSet
  <2> QED
    BY <1>1, <1>2, <1>3, <1>4, <1>5, <2>1, <2>2
<1>7. CASE ReadConnID(c)
  <2>1. /\ phase[r] = "readConnID" /\ phase' = [phase EXCEPT ![r] = "readSession"]
        /\ sender' = sender /\ session' = session /\ id' = [id EXCEPT ![c] = g]
        /\ ids' = [ids EXCEPT ![r] = @ \cup {g}]
        /\ players' = [players EXCEPT ![r][1] = g]
    BY <1>7 DEF ReadConnID
  <2>2. /\ players' \in [Runs -> [Slots -> Conns \cup {None}]]
        /\ \A q \in Runs, t \in Slots :
               players'[q][t] = IF q = r /\ t = 1 THEN g ELSE players[q][t]
    BY <1>1, <1>5a, <2>1, SlotSet
  <2>3. ids' \in [Runs -> SUBSET Conns] /\ g \in ids'[r] /\ \A q \in Runs : ids[q] \subseteq ids'[q]
    BY <1>1, <1>3, <1>5, <2>1
  <2> QED
    BY <1>1, <1>2, <1>3, <1>4, <1>5, <2>1, <2>2, <2>3
<1>8. CASE ReadSession(c)
  <2>1. /\ phase[r] = "readSession" /\ phase' = [phase EXCEPT ![r] = "stored0"]
        /\ players' = players /\ sender' = sender /\ ids' = ids /\ id' = id
        /\ session' = [session EXCEPT ![r][1] = g]
    BY <1>8 DEF ReadSession
  <2>2. /\ session' \in [Runs -> [Slots -> Conns \cup {None}]]
        /\ \A q \in Runs, t \in Slots :
               session'[q][t] = IF q = r /\ t = 1 THEN g ELSE session[q][t]
    BY <1>1, <1>5a, <2>1, SlotSet
  <2> QED
    BY <1>1, <1>2, <1>3, <1>4, <1>5, <2>1, <2>2
<1> QED
  BY <1>6, <1>7, <1>8

\* A reconnect gives a slot that has been read to the connection of its session.
LEMMA AttachMade ==
  ASSUME Typed, LocalsOK, NEW c \in Conns, NEW s \in Slots, ReconnectAttach(c, s),
         NEW r, r = run[c]
  PROVE  /\ r \in Runs /\ at[c] = "reconnecting" /\ c \in asked /\ session[r][s] = c
         /\ Made(r) /\ (s = 1 => phase[r] \notin Reading /\ c # players[r][0])
         /\ (s = 0 => c = players[r][0])
         /\ UNCHANGED <<host, guest, started, runs, byConn, code, signals, phase, session, run,
                        asked, early>>
         /\ ids' \in [Runs -> SUBSET Conns] /\ \A q \in Runs : ids[q] \subseteq ids'[q]
         /\ c \in ids'[r]
         /\ players' \in [Runs -> [Slots -> Conns \cup {None}]]
         /\ sender' \in [Runs -> [Slots -> Conns \cup {None}]]
         /\ \A q \in Runs, t \in Slots :
                /\ players'[q][t] = IF q = r /\ t = s THEN c ELSE players[q][t]
                /\ sender'[q][t] = IF q = r /\ t = s THEN c ELSE sender[q][t]
         /\ \/ /\ at' = [at EXCEPT ![c] = "attached"] /\ id' = id /\ players[r][s] = c
            \/ /\ at' = [at EXCEPT ![c] = "deleting"] /\ players[r][s] # c /\ s = 1
               /\ id' = [id EXCEPT ![c] = players[r][s]]
               /\ players[r][s] \in Conns /\ players[r][s] \in ids[r]
<1> USE SlotsTwo, Names DEF indexes, rooms
<1>1. /\ players \in [Runs -> [Slots -> Conns \cup {None}]]
      /\ sender \in [Runs -> [Slots -> Conns \cup {None}]]
      /\ ids \in [Runs -> SUBSET Conns]
  BY DEF Typed, TypeOK
<1>2. /\ at[c] = "reconnecting" /\ session[r][s] = c
      /\ sender' = [sender EXCEPT ![r][s] = c] /\ players' = [players EXCEPT ![r][s] = c]
      /\ ids' = [ids EXCEPT ![r] = @ \cup {c}]
      /\ UNCHANGED <<host, guest, started, runs, byConn, code, signals, phase, session, run,
                     asked, early>>
      /\ IF players[r][s] = c
         THEN at' = [at EXCEPT ![c] = "attached"] /\ id' = id
         ELSE at' = [at EXCEPT ![c] = "deleting"] /\ id' = [id EXCEPT ![c] = players[r][s]]
  BY DEF ReconnectAttach, SessionMatches
<1>3. r \in Runs /\ c \in asked
  BY <1>2 DEF LocalsOK, LocalOK, ReturnerOK, Reconnecting
<1>4. Made(r)
  BY <1>2, <1>3 DEF Typed, FreshOK, Fresh
<1>5. /\ s = 1 => phase[r] \notin Reading /\ c # players[r][0]
      /\ s = 0 => c = players[r][0]
  BY <1>2, <1>3, <1>4 DEF Typed, UsedOK, Used
<1>6. players[r][s] # c => /\ s = 1 /\ players[r][s] \in Conns /\ players[r][s] \in ids[r]
  BY <1>3, <1>4, <1>5 DEF Typed, UsedOK, Used, Reading, Early
<1>7. /\ players' \in [Runs -> [Slots -> Conns \cup {None}]]
      /\ \A q \in Runs, t \in Slots :
             players'[q][t] = IF q = r /\ t = s THEN c ELSE players[q][t]
  BY <1>1, <1>2, <1>3, SlotSet
<1>8. /\ sender' \in [Runs -> [Slots -> Conns \cup {None}]]
      /\ \A q \in Runs, t \in Slots :
             sender'[q][t] = IF q = r /\ t = s THEN c ELSE sender[q][t]
  BY <1>1, <1>2, <1>3, SlotSet
<1>9. /\ ids' \in [Runs -> SUBSET Conns] /\ c \in ids'[r]
      /\ \A q \in Runs : ids[q] \subseteq ids'[q]
  BY <1>1, <1>2, <1>3
<1> QED
  BY <1>2, <1>3, <1>4, <1>5, <1>6, <1>7, <1>8, <1>9

\* A disconnect empties the slot of who leaves.
LEMMA DetachMade ==
  ASSUME Typed, LocalsOK, NEW c \in Conns, DisconnectDetach(c), NEW r, r = run[c]
  PROVE  /\ r \in Runs /\ Played(c, r) /\ at[c] = "detaching"
         /\ at' = [at EXCEPT ![c] = "gone"] /\ run' = [run EXCEPT ![c] = None]
         /\ UNCHANGED <<host, guest, started, runs, byConn, code, players, session, ids, signals,
                        phase, id, asked, early>>
         /\ sender' \in [Runs -> [Slots -> Conns \cup {None}]]
         /\ \A q \in Runs, t \in Slots :
                sender'[q][t] = IF q = r /\ players[q][t] = c THEN None ELSE sender[q][t]
<1> USE SlotsTwo DEF indexes, rooms
<1>1. sender \in [Runs -> [Slots -> Conns \cup {None}]]
  BY DEF Typed, TypeOK
<1>2. /\ at[c] = "detaching" /\ at' = [at EXCEPT ![c] = "gone"]
      /\ run' = [run EXCEPT ![c] = None]
      /\ UNCHANGED <<host, guest, started, runs, byConn, code, players, session, ids, signals,
                     phase, id, asked, early>>
  BY DEF DisconnectDetach
<1>3. r \in Runs /\ Played(c, r)
  BY <1>2 DEF LocalsOK, LocalOK, LeaverOK
<1> DEFINE new == [s \in Slots |-> IF players[r][s] = c THEN None ELSE sender[r][s]]
<1>4. new \in [Slots -> Conns \cup {None}]
  BY <1>1, <1>3
<1>5. sender' = [sender EXCEPT ![r] = new]
  BY <1>1, <1>3 DEF DisconnectDetach
<1>6. \A t \in Slots : new[t] = IF players[r][t] = c THEN None ELSE sender[r][t]
  OBVIOUS
<1> HIDE DEF new
<1>7. sender' \in [Runs -> [Slots -> Conns \cup {None}]]
  BY <1>1, <1>4, <1>5
<1>8. sender'[r] = new /\ \A q \in Runs \ {r} : sender'[q] = sender[q]
  BY <1>1, <1>3, <1>5
<1> QED
  BY <1>2, <1>3, <1>6, <1>7, <1>8

LEMMA TypeStep == ASSUME Typed, LocalsOK, [Next]_vars PROVE TypeOK'
<1> USE Names DEF indexes, matches, slots, handlers, Phases, Places, Reading, Storing
<1> TypeOK
  BY DEF Typed
<1>0. /\ phase \in [Runs -> Phases] /\ at \in [Conns -> Places]
      /\ id \in [Conns -> Conns \cup {None}]
  BY DEF TypeOK
<1>1. ASSUME NEW c \in Conns, NEW k \in Codes, CreateRoom(c, k) \/ JoinRoom(c, k)
      PROVE  TypeOK'
  BY <1>1 DEF CreateRoom, JoinRoom, TypeOK
<1>2. ASSUME NEW c \in Conns, LeaveRoom(c) \/ LobbyOnDisconnect(c)
      PROVE  TypeOK'
  <2>1. /\ UNCHANGED <<indexes, matches, run, id, asked, early>>
        /\ at' = at \/ at' = [at EXCEPT ![c] = "leftLobby"]
    BY <1>2 DEF LeaveRoom, LobbyOnDisconnect
  <2> QED
    BY <2>1 DEF TypeOK
<1>3. ASSUME NEW c \in Conns, NEW k \in Codes, ReconnectLoad(c, k)
      PROVE  TypeOK'
  <2>1. /\ UNCHANGED <<indexes, matches, id, early>>
        /\ at' = [at EXCEPT ![c] = "reconnecting"] /\ asked' = asked \cup {c}
        /\ run' = [run EXCEPT ![c] = runs[k]]
    BY <1>3 DEF ReconnectLoad
  <2> QED
    BY <2>1 DEF TypeOK
<1>4. ASSUME NEW c \in Conns, NEW k \in Codes, NEW r \in Runs,
             StartByGuest(c, k, r) \/ StartByHost(c, k, r)
      PROVE  TypeOK'
  <2>1. /\ code' = [code EXCEPT ![r] = k] /\ UNCHANGED <<runs, byConn, signals, asked, early>>
        /\ at' = [at EXCEPT ![c] = "starting"] /\ run' = [run EXCEPT ![c] = r]
        /\ ids' \in [Runs -> SUBSET Conns]
        /\ players' \in [Runs -> [Slots -> Conns \cup {None}]]
        /\ session' \in [Runs -> [Slots -> Conns \cup {None}]]
        /\ sender' \in [Runs -> [Slots -> Conns \cup {None}]]
        /\ \E x \in {"stored0", "readSender"} : phase' = [phase EXCEPT ![r] = x]
        /\ id' = id \/ id' = [id EXCEPT ![c] = c]
    BY <1>4, StartMade
  <2>2. phase' \in [Runs -> Phases]
    BY <2>1, <1>0
  <2>2a. id' \in [Conns -> Conns \cup {None}]
    BY <2>1, <1>0
  <2>3. /\ code' \in [Runs -> Codes \cup {None}] /\ at' \in [Conns -> Places]
        /\ run' \in [Conns -> Runs \cup {None}]
    BY <2>1 DEF TypeOK
  <2> QED
    BY <2>1, <2>2, <2>2a, <2>3 DEF TypeOK
<1>5. ASSUME NEW c \in Conns, ReadSender(c) \/ ReadConnID(c) \/ ReadSession(c)
      PROVE  TypeOK'
  <2>1. PICK r \in Runs, g \in Conns :
        /\ UNCHANGED <<runs, byConn, code, signals, at, run, asked, early>>
        /\ ids' \in [Runs -> SUBSET Conns]
        /\ players' \in [Runs -> [Slots -> Conns \cup {None}]]
        /\ session' \in [Runs -> [Slots -> Conns \cup {None}]]
        /\ sender' \in [Runs -> [Slots -> Conns \cup {None}]]
        /\ \E x \in Reading \cup {"stored0"} : phase' = [phase EXCEPT ![r] = x]
        /\ id' = id \/ id' = [id EXCEPT ![c] = g]
    BY <1>5, ReadMade
  <2>2. phase' \in [Runs -> Phases]
    BY <2>1, <1>0
  <2>2a. id' \in [Conns -> Conns \cup {None}]
    BY <2>1, <1>0
  <2> QED
    BY <2>1, <2>2, <2>2a DEF TypeOK
<1>6. ASSUME NEW c \in Conns, StoreRun(c) \/ StoreHost(c) \/ StoreGuest(c)
      PROVE  TypeOK'
  <2>1. run[c] \in Runs
    BY <1>6 DEF StoreRun, StoreHost, StoreGuest, LocalsOK, LocalOK, StarterOK
  <2>2. CASE StoreRun(c)
    BY <2>1, <2>2 DEF StoreRun, TypeOK
  <2>3. CASE StoreHost(c)
    BY <2>1, <2>3 DEF StoreHost, TypeOK
  <2>4. CASE StoreGuest(c)
    BY <2>1, <2>4 DEF StoreGuest, TypeOK
  <2> QED
    BY <1>6, <2>2, <2>3, <2>4
<1>7. ASSUME NEW r \in Runs, EndCountdown(r) \/ TakeSignal(r) \/ EndMatch(r) \/ DeleteRun(r)
      PROVE  TypeOK'
  <2>1. CASE EndCountdown(r) \/ EndMatch(r) \/ DeleteRun(r)
    BY <2>1 DEF EndCountdown, EndMatch, DeleteRun, TypeOK
  <2>2. CASE TakeSignal(r)
    <3>1. signals[r] \in 0 .. ReconnectCap /\ signals[r] > 0
      BY <2>2 DEF TakeSignal, Pending, TypeOK
    <3>2. signals[r] - 1 \in 0 .. ReconnectCap
      BY <3>1
    <3> QED
      BY <2>2, <3>2 DEF TakeSignal, TypeOK
  <2> QED
    BY <1>7, <2>1, <2>2
<1>8. ASSUME NEW r \in Runs, NEW s \in Slots, Unindex(r, s)
      PROVE  TypeOK'
  BY <1>8 DEF Unindex, TypeOK
<1>9. ASSUME NEW c \in Conns, DisconnectLoad(c)
      PROVE  TypeOK'
  <2> DEFINE new == {<<c, r>> : r \in {q \in Runs :
                         phase[q] \in Reading \cup Storing /\ Played(c, q)}}
  <2>1. new \subseteq Conns \X Runs
    OBVIOUS
  <2>2. /\ UNCHANGED <<indexes, matches, id, asked>>
        /\ at' = [at EXCEPT ![c] = IF byConn[c] = None THEN "gone" ELSE "detaching"]
        /\ run' = [run EXCEPT ![c] = byConn[c]] /\ early' = early \cup new
    BY <1>9 DEF DisconnectLoad
  <2> HIDE DEF new
  <2> QED
    BY <2>1, <2>2 DEF TypeOK
<1>10. ASSUME NEW c \in Conns, DisconnectDetach(c)
       PROVE  TypeOK'
  <2>1. /\ at' = [at EXCEPT ![c] = "gone"] /\ run' = [run EXCEPT ![c] = None]
        /\ UNCHANGED <<runs, byConn, code, players, session, ids, signals, phase, id, asked, early>>
        /\ sender' \in [Runs -> [Slots -> Conns \cup {None}]]
    BY <1>10, DetachMade
  <2> QED
    BY <2>1 DEF TypeOK
<1>11. ASSUME NEW c \in Conns, NEW s \in Slots, ReconnectAttach(c, s)
       PROVE  TypeOK'
  <2>1. PICK x \in Conns :
        /\ UNCHANGED <<runs, byConn, code, signals, phase, session, run, asked, early>>
        /\ ids' \in [Runs -> SUBSET Conns]
        /\ players' \in [Runs -> [Slots -> Conns \cup {None}]]
        /\ sender' \in [Runs -> [Slots -> Conns \cup {None}]]
        /\ \E y \in {"attached", "deleting"} : at' = [at EXCEPT ![c] = y]
        /\ id' = id \/ id' = [id EXCEPT ![c] = x]
    BY <1>11, AttachMade
  <2>2. at' \in [Conns -> Places]
    BY <2>1, <1>0
  <2>2a. id' \in [Conns -> Conns \cup {None}]
    BY <2>1, <1>0
  <2> QED
    BY <2>1, <2>2, <2>2a DEF TypeOK
<1>12. ASSUME NEW c \in Conns, ReconnectRefused(c) \/ ReconnectDelete(c) \/ ReconnectStore(c)
       PROVE  TypeOK'
  <2>1. run[c] \in Runs
    BY <1>12 DEF ReconnectRefused, ReconnectDelete, ReconnectStore, LocalsOK, LocalOK,
                 ReturnerOK, Reconnecting
  <2>2. CASE ReconnectRefused(c)
    BY <2>2 DEF ReconnectRefused, TypeOK
  <2>3. CASE ReconnectDelete(c)
    BY <2>3 DEF ReconnectDelete, TypeOK
  <2>4. CASE ReconnectStore(c)
    BY <2>1, <2>4 DEF ReconnectStore, TypeOK
  <2> QED
    BY <1>12, <2>2, <2>3, <2>4
<1>13. ASSUME NEW c \in Conns, ReconnectSignal(c)
       PROVE  TypeOK'
  <2>1. run[c] \in Runs
    BY <1>13 DEF ReconnectSignal, LocalsOK, LocalOK, ReturnerOK, Reconnecting
  <2>2. signals[run[c]] \in 0 .. ReconnectCap /\ signals[run[c]] < ReconnectCap
    BY <2>1, <1>13 DEF ReconnectSignal, Room, TypeOK
  <2>3. signals[run[c]] + 1 \in 0 .. ReconnectCap
    BY <2>2
  <2> QED
    BY <2>1, <2>3, <1>13 DEF ReconnectSignal, TypeOK
<1>14. CASE UNCHANGED vars
  BY <1>14 DEF vars, TypeOK
<1> QED
  BY Steps, <1>1, <1>2, <1>3, <1>4, <1>5, <1>6, <1>7, <1>8, <1>9, <1>10, <1>11, <1>12, <1>13, <1>14

\* Taking a seat, giving it up, and steps that touch no seat.
LEMMA SeatTaken ==
  ASSUME Typed, NEW c \in Conns, NEW k \in Codes, at[c] = "idle", ~InRoom(c), at' = at,
         \/ OpenRoom(c, k)
         \/ EnterRoom(c, k)
  PROVE  SeatsOK'
<1> USE Names DEF Typed, SeatsOK
<1>1. /\ host' \in [Codes -> Conns \cup {None}] /\ guest' \in [Codes -> Conns \cup {None}]
      /\ started' \in [Codes -> BOOLEAN]
  BY DEF OpenRoom, EnterRoom
<1>2. /\ \A l \in Codes : ~Sits(c, l)
      /\ Sits(c, k)'
      /\ \A d \in Conns, l \in Codes : Sits(d, l)' => Sits(d, l) \/ (d = c /\ l = k)
  BY DEF OpenRoom, EnterRoom, InRoom, Sits
<1>3. \A d \in Conns, l, m \in Codes : Sits(d, l)' /\ Sits(d, m)' => l = m
  BY <1>2
<1>4. \A l \in Codes : host'[l] \in Conns => host'[l] # guest'[l]
  BY <1>2 DEF OpenRoom, EnterRoom, Sits
<1>5. \A d \in Conns : at'[d] \in Left => ~InRoom(d)'
  <2>1. \A d \in Conns : InRoom(d)' => InRoom(d) \/ d = c
    BY <1>2 DEF InRoom, Sits
  <2> QED
    BY <2>1 DEF Left
<1> QED
  BY <1>1, <1>3, <1>4, <1>5

LEMMA SeatGivenUp ==
  ASSUME Typed, NEW c \in Conns, QuitRoom(c),
         at' = at \/ at' = [at EXCEPT ![c] = "leftLobby"]
  PROVE  SeatsOK'
<1> USE Names DEF Typed, SeatsOK
<1>1. PICK k \in Codes : \/ c = host[k] /\ CloseRoom(k)
                         \/ c = guest[k] /\ VacateSeat(k)
  BY DEF QuitRoom
<1>2. /\ host' \in [Codes -> Conns \cup {None}] /\ guest' \in [Codes -> Conns \cup {None}]
      /\ started' \in [Codes -> BOOLEAN]
  BY <1>1 DEF CloseRoom, VacateSeat
<1>3. \A d \in Conns, l \in Codes : Sits(d, l)' => Sits(d, l)
  BY <1>1 DEF CloseRoom, VacateSeat, Sits
<1>4. \A d \in Conns, l, m \in Codes : Sits(d, l)' /\ Sits(d, m)' => l = m
  BY <1>3
<1>5. \A l \in Codes : host'[l] \in Conns => host'[l] # guest'[l]
  BY <1>1 DEF CloseRoom, VacateSeat
<1>6. ~InRoom(c)'
  <2>1. \A l \in Codes : Sits(c, l) => l = k
    BY <1>1 DEF Sits
  <2>2. ~Sits(c, k)'
    BY <1>1 DEF CloseRoom, VacateSeat, Sits
  <2> QED
    BY <2>1, <2>2, <1>3 DEF InRoom, Sits
<1>7. \A d \in Conns : at'[d] \in Left => ~InRoom(d)'
  <2>1. \A d \in Conns : InRoom(d)' => InRoom(d)
    BY <1>3 DEF InRoom, Sits
  <2>2. \A d \in Conns \ {c} : at'[d] = at[d]
    BY DEF TypeOK
  <2> QED
    BY <2>1, <2>2, <1>6
<1> QED
  BY <1>2, <1>4, <1>5, <1>7

LEMMA SeatsSame ==
  ASSUME Typed, UNCHANGED <<host, guest>>, started' \in [Codes -> BOOLEAN],
         \A d \in Conns : at'[d] \in Left => at[d] \in Left \/ ~InRoom(d)
  PROVE  SeatsOK'
  BY DEF Typed, SeatsOK, Sits, InRoom

LEMMA SeatsStep == ASSUME Typed, LocalsOK, [Next]_vars PROVE SeatsOK'
<1> USE DEF rooms, indexes, matches, handlers
<1>1. ASSUME NEW c \in Conns, NEW k \in Codes, CreateRoom(c, k) \/ JoinRoom(c, k)
      PROVE  SeatsOK'
  <2>1. /\ at[c] = "idle" /\ at' = at /\ ~InRoom(c)
        /\ OpenRoom(c, k) \/ EnterRoom(c, k)
    BY <1>1 DEF CreateRoom, JoinRoom, OpenRoom, EnterRoom
  <2> QED
    BY <2>1, SeatTaken
<1>2. ASSUME NEW c \in Conns, LeaveRoom(c) PROVE SeatsOK'
  BY <1>2, SeatGivenUp DEF LeaveRoom
<1>3. ASSUME NEW c \in Conns, LobbyOnDisconnect(c) PROVE SeatsOK'
  <2>1. at' = [at EXCEPT ![c] = "leftLobby"]
    BY <1>3 DEF LobbyOnDisconnect
  <2>2. CASE InRoom(c)
    BY <2>1, <2>2, <1>3, SeatGivenUp DEF LobbyOnDisconnect
  <2>3. CASE ~InRoom(c)
    <3>1. UNCHANGED <<host, guest, started>>
      BY <2>3, <1>3 DEF LobbyOnDisconnect
    <3>2. \A d \in Conns : at'[d] \in Left => at[d] \in Left \/ d = c
      BY <2>1 DEF Typed, TypeOK
    <3> QED
      BY <2>3, <3>1, <3>2, SeatsSame DEF Typed, SeatsOK
  <2> QED
    BY <2>2, <2>3
<1>4. ASSUME UNCHANGED <<host, guest, started>>,
             \/ UNCHANGED at
             \/ \E c \in Conns, x \in Places \ Left : at' = [at EXCEPT ![c] = x]
             \/ \E c \in Conns, x \in Left : at[c] \in Left /\ at' = [at EXCEPT ![c] = x]
      PROVE  SeatsOK'
  <2>1. \A d \in Conns : at'[d] \in Left => at[d] \in Left
    BY <1>4 DEF Typed, TypeOK
  <2> QED
    BY <2>1, <1>4, SeatsSame DEF Typed, SeatsOK
<1>5. ASSUME NEW c \in Conns, NEW k \in Codes, NEW r \in Runs,
             StartByGuest(c, k, r) \/ StartByHost(c, k, r)
      PROVE  SeatsOK'
  <2>1. /\ UNCHANGED <<host, guest>> /\ at' = [at EXCEPT ![c] = "starting"]
        /\ started' \in [Codes -> BOOLEAN]
    BY <1>5 DEF StartByGuest, StartByHost, StartRoom, Typed, SeatsOK
  <2>2. \A d \in Conns : at'[d] \in Left => at[d] \in Left
    BY <2>1 DEF Typed, TypeOK, Left
  <2> QED
    BY <2>1, <2>2, SeatsSame
<1>6. ASSUME NEW c \in Conns, NEW k \in Codes, ReconnectLoad(c, k) PROVE SeatsOK'
  BY <1>6, <1>4 DEF ReconnectLoad, Places, Left
<1>7. ASSUME NEW c \in Conns, \/ StoreRun(c) \/ StoreHost(c) \/ StoreGuest(c)
                              \/ ReadSender(c) \/ ReadConnID(c) \/ ReadSession(c)
                              \/ ReconnectRefused(c) \/ ReconnectDelete(c)
                              \/ ReconnectStore(c) \/ ReconnectSignal(c)
                              \/ \E s \in Slots : ReconnectAttach(c, s)
      PROVE  SeatsOK'
  <2>1. UNCHANGED <<host, guest, started>>
    BY <1>7 DEF StoreRun, StoreHost, StoreGuest, ReadSender, ReadConnID, ReadSession,
                ReconnectRefused, ReconnectAttach, ReconnectDelete, ReconnectStore, ReconnectSignal
  <2>2. \/ UNCHANGED at
        \/ \E x \in {"idle", "deleting", "attached", "signalling"} : at' = [at EXCEPT ![c] = x]
    <3>1. CASE \E s \in Slots : ReconnectAttach(c, s)
      BY <3>1 DEF ReconnectAttach
    <3>2. CASE ~\E s \in Slots : ReconnectAttach(c, s)
      BY <1>7, <3>2 DEF StoreRun, StoreHost, StoreGuest, ReadSender, ReadConnID, ReadSession,
                        ReconnectRefused, ReconnectDelete, ReconnectStore, ReconnectSignal
    <3> QED
      BY <3>1, <3>2
  <2> QED
    BY <2>1, <2>2, <1>4 DEF Places, Left
<1>8. ASSUME NEW c \in Conns, DisconnectLoad(c) \/ DisconnectDetach(c) PROVE SeatsOK'
  <2>1. /\ UNCHANGED <<host, guest, started>> /\ at[c] \in Left
        /\ \E x \in Left : at' = [at EXCEPT ![c] = x]
    BY <1>8 DEF DisconnectLoad, DisconnectDetach, Left
  <2> QED
    BY <2>1, <1>4
<1>9. ASSUME NEW r \in Runs, \/ EndCountdown(r) \/ TakeSignal(r) \/ EndMatch(r)
                             \/ DeleteRun(r) \/ \E s \in Slots : Unindex(r, s)
      PROVE  SeatsOK'
  BY <1>9, <1>4 DEF EndCountdown, TakeSignal, EndMatch, DeleteRun, Unindex
<1>10. CASE UNCHANGED vars
  BY <1>10, <1>4 DEF vars
<1> QED
  BY Steps, <1>1, <1>2, <1>3, <1>5, <1>6, <1>7, <1>8, <1>9, <1>10

\* Which steps change a run's slots; the others move it on, or leave it alone.
LEMMA Changes ==
  ASSUME Typed, LocalsOK, [Next]_vars
  PROVE  \/ \E c \in Conns, k \in Codes, r \in Runs : StartByGuest(c, k, r) \/ StartByHost(c, k, r)
         \/ \E c \in Conns : ReadSender(c) \/ ReadConnID(c) \/ ReadSession(c) \/ DisconnectDetach(c)
         \/ \E c \in Conns, s \in Slots : ReconnectAttach(c, s)
         \/ /\ UNCHANGED <<code, players, session, sender, ids>>
            /\ \A r \in Runs : \/ phase'[r] = phase[r]
                               \/ /\ phase[r] \notin {"free"} \cup Reading
                                  /\ phase'[r] \notin {"free"} \cup Reading
<1> USE DEF indexes, matches, slots, handlers, Reading
<1> phase \in [Runs -> Phases]
  BY DEF Typed, TypeOK
<1>1. ASSUME NEW c \in Conns, NEW k \in Codes, CreateRoom(c, k) \/ JoinRoom(c, k) \/ ReconnectLoad(c, k)
      PROVE  UNCHANGED <<code, players, session, sender, ids, phase>>
  BY <1>1 DEF CreateRoom, JoinRoom, ReconnectLoad
<1>2. ASSUME NEW c \in Conns, \/ LeaveRoom(c) \/ LobbyOnDisconnect(c)
                              \/ DisconnectLoad(c) \/ ReconnectRefused(c) \/ ReconnectDelete(c)
                              \/ ReconnectStore(c) \/ ReconnectSignal(c)
      PROVE  UNCHANGED <<code, players, session, sender, ids, phase>>
  BY <1>2 DEF LeaveRoom, LobbyOnDisconnect, DisconnectLoad, ReconnectRefused, ReconnectDelete,
              ReconnectStore, ReconnectSignal
<1>3. ASSUME NEW x, NEW y, NEW z, phase[x] = y, y \notin {"free"} \cup Reading,
             phase' = [phase EXCEPT ![x] = z], z \notin {"free"} \cup Reading, NEW r \in Runs
      PROVE  \/ phase'[r] = phase[r]
             \/ /\ phase[r] \notin {"free"} \cup Reading
                /\ phase'[r] \notin {"free"} \cup Reading
  BY <1>3
<1>4. ASSUME NEW c \in Conns, StoreRun(c) \/ StoreHost(c) \/ StoreGuest(c)
      PROVE  /\ UNCHANGED <<code, players, session, sender, ids>>
             /\ \A r \in Runs : \/ phase'[r] = phase[r]
                                \/ /\ phase[r] \notin {"free"} \cup Reading
                                   /\ phase'[r] \notin {"free"} \cup Reading
  BY <1>3, <1>4 DEF StoreRun, StoreHost, StoreGuest
<1>5. ASSUME NEW q \in Runs, \/ EndCountdown(q) \/ TakeSignal(q) \/ EndMatch(q) \/ DeleteRun(q)
                             \/ \E s \in Slots : Unindex(q, s)
      PROVE  /\ UNCHANGED <<code, players, session, sender, ids>>
             /\ \A r \in Runs : \/ phase'[r] = phase[r]
                                \/ /\ phase[r] \notin {"free"} \cup Reading
                                   /\ phase'[r] \notin {"free"} \cup Reading
  BY <1>3, <1>5 DEF EndCountdown, TakeSignal, EndMatch, DeleteRun, Unindex
<1>6. CASE UNCHANGED vars
  BY <1>6 DEF vars
<1> QED
  BY Steps, <1>1, <1>2, <1>4, <1>5, <1>6

\* What a run keeps, once it is made: its code, its host, the ConnIDs it has
\* had, and, once read, its guest's session.
Grows ==
    /\ asked \subseteq asked' /\ early \subseteq early'
    /\ \A r \in Runs :
        /\ ids[r] \subseteq ids'[r]
        /\ Made(r) => Made(r)' /\ code'[r] = code[r] /\ players'[r][0] = players[r][0]
        /\ Made(r) /\ phase[r] \notin Reading =>
               phase'[r] \notin Reading /\ session'[r][1] = session[r][1]

LEMMA GrowsStep == ASSUME Typed, LocalsOK, [Next]_vars PROVE Grows
<1> USE SlotsTwo
<1>1. asked \subseteq asked' /\ early \subseteq early'
  <2> USE DEF handlers
  <2>1. ASSUME NEW c \in Conns, NEW k \in Codes, NEW q \in Runs,
               StartByGuest(c, k, q) \/ StartByHost(c, k, q)
        PROVE  asked \subseteq asked' /\ early \subseteq early'
    BY <2>1 DEF StartByGuest, StartByHost
  <2>2. ASSUME NEW c \in Conns, \/ LeaveRoom(c) \/ LobbyOnDisconnect(c) \/ ReadSender(c)
                                \/ ReadConnID(c) \/ ReadSession(c) \/ StoreRun(c)
                                \/ StoreHost(c) \/ StoreGuest(c)
                                \/ DisconnectLoad(c) \/ DisconnectDetach(c)
        PROVE  asked \subseteq asked' /\ early \subseteq early'
    BY <2>2 DEF LeaveRoom, LobbyOnDisconnect, ReadSender, ReadConnID, ReadSession, StoreRun,
                StoreHost, StoreGuest, DisconnectLoad, DisconnectDetach
  <2>3. ASSUME NEW c \in Conns, \/ ReconnectRefused(c) \/ ReconnectDelete(c) \/ ReconnectStore(c)
                                \/ ReconnectSignal(c) \/ \E s \in Slots : ReconnectAttach(c, s)
        PROVE  asked \subseteq asked' /\ early \subseteq early'
    BY <2>3 DEF ReconnectRefused, ReconnectDelete, ReconnectStore, ReconnectSignal, ReconnectAttach
  <2>4. ASSUME NEW q \in Runs, \/ EndCountdown(q) \/ TakeSignal(q) \/ EndMatch(q) \/ DeleteRun(q)
                               \/ \E s \in Slots : Unindex(q, s)
        PROVE  asked \subseteq asked' /\ early \subseteq early'
    BY <2>4 DEF EndCountdown, TakeSignal, EndMatch, DeleteRun, Unindex
  <2>5. CASE UNCHANGED vars
    BY <2>5 DEF vars
  <2>6. ASSUME NEW c \in Conns, NEW k \in Codes,
               CreateRoom(c, k) \/ JoinRoom(c, k) \/ ReconnectLoad(c, k)
        PROVE  asked \subseteq asked' /\ early \subseteq early'
    BY <2>6 DEF CreateRoom, JoinRoom, ReconnectLoad
  <2> QED
    BY Steps, <2>1, <2>2, <2>3, <2>4, <2>5, <2>6
<1>2. phase \in [Runs -> Phases] /\ ids \in [Runs -> SUBSET Conns]
  BY DEF Typed, TypeOK
<1> SUFFICES ASSUME NEW r \in Runs
             PROVE  /\ ids[r] \subseteq ids'[r]
                    /\ Made(r) => Made(r)' /\ code'[r] = code[r] /\ players'[r][0] = players[r][0]
                    /\ Made(r) /\ phase[r] \notin Reading =>
                           phase'[r] \notin Reading /\ session'[r][1] = session[r][1]
  BY <1>1 DEF Grows
<1>3. ASSUME NEW c \in Conns, NEW k \in Codes, NEW q \in Runs,
             StartByGuest(c, k, q) \/ StartByHost(c, k, q)
      PROVE  /\ ids[r] \subseteq ids'[r]
             /\ Made(r) => Made(r)' /\ code'[r] = code[r] /\ players'[r][0] = players[r][0]
             /\ Made(r) /\ phase[r] \notin Reading =>
                    phase'[r] \notin Reading /\ session'[r][1] = session[r][1]
  <2>1. /\ phase[q] = "free"
        /\ \A p \in Runs \ {q} : /\ phase'[p] = phase[p] /\ code'[p] = code[p] /\ ids'[p] = ids[p]
                                 /\ \A s \in Slots : /\ players'[p][s] = players[p][s]
                                                     /\ session'[p][s] = session[p][s]
    BY <1>3, StartMade
  <2>2. CASE r = q
    BY <2>1, <2>2 DEF Typed, FreshOK, Fresh, Made
  <2>3. CASE r # q
    BY <2>1, <2>3 DEF Made
  <2> QED
    BY <2>2, <2>3
<1>4. ASSUME NEW c \in Conns, ReadSender(c) \/ ReadConnID(c) \/ ReadSession(c)
      PROVE  /\ ids[r] \subseteq ids'[r]
             /\ Made(r) => Made(r)' /\ code'[r] = code[r] /\ players'[r][0] = players[r][0]
             /\ Made(r) /\ phase[r] \notin Reading =>
                    phase'[r] \notin Reading /\ session'[r][1] = session[r][1]
  <2> DEFINE g == guest[code[run[c]]]
  <2>1. /\ code' = code /\ ids[r] \subseteq ids'[r]
        /\ \/ /\ phase[run[c]] = "readSender" /\ phase' = [phase EXCEPT ![run[c]] = "readConnID"]
              /\ players' = players /\ session' = session
           \/ /\ phase[run[c]] = "readConnID" /\ phase' = [phase EXCEPT ![run[c]] = "readSession"]
              /\ session' = session
              /\ \A t \in Slots :
                      players'[r][t] = IF r = run[c] /\ t = 1 THEN g ELSE players[r][t]
           \/ /\ phase[run[c]] = "readSession" /\ phase' = [phase EXCEPT ![run[c]] = "stored0"]
              /\ players' = players
              /\ \A t \in Slots :
                     session'[r][t] = IF r = run[c] /\ t = 1 THEN g ELSE session[r][t]
    BY <1>4, ReadMade
  <2> HIDE DEF g
  <2>2. /\ players'[r][0] = players[r][0]
        /\ \/ phase'[r] = phase[r] /\ session'[r][1] = session[r][1]
           \/ phase[r] \in Reading /\ phase'[r] \in Reading \cup {"stored0"}
    BY <2>1, <1>2 DEF Reading
  <2> QED
    BY <2>1, <2>2 DEF Made, Reading
<1>5. ASSUME NEW c \in Conns, NEW s \in Slots, ReconnectAttach(c, s)
      PROVE  /\ ids[r] \subseteq ids'[r]
             /\ Made(r) => Made(r)' /\ code'[r] = code[r] /\ players'[r][0] = players[r][0]
             /\ Made(r) /\ phase[r] \notin Reading =>
                    phase'[r] \notin Reading /\ session'[r][1] = session[r][1]
  <2>1. /\ code' = code /\ phase' = phase /\ session' = session
        /\ \A p \in Runs : ids[p] \subseteq ids'[p]
        /\ s = 0 => c = players[run[c]][0]
        /\ players'[r][0] = IF r = run[c] /\ 0 = s THEN c ELSE players[r][0]
    BY <1>5, AttachMade
  <2> QED
    BY <2>1 DEF Made
<1>6. ASSUME NEW c \in Conns, DisconnectDetach(c)
      PROVE  UNCHANGED <<code, phase, players, session, ids>>
  BY <1>6, DetachMade
<1>7. UNCHANGED <<code, phase, players, session, ids>> =>
         /\ ids[r] \subseteq ids'[r]
         /\ Made(r) => Made(r)' /\ code'[r] = code[r] /\ players'[r][0] = players[r][0]
         /\ Made(r) /\ phase[r] \notin Reading =>
                phase'[r] \notin Reading /\ session'[r][1] = session[r][1]
  BY DEF Made
<1>8. CASE /\ UNCHANGED <<code, players, session, sender, ids>>
           /\ \A q \in Runs : \/ phase'[q] = phase[q]
                              \/ /\ phase[q] \notin {"free"} \cup Reading
                                 /\ phase'[q] \notin {"free"} \cup Reading
  BY <1>8 DEF Made
<1> QED
  BY Changes, <1>3, <1>4, <1>5, <1>6, <1>7, <1>8

\* Whoever has played in a run has, and its code stays.
LEMMA PlayedStays ==
  ASSUME Grows, NEW c, NEW r \in Runs, Played(c, r)
  PROVE  Played(c, r)'
  BY DEF Grows, Played

LEMMA ElsewhereStays ==
  ASSUME Grows, NEW c, NEW r \in Runs, Elsewhere(c, r)
  PROVE  Elsewhere(c, r)'
  BY PlayedStays DEF Elsewhere

LEMMA CodeStays ==
  ASSUME Typed, Grows, NEW q \in Runs, code[q] \in Codes
  PROVE  code'[q] = code[q] /\ Made(q)
<1>1. Made(q)
  BY Names DEF Typed, FreshOK, Fresh
<1> QED
  BY <1>1 DEF Grows

LEMMA UsedStep == ASSUME Typed, LocalsOK, [Next]_vars PROVE UsedOK' /\ FreshOK'
<1> USE SlotsTwo, Names
<1>1. phase \in [Runs -> Phases]
  BY DEF Typed, TypeOK
<1> SUFFICES ASSUME NEW r \in Runs
             PROVE  (Made(r)' => Used(r)') /\ (~Made(r)' => Fresh(r)')
  BY DEF UsedOK, FreshOK
<1>2. (Made(r) => Used(r)) /\ (~Made(r) => Fresh(r))
  BY DEF Typed, UsedOK, FreshOK
<1>3. ASSUME phase'[r] = phase[r], code'[r] = code[r], ids'[r] = ids[r],
             \A s \in Slots : /\ players'[r][s] = players[r][s]
                              /\ session'[r][s] = session[r][s]
                              /\ sender'[r][s] = sender[r][s]
      PROVE  (Made(r)' => Used(r)') /\ (~Made(r)' => Fresh(r)')
  BY <1>2, <1>3 DEF Made, Used, Fresh
<1>4. ASSUME NEW c \in Conns, NEW k \in Codes, NEW q \in Runs,
             StartByGuest(c, k, q) \/ StartByHost(c, k, q)
      PROVE  (Made(r)' => Used(r)') /\ (~Made(r)' => Fresh(r)')
  <2>1. CASE r = q
    <3>1. /\ code'[r] = k /\ host[k] \in Conns /\ guest[k] \in Conns /\ host[k] # guest[k]
          /\ players'[r][0] = host[k] /\ session'[r][0] = host[k] /\ host[k] \in ids'[r]
          /\ \/ /\ phase'[r] = "stored0"
                /\ players'[r][1] = guest[k] /\ session'[r][1] = guest[k] /\ guest[k] \in ids'[r]
             \/ /\ phase'[r] = "readSender"
                /\ players'[r][1] = None /\ session'[r][1] = None
      BY <1>4, <2>1, StartMade
    <3> QED
      BY <3>1 DEF Made, Used, Early, Reading
  <2>2. CASE r # q
    BY <1>4, <2>2, <1>3, StartMade
  <2> QED
    BY <2>1, <2>2
<1>5. ASSUME NEW c \in Conns, ReadSender(c) \/ ReadConnID(c) \/ ReadSession(c)
      PROVE  (Made(r)' => Used(r)') /\ (~Made(r)' => Fresh(r)')
  <2> DEFINE g == guest[code[run[c]]]
  <2>1. /\ run[c] \in Runs /\ g \in Conns /\ g # players[run[c]][0]
        /\ code' = code /\ ids[r] \subseteq ids'[r]
        /\ \/ /\ phase[run[c]] = "readSender" /\ phase' = [phase EXCEPT ![run[c]] = "readConnID"]
              /\ players' = players /\ session' = session
           \/ /\ phase[run[c]] = "readConnID" /\ phase' = [phase EXCEPT ![run[c]] = "readSession"]
              /\ session' = session /\ g \in ids'[run[c]]
              /\ \A q \in Runs, t \in Slots :
                      players'[q][t] = IF q = run[c] /\ t = 1 THEN g ELSE players[q][t]
           \/ /\ phase[run[c]] = "readSession" /\ phase' = [phase EXCEPT ![run[c]] = "stored0"]
              /\ players' = players
              /\ \A q \in Runs, t \in Slots :
                     session'[q][t] = IF q = run[c] /\ t = 1 THEN g ELSE session[q][t]
    BY <1>5, ReadMade
  <2> HIDE DEF g
  <2>2. CASE r = run[c]
    <3>1. Used(r)
      BY <2>1, <2>2, <1>2 DEF Made
    <3>2. /\ players'[r][0] = players[r][0] /\ session'[r][0] = session[r][0]
          /\ phase'[r] \in {"readConnID", "readSession", "stored0"}
      BY <2>1, <2>2, <1>1
    <3>3. CASE phase[r] = "readSender"
      <4>1. phase'[r] = "readConnID" /\ players' = players /\ session' = session
        BY <2>1, <2>2, <3>3, <1>1
      <4> QED
        BY <4>1, <3>1, <3>3, <2>1 DEF Made, Used, Early, Reading
    <3>4. CASE phase[r] = "readConnID"
      <4>1. phase'[r] = "readSession" /\ players'[r][1] = g /\ session' = session /\ g \in ids'[r]
        BY <2>1, <2>2, <3>4, <1>1
      <4> QED
        BY <4>1, <3>1, <3>2, <3>4, <2>1, <2>2 DEF Made, Used, Early, Reading
    <3>5. CASE phase[r] = "readSession"
      <4>1. phase'[r] = "stored0" /\ players' = players /\ session'[r][1] = g
        BY <2>1, <2>2, <3>5, <1>1
      <4> QED
        BY <4>1, <3>1, <3>2, <3>5, <2>1, <2>2 DEF Made, Used, Early, Reading
    <3> QED
      BY <2>1, <2>2, <3>3, <3>4, <3>5
  <2>3. CASE r # run[c]
    <3>1. /\ phase'[r] = phase[r]
          /\ \A s \in Slots : players'[r][s] = players[r][s] /\ session'[r][s] = session[r][s]
      BY <2>1, <2>3, <1>1
    <3>2. ids'[r] = ids[r] /\ sender'[r] = sender[r]
      BY <2>1, <2>3, <1>5 DEF ReadSender, ReadConnID, ReadSession, Typed, TypeOK
    <3> QED
      BY <3>1, <3>2, <2>1, <1>3
  <2> QED
    BY <2>2, <2>3
<1>6. ASSUME NEW c \in Conns, NEW s \in Slots, ReconnectAttach(c, s)
      PROVE  (Made(r)' => Used(r)') /\ (~Made(r)' => Fresh(r)')
  <2>1. /\ run[c] \in Runs /\ Made(run[c]) /\ code' = code /\ phase' = phase /\ session' = session
        /\ (s = 1 => c # players[run[c]][0])
        /\ (s = 0 => c = players[run[c]][0])
        /\ ids[r] \subseteq ids'[r] /\ c \in ids'[run[c]]
        /\ \A t \in Slots : players'[r][t] = IF r = run[c] /\ t = s THEN c ELSE players[r][t]
    BY <1>6, AttachMade
  <2>2. CASE r = run[c]
    <3>1. Used(r) /\ Made(r)'
      BY <2>1, <2>2, <1>2 DEF Made
    <3>2. players'[r][0] = players[r][0]
      BY <2>1, <2>2
    <3>3. players'[r][1] = players[r][1] \/ (s = 1 /\ players'[r][1] = c)
      BY <2>1, <2>2
    <3>4. /\ players'[r][1] # players'[r][0]
          /\ phase[r] \notin Early => players'[r][1] \in Conns
      BY <3>1, <3>2, <3>3, <2>1, <2>2 DEF Used
    <3>5. \A t \in Slots : players'[r][t] \in {None} \cup ids'[r]
      BY <3>1, <2>1, <2>2 DEF Used
    <3> QED
      BY <3>1, <3>2, <3>4, <3>5, <2>1 DEF Used
  <2>3. CASE r # run[c]
    <3>1. ids'[r] = ids[r] /\ sender'[r] = sender[r]
      BY <2>1, <2>3, <1>6 DEF ReconnectAttach, Typed, TypeOK
    <3> QED
      BY <3>1, <2>1, <2>3, <1>3
  <2> QED
    BY <2>2, <2>3
<1>7. ASSUME NEW c \in Conns, DisconnectDetach(c)
      PROVE  (Made(r)' => Used(r)') /\ (~Made(r)' => Fresh(r)')
  <2>1. /\ UNCHANGED <<code, players, session, ids, phase>>
        /\ \A t \in Slots : sender'[r][t] \in {None, sender[r][t]}
    BY <1>7, DetachMade
  <2> QED
    BY <2>1, <1>2 DEF Made, Used, Fresh
<1>8. CASE /\ UNCHANGED <<code, players, session, sender, ids>>
           /\ \A q \in Runs : \/ phase'[q] = phase[q]
                              \/ /\ phase[q] \notin {"free"} \cup Reading
                                 /\ phase'[q] \notin {"free"} \cup Reading
  <2>1. CASE phase'[r] = phase[r]
    BY <1>8, <2>1, <1>3
  <2>2. CASE phase'[r] # phase[r]
    <3>1. Made(r) /\ phase[r] \notin Reading /\ Made(r)' /\ phase'[r] \notin Reading
      BY <1>8, <2>2 DEF Made
    <3>2. Used(r)
      BY <3>1, <1>2
    <3> QED
      BY <1>8, <3>1, <3>2 DEF Used, Early, Reading
  <2> QED
    BY <2>1, <2>2
<1> QED
  BY Changes, <1>4, <1>5, <1>6, <1>7, <1>8

LEMMA TypedStep == ASSUME Typed, LocalsOK, [Next]_vars PROVE Typed'
  BY TypeStep, SeatsStep, UsedStep DEF Typed

-----------------------------------------------------------------------------
(* The local variables of the handlers *)

\* A guest who has been read only gives way to the one of the session, who will
\* store an entry.
LEMMA Settled ==
  ASSUME Typed, LocalsOK, [Next]_vars, NEW r \in Runs, Made(r), phase[r] \notin Early
  PROVE  \/ players'[r][1] = players[r][1]
         \/ \E c \in Conns : /\ players'[r][1] = c /\ session[r][1] = c
                             /\ Attaching(c, r)'
<1> USE SlotsTwo
<1>1. ASSUME NEW c \in Conns, NEW k \in Codes, NEW q \in Runs,
             StartByGuest(c, k, q) \/ StartByHost(c, k, q)
      PROVE  players'[r][1] = players[r][1]
  <2>1. phase[q] = "free" /\ \A p \in Runs \ {q} : players'[p][1] = players[p][1]
    BY <1>1, StartMade
  <2> QED
    BY <2>1 DEF Made
<1>2. ASSUME NEW c \in Conns, ReadSender(c) \/ ReadConnID(c) \/ ReadSession(c)
      PROVE  players'[r][1] = players[r][1]
  <2>1. \/ players' = players
        \/ /\ phase[run[c]] = "readConnID"
           /\ players'[r][1] = IF r = run[c] /\ 1 = 1 THEN guest[code[run[c]]] ELSE players[r][1]
    BY <1>2, ReadMade
  <2> QED
    BY <2>1 DEF Early
<1>3. ASSUME NEW c \in Conns, NEW s \in Slots, ReconnectAttach(c, s)
      PROVE  \/ players'[r][1] = players[r][1]
             \/ /\ players'[r][1] = c /\ session[r][1] = c
                /\ Attaching(c, r)'
  <2>1. /\ session[run[c]][s] = c /\ run' = run
        /\ players'[r][1] = IF r = run[c] /\ 1 = s THEN c ELSE players[r][1]
        /\ \E y \in {"attached", "deleting"} : at' = [at EXCEPT ![c] = y]
    BY <1>3, AttachMade
  <2>2. at'[c] \in {"attached", "deleting"}
    BY <2>1 DEF Typed, TypeOK
  <2> QED
    BY <2>1, <2>2 DEF Attaching
<1>4. ASSUME NEW c \in Conns, DisconnectDetach(c)
      PROVE  players' = players
  BY <1>4, DetachMade
<1> QED
  BY Changes, <1>1, <1>2, <1>3, <1>4

\* The handlers of others than x: their seats and the runs they make are theirs.
LEMMA OthersKept ==
  ASSUME Typed, LocalsOK, [Next]_vars, NEW x,
         \A d \in Conns \ {x} : at'[d] = at[d] /\ run'[d] = run[d] /\ id'[d] = id[d],
         \A k \in Codes : host[k] \in {x, None} \/ host'[k] = host[k],
         \A r \in Runs : phase[r] \in Reading \cup Storing => phase'[r] = phase[r] \/ Starts(x, r),
         x \in Conns \/ \A r \in Runs : phase[r] \in Reading \cup Storing => phase'[r] = phase[r]
  PROVE  \A d \in Conns \ {x} : LocalOK(d)'
<1> SUFFICES ASSUME NEW d \in Conns, d # x PROVE LocalOK(d)'
  OBVIOUS
<1> DEFINE r == run[d]
<1>1. Grows
  BY GrowsStep
<1>2. at'[d] = at[d] /\ run'[d] = run[d] /\ id'[d] = id[d]
  OBVIOUS
<1>3. LocalOK(d)
  BY DEF LocalsOK
<1>4. StarterOK(d)'
  <2>1. CASE at[d] = "starting"
    <3>1. /\ r \in Runs /\ phase[r] \in Reading \cup Storing
          /\ phase[r] \in Reading => d = host[code[r]] /\ d = players[r][0]
          /\ phase[r] \notin Early => id[d] \in ids[r]
      BY <1>3, <2>1 DEF LocalOK, StarterOK
    <3>2. Starts(x, r) /\ x \in Conns => FALSE
      BY <2>1, <3>1 DEF LocalsOK, Starts
    <3>3. phase'[r] = phase[r]
      BY <3>1, <3>2
    <3>4. Made(r)
      BY <3>1 DEF Made, Reading, Storing
    <3>5. code[r] \in Codes /\ code'[r] = code[r] /\ players'[r][0] = players[r][0]
          /\ ids[r] \subseteq ids'[r]
      BY <1>1, <3>1, <3>4 DEF Grows, Typed, UsedOK, Used
    <3>6. phase[r] \in Reading => host'[code[r]] = host[code[r]]
      BY <3>1, <3>5, Names
    <3> QED
      BY <1>2, <3>1, <3>3, <3>5, <3>6 DEF StarterOK
  <2>2. CASE at[d] # "starting"
    BY <1>2, <2>2 DEF StarterOK
  <2> QED
    BY <2>1, <2>2
<1>5. LeaverOK(d)'
  BY <1>1, <1>2, <1>3, PlayedStays DEF LocalOK, LeaverOK, Played, Grows
<1>6. ReturnerOK(d)'
  <2>1. /\ at'[d] \in Reconnecting => run'[d] \in Runs /\ d \in asked'
        /\ at'[d] \in {"deleting", "attached"} => d \in ids'[run'[d]]
    <3>1. at[d] \in {"deleting", "attached"} => at[d] \in Reconnecting
      BY DEF Reconnecting
    <3> QED
      BY <1>1, <1>2, <1>3, <3>1 DEF LocalOK, ReturnerOK, Grows, Played
  <2>2. CASE at[d] = "deleting"
    <3>1. /\ r \in Runs /\ session[r][1] = d /\ players[r][1] = d
          /\ id[d] # d /\ id[d] # players[r][0] /\ id[d] \in ids[r]
      BY <1>3, <2>2 DEF LocalOK, ReturnerOK, Reconnecting
    <3>2. Made(r)
      BY <3>1, Names, SlotsTwo DEF Typed, FreshOK, Fresh
    <3>3. phase[r] \notin Reading
      BY <3>1, <3>2, Names DEF Typed, UsedOK, Used
    <3>4. players'[r][1] = d
      BY <3>1, <3>2, <3>3, Settled DEF Reading, Early
    <3>5. session'[r][1] = d /\ players'[r][0] = players[r][0] /\ ids[r] \subseteq ids'[r]
      BY <1>1, <3>1, <3>2, <3>3 DEF Grows
    <3> QED
      BY <1>2, <2>1, <3>1, <3>4, <3>5 DEF ReturnerOK, Played
  <2>3. CASE at[d] # "deleting"
    BY <1>2, <2>1, <2>3 DEF ReturnerOK, Played
  <2> QED
    BY <2>2, <2>3
<1> QED
  BY <1>4, <1>5, <1>6 DEF LocalOK

\* One goroutine starts a run, when x does not begin to.
LEMMA OneStarter ==
  ASSUME LocalsOK, NEW x,
         \A d \in Conns \ {x} : at'[d] = at[d] /\ run'[d] = run[d],
         x \in Conns /\ at'[x] = "starting" => at[x] = "starting" /\ run'[x] = run[x]
  PROVE  \A c, d \in Conns, r \in Runs : Starts(c, r)' /\ Starts(d, r)' => c = d
<1>1. \A d \in Conns, r \in Runs : Starts(d, r)' => Starts(d, r)
  BY DEF Starts
<1> QED
  BY <1>1 DEF LocalsOK

LEMMA HostsKept ==
  ASSUME Typed, NEW c \in Conns, \/ \E k \in Codes : OpenRoom(c, k) \/ EnterRoom(c, k)
                                 \/ QuitRoom(c)
  PROVE  \A k \in Codes : host[k] \in {c, None} \/ host'[k] = host[k]
<1>1. host \in [Codes -> Conns \cup {None}]
  BY DEF Typed, SeatsOK
<1> QED
  BY <1>1 DEF OpenRoom, EnterRoom, QuitRoom, CloseRoom, VacateSeat

LEMMA LocalsIf ==
  ASSUME Typed, LocalsOK, [Next]_vars, NEW c \in Conns, LocalOK(c)',
         at' = at \/ \E y : at' = [at EXCEPT ![c] = y],
         run' = run \/ \E y : run' = [run EXCEPT ![c] = y],
         id' = id \/ \E y : id' = [id EXCEPT ![c] = y],
         at'[c] = "starting" => at[c] = "starting" /\ run'[c] = run[c],
         \A k \in Codes : host[k] \in {c, None} \/ host'[k] = host[k],
         \A r \in Runs : phase[r] \in Reading \cup Storing => phase'[r] = phase[r] \/ Starts(c, r)
  PROVE  LocalsOK'
<1>1. /\ at \in [Conns -> Places] /\ run \in [Conns -> Runs \cup {None}]
      /\ id \in [Conns -> Conns \cup {None}]
  BY DEF Typed, TypeOK
<1>2. \A d \in Conns \ {c} : at'[d] = at[d]
  BY <1>1
<1>3. \A d \in Conns \ {c} : run'[d] = run[d]
  BY <1>1
<1>4. \A d \in Conns \ {c} : id'[d] = id[d]
  BY <1>1
<1>5. \A d \in Conns \ {c} : LocalOK(d)'
  BY <1>2, <1>3, <1>4, OthersKept
<1>6. \A d, e \in Conns, r \in Runs : Starts(d, r)' /\ Starts(e, r)' => d = e
  BY <1>2, <1>3, OneStarter
<1> QED
  BY <1>5, <1>6 DEF LocalsOK

\* No handler moves: the steps of a match's own goroutine.
LEMMA LocalsSame ==
  ASSUME Typed, LocalsOK, [Next]_vars, UNCHANGED <<at, run, id, host>>,
         \A r \in Runs : phase[r] \in Reading \cup Storing => phase'[r] = phase[r]
  PROVE  LocalsOK'
<1>1. \A d \in Conns \ {None} : LocalOK(d)'
  BY OthersKept
<1>2. \A d, e \in Conns, r \in Runs : Starts(d, r)' /\ Starts(e, r)' => d = e
  BY DEF LocalsOK, Starts
<1> QED
  BY <1>1, <1>2, Names DEF LocalsOK

LEMMA LocalsStep ==
  ASSUME Typed, LocalsOK, RoutesToPlayers, [Next]_vars
  PROVE  LocalsOK'
<1> USE Names, SlotsTwo DEF indexes, matches, slots, handlers, rooms
<1>1. Grows
  BY GrowsStep
<1>2. /\ at \in [Conns -> Places] /\ run \in [Conns -> Runs \cup {None}]
      /\ id \in [Conns -> Conns \cup {None}] /\ phase \in [Runs -> Phases]
  BY DEF Typed, TypeOK
<1>3. ASSUME NEW c \in Conns, at'[c] \in {"idle", "leftLobby", "gone"} PROVE LocalOK(c)'
  BY <1>3 DEF LocalOK, StarterOK, LeaverOK, ReturnerOK, Reconnecting
<1>4. ASSUME NEW c \in Conns, NEW k \in Codes, CreateRoom(c, k) \/ JoinRoom(c, k) PROVE LocalsOK'
  <2>1. /\ UNCHANGED <<at, run, id, phase>> /\ at[c] = "idle"
        /\ \A l \in Codes : host[l] \in {c, None} \/ host'[l] = host[l]
    BY <1>4, HostsKept DEF CreateRoom, JoinRoom
  <2> QED
    BY <2>1, <1>3, LocalsIf
<1>5. ASSUME NEW c \in Conns, LeaveRoom(c) PROVE LocalsOK'
  <2>1. /\ UNCHANGED <<at, run, id, phase>> /\ at[c] = "idle"
        /\ \A l \in Codes : host[l] \in {c, None} \/ host'[l] = host[l]
    BY <1>5, HostsKept DEF LeaveRoom
  <2> QED
    BY <2>1, <1>3, LocalsIf
<1>6. ASSUME NEW c \in Conns, LobbyOnDisconnect(c) PROVE LocalsOK'
  <2>1. UNCHANGED <<run, id, phase>> /\ at' = [at EXCEPT ![c] = "leftLobby"]
    BY <1>6 DEF LobbyOnDisconnect
  <2>2. \A l \in Codes : host[l] \in {c, None} \/ host'[l] = host[l]
    BY <1>6, HostsKept DEF LobbyOnDisconnect
  <2>3. at'[c] = "leftLobby"
    BY <2>1, <1>2
  <2> QED
    BY <2>1, <2>2, <2>3, <1>3, LocalsIf
<1>7. ASSUME NEW c \in Conns, NEW k \in Codes, NEW r \in Runs,
             StartByGuest(c, k, r) \/ StartByHost(c, k, r)
      PROVE  LocalsOK'
  <2>1. /\ phase[r] = "free" /\ code'[r] = k /\ host' = host
        /\ at' = [at EXCEPT ![c] = "starting"] /\ run' = [run EXCEPT ![c] = r]
        /\ players'[r][0] = host[k]
        /\ \/ phase'[r] = "stored0" /\ guest[k] \in ids'[r] /\ id' = [id EXCEPT ![c] = c] /\ c = guest[k]
           \/ phase'[r] = "readSender" /\ id' = id /\ c = host[k]
        /\ \A q \in Runs \ {r} : phase'[q] = phase[q]
    BY <1>7, StartMade
  <2>2. at'[c] = "starting" /\ run'[c] = r
    BY <2>1, <1>2
  <2>3. phase'[r] = "stored0" => id'[c] \in ids'[r]
    BY <2>1, <1>2
  <2>4. StarterOK(c)'
    BY <2>1, <2>2, <2>3 DEF StarterOK, Reading, Storing, Early
  <2>5. LocalOK(c)'
    BY <2>2, <2>4 DEF LocalOK, LeaverOK, ReturnerOK, Reconnecting
  <2>6. \A q \in Runs : phase[q] \in Reading \cup Storing => phase'[q] = phase[q]
    BY <2>1 DEF Reading, Storing
  <2>7. \A d \in Conns \ {c} : at'[d] = at[d] /\ run'[d] = run[d]
    BY <2>1, <1>2
  <2>8. \A d \in Conns \ {c} : id'[d] = id[d]
    BY <2>1, <1>2
  <2>9. \A d \in Conns \ {c} : LocalOK(d)'
    BY <2>1, <2>6, <2>7, <2>8, OthersKept
  <2>10. ASSUME NEW d \in Conns, d # c PROVE ~Starts(d, r)'
    <3>1. Starts(d, r) => phase[r] \in Reading \cup Storing
      BY DEF Starts, LocalsOK, LocalOK, StarterOK
    <3> QED
      BY <3>1, <2>1, <2>7, <2>10 DEF Starts, Reading, Storing
  <2>11. \A d, e \in Conns, q \in Runs : Starts(d, q)' /\ Starts(e, q)' => d = e
    BY <2>2, <2>7, <2>10 DEF LocalsOK, Starts
  <2> QED
    BY <2>5, <2>9, <2>11 DEF LocalsOK
<1>8. ASSUME NEW c \in Conns, NEW x \in Reading \cup Storing, at[c] = "starting",
             UNCHANGED <<at, run, host, code>>, phase' = [phase EXCEPT ![run[c]] = x],
             \/ id' = id /\ (x \notin Early => phase[run[c]] \notin Early)
             \/ \E y : id' = [id EXCEPT ![c] = y] /\ y \in ids'[run[c]],
             x \in Reading => phase[run[c]] \in Reading
      PROVE  LocalsOK'
  <2>1. /\ run[c] \in Runs /\ phase[run[c]] \in Reading \cup Storing
        /\ phase[run[c]] \in Reading => c = host[code[run[c]]] /\ c = players[run[c]][0]
        /\ phase[run[c]] \notin Early => id[c] \in ids[run[c]]
    BY <1>8 DEF LocalsOK, LocalOK, StarterOK
  <2>2. Made(run[c])
    BY <2>1 DEF Made, Reading, Storing
  <2>3. players'[run[c]][0] = players[run[c]][0] /\ ids[run[c]] \subseteq ids'[run[c]]
    BY <1>1, <2>1, <2>2 DEF Grows
  <2>4. phase'[run[c]] = x /\ \A q \in Runs \ {run[c]} : phase'[q] = phase[q]
    BY <2>1, <1>2, <1>8
  <2>5. x \notin Early => id'[c] \in ids'[run[c]]
    BY <2>1, <2>3, <1>2, <1>8
  <2>6. StarterOK(c)'
    BY <2>1, <2>3, <2>4, <2>5, <1>8 DEF StarterOK
  <2>7. LocalOK(c)'
    BY <2>6, <1>8 DEF LocalOK, LeaverOK, ReturnerOK, Reconnecting
  <2>8. \A r \in Runs : phase'[r] = phase[r] \/ Starts(c, r)
    BY <2>4, <1>8 DEF Starts
  <2>9. id' = id \/ \E y : id' = [id EXCEPT ![c] = y]
    BY <1>8
  <2> QED
    BY <2>7, <2>8, <2>9, <1>8, LocalsIf
<1>9. ASSUME NEW c \in Conns, ReadSender(c) \/ ReadConnID(c) \/ ReadSession(c) PROVE LocalsOK'
  <2>1. at[c] = "starting" /\ UNCHANGED <<at, run, host, code>>
    BY <1>9, ReadMade
  <2>2. CASE ReadSender(c)
    <3>1. phase' = [phase EXCEPT ![run[c]] = "readConnID"] /\ id' = id
          /\ phase[run[c]] = "readSender"
      BY <2>2 DEF ReadSender
    <3> QED
      BY <3>1, <2>1, <1>8 DEF Reading, Early
  <2>3. CASE ReadConnID(c)
    <3>1. phase' = [phase EXCEPT ![run[c]] = "readSession"] /\ phase[run[c]] = "readConnID"
          /\ id' = [id EXCEPT ![c] = guest[code[run[c]]]]
      BY <2>3 DEF ReadConnID
    <3>2. run[c] \in Runs /\ ids' = [ids EXCEPT ![run[c]] = @ \cup {guest[code[run[c]]]}]
      BY <2>1, <2>3 DEF ReadConnID, LocalsOK, LocalOK, StarterOK
    <3>3. guest[code[run[c]]] \in ids'[run[c]]
      BY <3>2 DEF Typed, TypeOK
    <3> QED
      BY <3>1, <3>3, <2>1, <1>8 DEF Reading, Early
  <2>4. CASE ReadSession(c)
    <3>1. phase' = [phase EXCEPT ![run[c]] = "stored0"] /\ id' = id
          /\ phase[run[c]] = "readSession"
      BY <2>4 DEF ReadSession
    <3> QED
      BY <3>1, <2>1, <1>8 DEF Reading, Storing, Early
  <2> QED
    BY <1>9, <2>2, <2>3, <2>4
<1>10. ASSUME NEW c \in Conns, StoreRun(c) \/ StoreHost(c) PROVE LocalsOK'
  <2>1. /\ at[c] = "starting" /\ UNCHANGED <<at, run, host, code>> /\ id' = id
        /\ phase[run[c]] \in Storing
        /\ \E x \in Storing : phase' = [phase EXCEPT ![run[c]] = x]
    BY <1>10 DEF StoreRun, StoreHost, Storing
  <2> QED
    BY <2>1, <1>8 DEF Reading, Storing, Early
<1>11. ASSUME NEW c \in Conns, NEW y, y \in {"idle", "gone"}, at' = [at EXCEPT ![c] = y],
              run' = run \/ run' = [run EXCEPT ![c] = None],
              id' = id \/ id' = [id EXCEPT ![c] = None], host' = host,
              \A r \in Runs : phase[r] \in Reading \cup Storing => phase'[r] = phase[r] \/ Starts(c, r)
       PROVE  LocalsOK'
  <2>1. at'[c] \in {"idle", "gone"}
    BY <1>2, <1>11
  <2> QED
    BY <2>1, <1>3, <1>11, LocalsIf
<1>12. ASSUME NEW c \in Conns, StoreGuest(c) PROVE LocalsOK'
  <2>1. /\ at[c] = "starting" /\ at' = [at EXCEPT ![c] = "idle"] /\ run' = [run EXCEPT ![c] = None]
        /\ id' = [id EXCEPT ![c] = None] /\ host' = host
        /\ phase' = [phase EXCEPT ![run[c]] = "countdown"]
    BY <1>12 DEF StoreGuest
  <2>2. \A r \in Runs : phase'[r] = phase[r] \/ Starts(c, r)
    BY <2>1, <1>2 DEF Starts
  <2> QED
    BY <2>1, <2>2, <1>11
<1>13. ASSUME NEW c \in Conns, \/ ReconnectRefused(c) \/ ReconnectSignal(c) \/ DisconnectDetach(c)
       PROVE  LocalsOK'
  <2>1. /\ \E y \in {"idle", "gone"} : at' = [at EXCEPT ![c] = y]
        /\ run' = [run EXCEPT ![c] = None] /\ UNCHANGED <<id, host, phase>>
    BY <1>13 DEF ReconnectRefused, ReconnectSignal, DisconnectDetach
  <2> QED
    BY <2>1, <1>11
<1>14. ASSUME NEW c \in Conns, DisconnectLoad(c) PROVE LocalsOK'
  <2>1. /\ at' = [at EXCEPT ![c] = IF byConn[c] = None THEN "gone" ELSE "detaching"]
        /\ run' = [run EXCEPT ![c] = byConn[c]] /\ UNCHANGED <<id, host, phase, ids>>
    BY <1>14 DEF DisconnectLoad
  <2>2. LocalOK(c)'
    <3>1. CASE byConn[c] = None
      <4>1. at'[c] = "gone"
        BY <2>1, <3>1, <1>2
      <4> QED
        BY <4>1, <1>3
    <3>2. CASE byConn[c] # None
      <4>1. at'[c] = "detaching" /\ run'[c] = byConn[c] /\ byConn[c] \in Runs
        BY <2>1, <3>2, <1>2 DEF Typed, TypeOK
      <4>2. Played(c, byConn[c])
        BY <3>2 DEF RoutesToPlayers
      <4> QED
        BY <4>1, <4>2, <2>1 DEF LocalOK, StarterOK, LeaverOK, ReturnerOK, Reconnecting, Played
    <3> QED
      BY <3>1, <3>2
  <2>3. at'[c] # "starting"
    BY <2>1, <1>2
  <2> QED
    BY <2>1, <2>2, <2>3, LocalsIf
<1>15. ASSUME NEW c \in Conns, NEW k \in Codes, ReconnectLoad(c, k) PROVE LocalsOK'
  <2>1. /\ at' = [at EXCEPT ![c] = "reconnecting"] /\ asked' = asked \cup {c}
        /\ run' = [run EXCEPT ![c] = runs[k]] /\ runs[k] # None /\ UNCHANGED <<id, host, phase>>
    BY <1>15 DEF ReconnectLoad
  <2>2. at'[c] = "reconnecting" /\ run'[c] \in Runs /\ c \in asked'
    BY <2>1, <1>2 DEF Typed, TypeOK
  <2>3. LocalOK(c)'
    BY <2>2 DEF LocalOK, StarterOK, LeaverOK, ReturnerOK
  <2> QED
    BY <2>1, <2>2, <2>3, LocalsIf
<1>16. ASSUME NEW c \in Conns, NEW s \in Slots, ReconnectAttach(c, s) PROVE LocalsOK'
  <2>1. /\ run[c] \in Runs /\ c \in asked /\ session[run[c]][s] = c
        /\ (s = 1 => c # players[run[c]][0])
        /\ UNCHANGED <<host, phase, session, run, asked>>
        /\ ids[run[c]] \subseteq ids'[run[c]] /\ c \in ids'[run[c]]
        /\ players'[run[c]][0] = IF run[c] = run[c] /\ 0 = s THEN c ELSE players[run[c]][0]
        /\ players'[run[c]][1] = IF run[c] = run[c] /\ 1 = s THEN c ELSE players[run[c]][1]
        /\ \/ /\ at' = [at EXCEPT ![c] = "attached"] /\ id' = id /\ players[run[c]][s] = c
           \/ /\ at' = [at EXCEPT ![c] = "deleting"] /\ players[run[c]][s] # c /\ s = 1
              /\ id' = [id EXCEPT ![c] = players[run[c]][s]]
              /\ players[run[c]][s] \in ids[run[c]]
    BY <1>16, AttachMade
  <2>2. at'[c] \in {"attached", "deleting"}
    BY <2>1, <1>2
  <2>3. at'[c] = "deleting" =>
            /\ session'[run'[c]][1] = c /\ players'[run'[c]][1] = c
            /\ id'[c] # c /\ id'[c] # players'[run'[c]][0] /\ id'[c] \in ids'[run'[c]]
    <3>1. SUFFICES ASSUME at'[c] = "deleting"
                   PROVE  /\ session'[run'[c]][1] = c /\ players'[run'[c]][1] = c
                          /\ id'[c] # c /\ id'[c] # players'[run'[c]][0] /\ id'[c] \in ids'[run'[c]]
      OBVIOUS
    <3>2. s = 1 /\ players[run[c]][1] # c /\ id'[c] = players[run[c]][1]
          /\ players[run[c]][1] \in ids[run[c]]
      BY <2>1, <1>2, <3>1
    <3>3. Made(run[c])
      BY <1>16, AttachMade
    <3>4. players[run[c]][1] # players[run[c]][0]
      BY <2>1, <3>3 DEF Typed, UsedOK, Used
    <3> QED
      BY <2>1, <3>2, <3>4
  <2>4. ReturnerOK(c)'
    BY <2>1, <2>2, <2>3 DEF ReturnerOK, Played
  <2>5. LocalOK(c)'
    BY <2>2, <2>4 DEF LocalOK, StarterOK, LeaverOK
  <2>6. id' = id \/ \E y : id' = [id EXCEPT ![c] = y]
    BY <2>1
  <2>7. at' = at \/ \E y : at' = [at EXCEPT ![c] = y]
    BY <2>1
  <2> QED
    BY <2>1, <2>2, <2>5, <2>6, <2>7, LocalsIf
<1>17. ASSUME NEW c \in Conns, ReconnectDelete(c) \/ ReconnectStore(c) PROVE LocalsOK'
  <2>1. /\ at[c] \in {"deleting", "attached"}
        /\ \E y \in {"attached", "signalling"} : at' = [at EXCEPT ![c] = y]
        /\ id' = id \/ id' = [id EXCEPT ![c] = None]
        /\ UNCHANGED <<run, ids, asked, host, phase>>
    BY <1>17 DEF ReconnectDelete, ReconnectStore
  <2>2. at'[c] \in {"attached", "signalling"}
    BY <2>1, <1>2
  <2>3. run[c] \in Runs /\ c \in asked /\ Played(c, run[c])
    BY <2>1 DEF LocalsOK, LocalOK, ReturnerOK, Reconnecting
  <2>4. LocalOK(c)'
    BY <2>1, <2>2, <2>3 DEF LocalOK, StarterOK, LeaverOK, ReturnerOK, Played
  <2> QED
    BY <2>1, <2>2, <2>4, LocalsIf
<1>18. ASSUME NEW r \in Runs, \/ EndCountdown(r) \/ TakeSignal(r) \/ EndMatch(r)
                              \/ DeleteRun(r) \/ \E s \in Slots : Unindex(r, s)
       PROVE  LocalsOK'
  <2>1. /\ UNCHANGED <<at, run, id, host>> /\ phase[r] \notin Reading \cup Storing
        /\ phase' = phase \/ \E x : phase' = [phase EXCEPT ![r] = x]
    BY <1>18 DEF EndCountdown, TakeSignal, EndMatch, DeleteRun, Unindex, Reading, Storing
  <2> QED
    BY <2>1, <1>2, LocalsSame
<1>19. CASE UNCHANGED vars
  BY <1>19, LocalsSame DEF vars
<1> QED
  BY Steps, <1>4, <1>5, <1>6, <1>7, <1>9, <1>10, <1>12, <1>13, <1>14, <1>15, <1>16, <1>17, <1>18, <1>19

-----------------------------------------------------------------------------
(* The two indexes *)

\* Which steps change the indexes, and how a run moves in the others.
Moves(r) ==
    \/ phase'[r] = phase[r]
    \/ phase[r] = "free" /\ phase'[r] \in {"stored0", "readSender"}
    \/ phase[r] \in Reading /\ phase'[r] \in Reading \cup {"stored0"}
    \/ phase[r] = "countdown" /\ phase'[r] = "playing"
    \/ phase[r] = "playing" /\ phase'[r] = "ended"

LEMMA IndexSteps ==
  ASSUME Typed, LocalsOK, [Next]_vars
  PROVE  \/ \E c \in Conns : \/ StoreRun(c) \/ StoreHost(c) \/ StoreGuest(c)
                             \/ ReconnectDelete(c) \/ ReconnectStore(c)
         \/ \E r \in Runs : DeleteRun(r) \/ \E s \in Slots : Unindex(r, s)
         \/ UNCHANGED indexes /\ \A r \in Runs : Moves(r)
<1> USE DEF indexes, matches, slots, handlers
<1>1. phase \in [Runs -> Phases]
  BY DEF Typed, TypeOK
<1>2. ASSUME NEW c \in Conns, NEW k \in Codes, NEW r \in Runs,
             StartByGuest(c, k, r) \/ StartByHost(c, k, r)
      PROVE  UNCHANGED indexes /\ \A q \in Runs : Moves(q)
  BY <1>2, StartMade DEF Moves
<1>3. ASSUME NEW c \in Conns, ReadSender(c) \/ ReadConnID(c) \/ ReadSession(c)
      PROVE  UNCHANGED indexes /\ \A q \in Runs : Moves(q)
  <2>1. /\ UNCHANGED indexes /\ phase[run[c]] \in Reading
        /\ \E x \in Reading \cup {"stored0"} : phase' = [phase EXCEPT ![run[c]] = x]
    BY <1>3, ReadMade DEF Reading
  <2> QED
    BY <1>1, <2>1 DEF Moves
<1>4. ASSUME NEW r \in Runs, EndCountdown(r) \/ TakeSignal(r) \/ EndMatch(r)
      PROVE  UNCHANGED indexes /\ \A q \in Runs : Moves(q)
  BY <1>1, <1>4 DEF EndCountdown, TakeSignal, EndMatch, Moves
<1>5. ASSUME NEW c \in Conns, NEW k \in Codes, CreateRoom(c, k) \/ JoinRoom(c, k) \/ ReconnectLoad(c, k)
      PROVE  UNCHANGED indexes /\ UNCHANGED phase
  BY <1>5 DEF CreateRoom, JoinRoom, ReconnectLoad
<1>6. ASSUME NEW c \in Conns, \/ LeaveRoom(c) \/ LobbyOnDisconnect(c)
                              \/ DisconnectLoad(c) \/ DisconnectDetach(c) \/ ReconnectRefused(c)
                              \/ ReconnectSignal(c) \/ \E s \in Slots : ReconnectAttach(c, s)
      PROVE  UNCHANGED indexes /\ UNCHANGED phase
  BY <1>6 DEF LeaveRoom, LobbyOnDisconnect, DisconnectLoad, DisconnectDetach, ReconnectRefused,
              ReconnectAttach, ReconnectSignal
<1>7. CASE UNCHANGED vars
  BY <1>7 DEF vars, Moves
<1>8. UNCHANGED phase => \A q \in Runs : Moves(q)
  BY DEF Moves
<1> QED
  BY Steps, <1>2, <1>3, <1>4, <1>5, <1>6, <1>7, <1>8

\* The indexes lead to the players of a run and to the runs of a code.
LEMMA RoutesKept ==
  ASSUME Typed, Grows, RoutesToPlayers,
         \A c \in Conns : \/ byConn'[c] \in {None, byConn[c]}
                          \/ byConn'[c] \in Runs /\ Played(c, byConn'[c]),
         \A k \in Codes : \/ runs'[k] \in {None, runs[k]}
                          \/ runs'[k] \in Runs /\ code[runs'[k]] = k
  PROVE  RoutesToPlayers'
<1>1. ASSUME NEW c \in Conns, byConn'[c] # None
      PROVE  c \in ids'[byConn'[c]]
  <2>1. byConn'[c] \in Runs /\ Played(c, byConn'[c])
    BY <1>1 DEF Typed, TypeOK, RoutesToPlayers
  <2> QED
    BY <2>1 DEF Played, Grows
<1>2. ASSUME NEW k \in Codes, runs'[k] # None
      PROVE  code'[runs'[k]] = k
  <2>1. runs'[k] \in Runs /\ code[runs'[k]] = k
    BY <1>2 DEF Typed, TypeOK, RoutesToPlayers
  <2> QED
    BY <2>1, CodeStays
<1> QED
  BY <1>1, <1>2 DEF RoutesToPlayers, Played

\* What the stores of StartMatch store, and under which ConnID.
LEMMA StoreMade ==
  ASSUME Typed, LocalsOK, NEW c \in Conns, StoreHost(c) \/ StoreGuest(c)
  PROVE  /\ run[c] \in Runs /\ Starts(c, run[c]) /\ runs' = runs
         /\ UNCHANGED <<code, players, session, sender, ids, asked>>
         /\ \/ /\ StoreHost(c) /\ phase[run[c]] = "stored1" /\ phase' = [phase EXCEPT ![run[c]] = "stored2"]
               /\ byConn' = [byConn EXCEPT ![players[run[c]][0]] = run[c]]
               /\ Played(players[run[c]][0], run[c]) /\ UNCHANGED <<at, run, id>>
            \/ /\ StoreGuest(c) /\ phase[run[c]] = "stored2" /\ phase' = [phase EXCEPT ![run[c]] = "countdown"]
               /\ byConn' = [byConn EXCEPT ![id[c]] = run[c]]
               /\ Played(id[c], run[c]) /\ at' = [at EXCEPT ![c] = "idle"]
<1> USE DEF slots, handlers
<1>1. /\ run[c] \in Runs /\ phase[run[c]] \in {"stored1", "stored2"} /\ at[c] = "starting"
      /\ id[c] \in ids[run[c]]
  BY DEF StoreHost, StoreGuest, LocalsOK, LocalOK, StarterOK, Early
<1>2. Played(players[run[c]][0], run[c])
  <2>1. Made(run[c])
    BY <1>1 DEF Made
  <2>2. Used(run[c])
    BY <1>1, <2>1 DEF Typed, UsedOK
  <2>3. players[run[c]][0] \in Conns /\ players[run[c]][0] \in {None} \cup ids[run[c]]
    BY <2>2, SlotsTwo DEF Used
  <2> QED
    BY <2>3, Names DEF Played
<1>3. CASE StoreHost(c)
  BY <1>1, <1>2, <1>3 DEF StoreHost, Starts
<1>4. CASE StoreGuest(c)
  BY <1>1, <1>4 DEF StoreGuest, GuestRead, Starts, Played
<1> QED
  BY <1>3, <1>4

LEMMA RoutesStep ==
  ASSUME Typed, LocalsOK, RoutesToPlayers, [Next]_vars
  PROVE  RoutesToPlayers'
<1> USE DEF indexes
<1>1. Grows
  BY GrowsStep
<1>2. runs \in [Codes -> Runs \cup {None}] /\ byConn \in [Conns -> Runs \cup {None}]
  BY DEF Typed, TypeOK
<1>3. ASSUME NEW c \in Conns, StoreRun(c) PROVE RoutesToPlayers'
  <2>1. run[c] \in Runs
    BY <1>3 DEF StoreRun, LocalsOK, LocalOK, StarterOK
  <2>2. runs' = [runs EXCEPT ![code[run[c]]] = run[c]] /\ byConn' = byConn
    BY <1>3 DEF StoreRun
  <2> QED
    BY <2>1, <2>2, <1>1, <1>2, RoutesKept
<1>4. ASSUME NEW c \in Conns, StoreHost(c) \/ StoreGuest(c) PROVE RoutesToPlayers'
  <2>1. run[c] \in Runs /\ runs' = runs
    BY <1>4, StoreMade
  <2>2. \A d \in Conns : \/ byConn'[d] = byConn[d]
                         \/ byConn'[d] = run[c] /\ Played(d, run[c])
    BY <1>4, <1>2, StoreMade
  <2> QED
    BY <2>1, <2>2, <1>1, RoutesKept
<1>5. ASSUME NEW c \in Conns, ReconnectStore(c) PROVE RoutesToPlayers'
  <2>1. run[c] \in Runs /\ Played(c, run[c])
    BY <1>5 DEF ReconnectStore, LocalsOK, LocalOK, ReturnerOK, Reconnecting
  <2>2. runs' = runs /\ byConn' = [byConn EXCEPT ![c] = run[c]]
    BY <1>5 DEF ReconnectStore
  <2> QED
    BY <2>1, <2>2, <1>1, <1>2, RoutesKept
<1>6. ASSUME NEW c \in Conns, ReconnectDelete(c) PROVE RoutesToPlayers'
  <2>1. runs' = runs /\ byConn' = [byConn EXCEPT ![id[c]] = None]
    BY <1>6 DEF ReconnectDelete
  <2> QED
    BY <2>1, <1>1, <1>2, RoutesKept
<1>7. ASSUME NEW r \in Runs, DeleteRun(r) PROVE RoutesToPlayers'
  <2>1. runs' = [runs EXCEPT ![code[r]] = None] /\ byConn' = byConn
    BY <1>7 DEF DeleteRun
  <2> QED
    BY <2>1, <1>1, <1>2, RoutesKept
<1>8. ASSUME NEW r \in Runs, NEW s \in Slots, Unindex(r, s) PROVE RoutesToPlayers'
  <2>1. byConn' = [byConn EXCEPT ![Entry(r, s)] = None] /\ runs' = runs
    BY <1>8 DEF Unindex
  <2> QED
    BY <2>1, <1>1, <1>2, RoutesKept
<1>9. CASE UNCHANGED indexes
  BY <1>9, <1>1, RoutesKept
<1> QED
  BY IndexSteps, <1>3, <1>4, <1>5, <1>6, <1>7, <1>8, <1>9

\* Who is about to store its entry does so.
LEMMA AttachingKept ==
  ASSUME Typed, [Next]_vars, NEW p \in Conns, NEW r \in Runs, Attaching(p, r)
  PROVE  Attaching(p, r)' \/ ReconnectStore(p)
<1> USE DEF Attaching, matches, slots, handlers
<1>1. at \in [Conns -> Places] /\ run \in [Conns -> Runs \cup {None}]
  BY DEF Typed, TypeOK
<1>2. ASSUME NEW c \in Conns, at[c] \notin {"deleting", "attached"},
             at' = at \/ \E y : at' = [at EXCEPT ![c] = y],
             run' = run \/ \E y : run' = [run EXCEPT ![c] = y]
      PROVE  Attaching(p, r)'
  <2>1. at'[p] = at[p]
    BY <1>1, <1>2
  <2>2. run'[p] = run[p]
    BY <1>1, <1>2
  <2> QED
    BY <2>1, <2>2
<1>3. ASSUME NEW c \in Conns, NEW k \in Codes, CreateRoom(c, k) \/ JoinRoom(c, k) \/ ReconnectLoad(c, k)
      PROVE  Attaching(p, r)'
  BY <1>2, <1>3 DEF CreateRoom, JoinRoom, ReconnectLoad
<1>4. ASSUME NEW c \in Conns, NEW k \in Codes, NEW q \in Runs, StartByGuest(c, k, q) \/ StartByHost(c, k, q)
      PROVE  Attaching(p, r)'
  BY <1>2, <1>4 DEF StartByGuest, StartByHost
<1>5. ASSUME NEW c \in Conns, \/ LeaveRoom(c) \/ LobbyOnDisconnect(c)
                              \/ ReadSender(c) \/ ReadConnID(c) \/ ReadSession(c)
                              \/ StoreRun(c) \/ StoreHost(c) \/ StoreGuest(c)
                              \/ DisconnectLoad(c) \/ DisconnectDetach(c)
                              \/ ReconnectRefused(c) \/ ReconnectSignal(c)
                              \/ \E s \in Slots : ReconnectAttach(c, s)
      PROVE  Attaching(p, r)'
  <2>1. at[c] \notin {"deleting", "attached"}
    BY <1>5 DEF LeaveRoom, LobbyOnDisconnect, ReadSender, ReadConnID, ReadSession, StoreRun,
                StoreHost, StoreGuest, DisconnectLoad, DisconnectDetach, ReconnectRefused,
                ReconnectSignal, ReconnectAttach
  <2>2. at' = at \/ \E y : at' = [at EXCEPT ![c] = y]
    BY <1>5 DEF LeaveRoom, LobbyOnDisconnect, ReadSender, ReadConnID, ReadSession, StoreRun,
                StoreHost, StoreGuest, DisconnectLoad, DisconnectDetach, ReconnectRefused,
                ReconnectSignal, ReconnectAttach
  <2>3. run' = run \/ \E y : run' = [run EXCEPT ![c] = y]
    BY <1>5 DEF LeaveRoom, LobbyOnDisconnect, ReadSender, ReadConnID, ReadSession, StoreRun,
                StoreHost, StoreGuest, DisconnectLoad, DisconnectDetach, ReconnectRefused,
                ReconnectSignal, ReconnectAttach
  <2> QED
    BY <2>1, <2>2, <2>3, <1>2
<1>6. ASSUME NEW c \in Conns, ReconnectDelete(c) PROVE Attaching(p, r)'
  BY <1>1, <1>6 DEF ReconnectDelete
<1>7. ASSUME NEW c \in Conns, ReconnectStore(c), c # p PROVE Attaching(p, r)'
  BY <1>1, <1>7 DEF ReconnectStore
<1>8. ASSUME NEW q \in Runs, \/ EndCountdown(q) \/ TakeSignal(q) \/ EndMatch(q)
                             \/ DeleteRun(q) \/ \E s \in Slots : Unindex(q, s)
      PROVE  Attaching(p, r)'
  BY <1>8 DEF EndCountdown, TakeSignal, EndMatch, DeleteRun, Unindex
<1>9. CASE UNCHANGED vars
  BY <1>9 DEF vars
<1> QED
  BY Steps, <1>3, <1>4, <1>5, <1>6, <1>7, <1>8, <1>9

\* The entry of a player stays, is stored, or is another run's that has the same
\* claim to it, as long as the match has not ended.
LEMMA RoutedKept ==
  ASSUME Typed, LocalsOK, [Next]_vars, NEW r \in Runs, NEW p \in Conns, Routed(p, r),
         p \in {players[r][0], players[r][1]}, phase[r] \notin {"unindex0", "unindex1"}
  PROVE  Routed(p, r)'
<1> USE DEF indexes
<1>1. Grows
  BY GrowsStep
<1>2. byConn \in [Conns -> Runs \cup {None}]
  BY DEF Typed, TypeOK
<1>3. CASE Elsewhere(p, r)
  BY <1>1, <1>3, ElsewhereStays DEF Routed
<1>4. ASSUME NEW q \in Runs, q # r, Played(p, q) PROVE Routed(p, r)'
  <2>1. Elsewhere(p, r)
    BY <1>4 DEF Elsewhere
  <2> QED
    BY <2>1, <1>3
<1>5. ASSUME NEW c \in Conns, ReconnectStore(c), c = p \/ byConn[p] = r PROVE Routed(p, r)'
  <2>1. run[c] \in Runs /\ Played(c, run[c])
    BY <1>5 DEF ReconnectStore, LocalsOK, LocalOK, ReturnerOK, Reconnecting
  <2>2. byConn' = [byConn EXCEPT ![c] = run[c]]
    BY <1>5 DEF ReconnectStore
  <2>3. \/ byConn'[p] = r
        \/ run[c] # r /\ Played(p, run[c])
    BY <2>1, <2>2, <1>2, <1>5
  <2> QED
    BY <2>1, <2>3, <1>4 DEF Routed
<1>6. CASE Attaching(p, r)
  <2>1. Attaching(p, r)' \/ ReconnectStore(p)
    BY <1>6, AttachingKept
  <2> QED
    BY <2>1, <1>5 DEF Routed
<1>7. CASE byConn[p] = r
  <2>1. ASSUME NEW c \in Conns, StoreHost(c) \/ StoreGuest(c) PROVE Routed(p, r)'
    <3>1. run[c] \in Runs /\ (byConn'[p] = byConn[p] \/ (byConn'[p] = run[c] /\ Played(p, run[c])))
      BY <2>1, <1>2, StoreMade
    <3> QED
      BY <3>1, <1>4, <1>7 DEF Routed
  <2>2. ASSUME NEW c \in Conns, ReconnectDelete(c) PROVE Routed(p, r)'
    <3>1. /\ run[c] \in Runs /\ players[run[c]][1] = c
          /\ id[c] # c /\ id[c] # players[run[c]][0] /\ Played(id[c], run[c])
      BY <2>2 DEF ReconnectDelete, LocalsOK, LocalOK, ReturnerOK, Reconnecting, Played
    <3>2. byConn' = [byConn EXCEPT ![id[c]] = None]
      BY <2>2 DEF ReconnectDelete
    <3>3. CASE p = id[c]
      <4>1. run[c] # r
        BY <3>1, <3>3
      <4> QED
        BY <4>1, <3>1, <3>3, <1>4
    <3>4. CASE p # id[c]
      BY <3>2, <3>4, <1>2, <1>7 DEF Routed
    <3> QED
      BY <3>3, <3>4
  <2>3. ASSUME NEW q \in Runs, NEW s \in Slots, Unindex(q, s) PROVE Routed(p, r)'
    <3>1. /\ byConn' = [byConn EXCEPT ![players[q][s]] = None]
          /\ phase[q] \in {"unindex0", "unindex1"}
      BY <2>3 DEF Unindex, Entry
    <3>2. q # r
      BY <3>1
    <3>3. CASE p = players[q][s]
      <4>1. Made(q)
        BY <3>1 DEF Made
      <4>2. Played(p, q)
        BY <4>1, <3>3, Names DEF Typed, UsedOK, Used, Played
      <4> QED
        BY <4>2, <3>2, <1>4
    <3>4. CASE p # players[q][s]
      BY <3>1, <3>4, <1>2, <1>7 DEF Routed
    <3> QED
      BY <3>3, <3>4
  <2>4. ASSUME NEW c \in Conns, StoreRun(c) PROVE Routed(p, r)'
    BY <2>4, <1>7 DEF StoreRun, Routed
  <2>5. ASSUME NEW q \in Runs, DeleteRun(q) PROVE Routed(p, r)'
    BY <2>5, <1>7 DEF DeleteRun, Routed
  <2>6. CASE UNCHANGED indexes
    BY <2>6, <1>7 DEF Routed
  <2> QED
    BY <2>1, <2>2, <2>3, <2>4, <2>5, <2>6, <1>5, <1>7, IndexSteps
<1> QED
  BY <1>3, <1>6, <1>7 DEF Routed

\* Once the guest is read, who starts the run has done so before and keeps what
\* it has read.
LEMMA StarterStays ==
  ASSUME Typed, [Next]_vars, NEW r \in Runs, Made(r), phase[r] \notin Early,
         NEW d \in Conns, Starts(d, r)'
  PROVE  Starts(d, r) /\ id'[d] = id[d]
<1> USE DEF Starts, matches, slots, handlers
<1>1. /\ at \in [Conns -> Places] /\ run \in [Conns -> Runs \cup {None}]
      /\ id \in [Conns -> Conns \cup {None}]
  BY DEF Typed, TypeOK
<1>2. ASSUME NEW c \in Conns, at' = at \/ \E y : at' = [at EXCEPT ![c] = y],
             run' = run \/ \E y : run' = [run EXCEPT ![c] = y],
             id' = id \/ \E y : id' = [id EXCEPT ![c] = y],
             c = d => at'[c] # "starting" \/ (UNCHANGED <<at, run, id>>)
      PROVE  Starts(d, r) /\ id'[d] = id[d]
  <2>1. c # d \/ UNCHANGED <<at, run, id>>
    BY <1>2
  <2>2. at'[d] = at[d]
    BY <1>1, <1>2, <2>1
  <2>3. run'[d] = run[d]
    BY <1>1, <1>2, <2>1
  <2>4. id'[d] = id[d]
    BY <1>1, <1>2, <2>1
  <2> QED
    BY <2>2, <2>3, <2>4
<1>3. ASSUME UNCHANGED <<at, run, id>> PROVE Starts(d, r) /\ id'[d] = id[d]
  BY <1>3
<1>4. ASSUME NEW c \in Conns, NEW k \in Codes, CreateRoom(c, k) \/ JoinRoom(c, k)
      PROVE  Starts(d, r) /\ id'[d] = id[d]
  BY <1>3, <1>4 DEF CreateRoom, JoinRoom
<1>5. ASSUME NEW c \in Conns, NEW y, y \in Places \ {"starting"}, at' = [at EXCEPT ![c] = y],
             run' = run \/ \E z : run' = [run EXCEPT ![c] = z],
             id' = id \/ \E z : id' = [id EXCEPT ![c] = z]
      PROVE  Starts(d, r) /\ id'[d] = id[d]
  <2>1. at'[c] # "starting"
    BY <1>1, <1>5
  <2> QED
    BY <2>1, <1>2, <1>5
<1>6. ASSUME NEW c \in Conns, NEW k \in Codes, ReconnectLoad(c, k)
      PROVE  Starts(d, r) /\ id'[d] = id[d]
  BY <1>5, <1>6 DEF ReconnectLoad, Places
<1>7. ASSUME NEW c \in Conns, NEW k \in Codes, NEW q \in Runs, StartByGuest(c, k, q) \/ StartByHost(c, k, q)
      PROVE  Starts(d, r) /\ id'[d] = id[d]
  <2>1. /\ phase[q] = "free" /\ at' = [at EXCEPT ![c] = "starting"] /\ run' = [run EXCEPT ![c] = q]
        /\ id' = id \/ id' = [id EXCEPT ![c] = c]
    BY <1>7 DEF StartByGuest, StartByHost
  <2>2. c # d
    BY <2>1, <1>1 DEF Made
  <2>3. at'[d] = at[d] /\ run'[d] = run[d]
    BY <2>1, <2>2, <1>1
  <2>4. id'[d] = id[d]
    BY <2>1, <2>2, <1>1
  <2> QED
    BY <2>3, <2>4
<1>8. ASSUME NEW c \in Conns, \/ ReadSender(c) \/ ReadSession(c) \/ StoreRun(c) \/ StoreHost(c)
                              \/ LeaveRoom(c)
      PROVE  Starts(d, r) /\ id'[d] = id[d]
  BY <1>3, <1>8 DEF ReadSender, ReadSession, StoreRun, StoreHost, LeaveRoom
<1>9. ASSUME NEW c \in Conns, ReadConnID(c) PROVE Starts(d, r) /\ id'[d] = id[d]
  <2>1. /\ UNCHANGED <<at, run>> /\ phase[run[c]] = "readConnID"
        /\ id' = [id EXCEPT ![c] = guest[code[run[c]]]]
    BY <1>9 DEF ReadConnID
  <2>2. c # d
    BY <2>1 DEF Early
  <2> QED
    BY <2>1, <2>2, <1>1
<1>10. ASSUME NEW c \in Conns, \/ LobbyOnDisconnect(c) \/ StoreGuest(c) \/ DisconnectLoad(c)
                               \/ DisconnectDetach(c) \/ ReconnectRefused(c)
                               \/ ReconnectDelete(c) \/ ReconnectStore(c) \/ ReconnectSignal(c)
                               \/ \E s \in Slots : ReconnectAttach(c, s)
       PROVE  Starts(d, r) /\ id'[d] = id[d]
  <2>1. \E y \in Places \ {"starting"} : at' = [at EXCEPT ![c] = y]
    BY <1>10 DEF LobbyOnDisconnect, StoreGuest, DisconnectLoad, DisconnectDetach, ReconnectRefused,
                 ReconnectDelete, ReconnectStore, ReconnectSignal, ReconnectAttach, Places
  <2>2. run' = run \/ \E z : run' = [run EXCEPT ![c] = z]
    BY <1>10 DEF LobbyOnDisconnect, StoreGuest, DisconnectLoad, DisconnectDetach, ReconnectRefused,
                 ReconnectDelete, ReconnectStore, ReconnectSignal, ReconnectAttach
  <2>3. id' = id \/ \E z : id' = [id EXCEPT ![c] = z]
    BY <1>10 DEF LobbyOnDisconnect, StoreGuest, DisconnectLoad, DisconnectDetach, ReconnectRefused,
                 ReconnectDelete, ReconnectStore, ReconnectSignal, ReconnectAttach
  <2> QED
    BY <2>1, <2>2, <2>3, <1>5
<1>11. ASSUME NEW q \in Runs, \/ EndCountdown(q) \/ TakeSignal(q) \/ EndMatch(q)
                              \/ DeleteRun(q) \/ \E s \in Slots : Unindex(q, s)
       PROVE  Starts(d, r) /\ id'[d] = id[d]
  BY <1>3, <1>11 DEF EndCountdown, TakeSignal, EndMatch, DeleteRun, Unindex
<1>12. CASE UNCHANGED vars
  BY <1>3, <1>12 DEF vars
<1> QED
  BY Steps, <1>4, <1>6, <1>7, <1>8, <1>9, <1>10, <1>11, <1>12

\* How a run gets into the phases that its entries are about.
LEMMA Entering ==
  ASSUME Typed, LocalsOK, [Next]_vars, NEW r \in Runs
  PROVE  /\ InRuns(r)' => InRuns(r) \/ \E c \in Conns : StoreRun(c) /\ run[c] = r
         /\ phase'[r] = "stored2" =>
                phase[r] = "stored2" \/ \E c \in Conns : StoreHost(c) /\ run[c] = r
         /\ Live(r)' => Live(r) \/ \E c \in Conns : StoreGuest(c) /\ run[c] = r
         /\ ToStore(r)' => \/ ToStore(r)
                           \/ \E c \in Conns : ReadConnID(c) /\ run[c] = r
                           \/ \E c \in Conns, k \in Codes : StartByGuest(c, k, r)
<1> USE DEF InRuns, Live, ToStore, Storing
<1>1. phase \in [Runs -> Phases]
  BY DEF Typed, TypeOK
<1>2. ASSUME NEW c \in Conns, StoreRun(c) \/ StoreHost(c) \/ StoreGuest(c), run[c] = r
      PROVE  ToStore(r)
  BY <1>2 DEF StoreRun, StoreHost, StoreGuest
<1>3. ASSUME NEW c \in Conns, StoreRun(c) \/ StoreHost(c) \/ StoreGuest(c), run[c] # r
      PROVE  phase'[r] = phase[r]
  BY <1>1, <1>3 DEF StoreRun, StoreHost, StoreGuest
<1>4. ASSUME NEW c \in Conns, StoreRun(c), run[c] = r PROVE phase'[r] = "stored1"
  BY <1>1, <1>4 DEF StoreRun
<1>5. ASSUME NEW c \in Conns, StoreHost(c), run[c] = r PROVE phase'[r] = "stored2" /\ InRuns(r)
  BY <1>1, <1>5 DEF StoreHost
<1>6. ASSUME NEW c \in Conns, StoreGuest(c), run[c] = r PROVE phase'[r] = "countdown" /\ InRuns(r)
  BY <1>1, <1>6 DEF StoreGuest
<1>7. ASSUME NEW q \in Runs, DeleteRun(q) \/ \E s \in Slots : Unindex(q, s)
      PROVE  phase'[r] \in {phase[r], "unindex0", "unindex1", "done"}
  BY <1>1, <1>7 DEF DeleteRun, Unindex
<1>8. ASSUME NEW c \in Conns, ReconnectDelete(c) \/ ReconnectStore(c)
      PROVE  phase' = phase
  BY <1>8 DEF ReconnectDelete, ReconnectStore, matches
<1>9. ASSUME NEW c \in Conns, NEW k \in Codes, NEW q \in Runs,
             StartByGuest(c, k, q) \/ StartByHost(c, k, q)
      PROVE  \/ phase'[r] \in {phase[r], "readSender"}
             \/ StartByGuest(c, k, r) /\ phase'[r] = "stored0"
  <2>1. CASE q = r
    BY <1>1, <1>9, <2>1 DEF StartByGuest, StartByHost
  <2>2. CASE q # r
    BY <1>1, <1>9, <2>2 DEF StartByGuest, StartByHost
  <2> QED
    BY <2>1, <2>2
<1>10. ASSUME NEW c \in Conns, ReadSender(c) \/ ReadConnID(c) \/ ReadSession(c)
       PROVE  \/ phase'[r] \in {phase[r], "readConnID"}
              \/ ReadConnID(c) /\ run[c] = r /\ phase'[r] = "readSession"
              \/ phase[r] = "readSession" /\ phase'[r] = "stored0"
  BY <1>1, <1>10 DEF ReadSender, ReadConnID, ReadSession
<1>11. CASE phase'[r] = phase[r]
  BY <1>11
<1>12. ASSUME NEW c \in Conns, NEW s \in Slots, ReconnectAttach(c, s) PROVE phase' = phase
  BY <1>12 DEF ReconnectAttach
<1>13. ASSUME NEW c \in Conns, DisconnectDetach(c) PROVE phase' = phase
  BY <1>13 DEF DisconnectDetach
<1>14. CASE \E c \in Conns : StoreRun(c) \/ StoreHost(c) \/ StoreGuest(c)
  BY <1>14, <1>2, <1>3, <1>4, <1>5, <1>6, <1>11
<1>15. CASE \E q \in Runs : DeleteRun(q) \/ \E s \in Slots : Unindex(q, s)
  BY <1>15, <1>7, <1>11
<1>16. CASE \E c \in Conns, k \in Codes, q \in Runs : StartByGuest(c, k, q) \/ StartByHost(c, k, q)
  BY <1>16, <1>9, <1>11
<1>17. CASE \E c \in Conns : ReadSender(c) \/ ReadConnID(c) \/ ReadSession(c)
  BY <1>17, <1>10, <1>11
<1>18. CASE UNCHANGED indexes /\ Moves(r) /\ (phase'[r] = phase[r] \/ (Made(r) /\ phase[r] \notin Reading))
  BY <1>18, <1>11 DEF Moves, Made, Reading
<1> QED
  BY Changes, IndexSteps, <1>8, <1>11, <1>12, <1>13, <1>14, <1>15, <1>16, <1>17, <1>18 DEF Made

LEMMA RunIndexedStep ==
  ASSUME Typed, LocalsOK, [Next]_vars, NEW r \in Runs, RunIndexed(r)
  PROVE  RunIndexed(r)'
<1> USE DEF indexes
<1> SUFFICES ASSUME InRuns(r)' PROVE runs'[code'[r]] = r \/ \E q \in Runs \ {r} : code'[q] = code'[r]
  BY DEF RunIndexed
<1>1. Grows
  BY GrowsStep
<1>2. runs \in [Codes -> Runs \cup {None}]
  BY DEF Typed, TypeOK
<1>3. InRuns(r) \/ \E c \in Conns : StoreRun(c) /\ run[c] = r
  BY Entering
<1>4. Made(r)
  BY <1>3 DEF InRuns, Made, StoreRun
<1>5. code'[r] = code[r] /\ code[r] \in Codes
  BY <1>1, <1>4 DEF Typed, UsedOK, Used, Grows
<1>6. ASSUME NEW q \in Runs, q # r, code[q] = code[r]
      PROVE  \E p \in Runs \ {r} : code'[p] = code'[r]
  BY <1>1, <1>5, <1>6, CodeStays
<1>7. ASSUME NEW c \in Conns, StoreRun(c)
      PROVE  runs'[code[r]] = r \/ \E q \in Runs \ {r} : code'[q] = code'[r]
  <2>1. run[c] \in Runs /\ runs' = [runs EXCEPT ![code[run[c]]] = run[c]]
    BY <1>7 DEF StoreRun, LocalsOK, LocalOK, StarterOK
  <2>2. CASE run[c] = r
    BY <2>1, <2>2, <1>2, <1>5
  <2>3. CASE run[c] # r /\ code[run[c]] = code[r]
    BY <2>1, <2>3, <1>6
  <2>4. CASE run[c] # r /\ code[run[c]] # code[r]
    <3>1. runs'[code[r]] = runs[code[r]] /\ InRuns(r)
      <4>1. phase[run[c]] = "stored0" /\ phase' = [phase EXCEPT ![run[c]] = "stored1"]
        BY <1>7 DEF StoreRun
      <4>2. phase'[r] = phase[r]
        BY <4>1, <2>4 DEF Typed, TypeOK
      <4> QED
        BY <4>2, <2>1, <2>4, <1>2, <1>5 DEF InRuns
    <3> QED
      BY <3>1, <1>6 DEF RunIndexed
  <2> QED
    BY <2>2, <2>3, <2>4
<1>8. ASSUME NEW q \in Runs, DeleteRun(q)
      PROVE  runs'[code[r]] = r \/ \E p \in Runs \ {r} : code'[p] = code'[r]
  <2>1. /\ runs' = [runs EXCEPT ![code[q]] = None] /\ phase[q] = "ended"
        /\ phase' = [phase EXCEPT ![q] = "unindex0"]
    BY <1>8 DEF DeleteRun
  <2>2. q # r
    BY <2>1 DEF InRuns, Typed, TypeOK
  <2>3. InRuns(r)
    BY <2>1, <2>2 DEF InRuns, Typed, TypeOK
  <2>4. CASE code[q] = code[r]
    BY <2>2, <2>4, <1>6
  <2>5. CASE code[q] # code[r]
    <3>1. runs'[code[r]] = runs[code[r]]
      BY <2>1, <2>5, <1>2, <1>5
    <3> QED
      BY <3>1, <2>3, <1>6 DEF RunIndexed
  <2> QED
    BY <2>4, <2>5
<1>9. CASE runs' = runs /\ ~\E c \in Conns : StoreRun(c)
  <2>1. InRuns(r)
    BY <1>3, <1>9
  <2> QED
    BY <2>1, <1>5, <1>6, <1>9 DEF RunIndexed
<1>10. \/ runs' = runs
       \/ \E c \in Conns : StoreRun(c)
       \/ \E q \in Runs : DeleteRun(q)
  BY IndexSteps, StoreMade DEF ReconnectDelete, ReconnectStore, Unindex
<1> QED
  BY <1>5, <1>7, <1>8, <1>9, <1>10

\* StoreHost and StoreGuest store the entries of the run they are for.
LEMMA EntryStored ==
  ASSUME Typed, LocalsOK, NEW c \in Conns
  PROVE  /\ StoreHost(c) => byConn'[players[run[c]][0]] = run[c]
         /\ StoreGuest(c) /\ id[c] \in Conns => byConn'[id[c]] = run[c]
<1>1. byConn \in [Conns -> Runs \cup {None}]
  BY DEF Typed, TypeOK
<1>2. ASSUME StoreHost(c) PROVE byConn'[players[run[c]][0]] = run[c]
  <2>1. run[c] \in Runs /\ phase[run[c]] = "stored1"
    BY <1>2 DEF StoreHost, LocalsOK, LocalOK, StarterOK
  <2>2. players[run[c]][0] \in Conns
    BY <2>1 DEF Typed, UsedOK, Used, Made
  <2> QED
    BY <2>1, <2>2, <1>1, <1>2 DEF StoreHost
<1>3. ASSUME StoreGuest(c), id[c] \in Conns PROVE byConn'[id[c]] = run[c]
  BY <1>1, <1>3 DEF StoreGuest, GuestRead
<1> QED
  BY <1>2, <1>3

LEMMA HostIndexedStep ==
  ASSUME Typed, LocalsOK, [Next]_vars, NEW r \in Runs, HostIndexed(r)
  PROVE  HostIndexed(r)'
<1> SUFFICES ASSUME Live(r)' \/ phase'[r] = "stored2" PROVE Routed(players[r][0], r)'
  BY DEF HostIndexed
<1>1. \/ Live(r) \/ phase[r] = "stored2"
      \/ \E c \in Conns : StoreHost(c) /\ run[c] = r
  BY Entering DEF StoreGuest
<1>2. Made(r) /\ phase[r] \notin {"unindex0", "unindex1"}
  BY <1>1 DEF Live, StoreHost, Made
<1>3. players'[r][0] = players[r][0] /\ players[r][0] \in Conns
  BY <1>2, GrowsStep DEF Typed, UsedOK, Used, Grows
<1> DEFINE p == players[r][0]
<1>4. ASSUME NEW q \in Conns, q = p, Routed(q, r)' PROVE Routed(players[r][0], r)'
  BY <1>3, <1>4 DEF Routed, Attaching, Elsewhere, Played
<1>5. CASE Live(r) \/ phase[r] = "stored2"
  <2>1. Routed(p, r)
    BY <1>5 DEF HostIndexed
  <2>2. PICK q \in Conns : q = p
    BY <1>3
  <2>3. Routed(q, r)'
    BY <2>1, <2>2, <1>2, RoutedKept
  <2> QED
    BY <2>2, <2>3, <1>4
<1>6. CASE \E c \in Conns : StoreHost(c) /\ run[c] = r
  BY <1>3, <1>6, EntryStored DEF Routed
<1> QED
  BY <1>1, <1>5, <1>6

LEMMA GuestIndexedStep ==
  ASSUME Typed, LocalsOK, LocalsOK', [Next]_vars, NEW r \in Runs, GuestIndexed(r)
  PROVE  GuestIndexed(r)'
<1> DEFINE p == players[r][1]
<1>1. ASSUME NEW q \in Conns, q = players'[r][1], Routed(q, r)' PROVE Routed(players[r][1], r)'
  BY <1>1 DEF Routed, Attaching, Elsewhere, Played
\* The guest of a run that goes on, and its entry.
<1>2. ASSUME Live(r) \/ ToStore(r), Routed(p, r) PROVE Routed(players[r][1], r)'
  <2>1. Made(r) /\ phase[r] \notin Early /\ phase[r] \notin {"unindex0", "unindex1"}
    BY <1>2 DEF Live, ToStore, Storing, Made, Early
  <2>2. p \in Conns
    BY <2>1 DEF Typed, UsedOK, Used
  <2>3. PICK q \in Conns : q = p
    BY <2>2
  <2>4. Routed(q, r)'
    BY <2>1, <2>3, <1>2, RoutedKept
  <2>5. CASE players'[r][1] = p
    BY <2>3, <2>4, <2>5, <1>1
  <2>6. ASSUME NEW c \in Conns, players'[r][1] = c, Attaching(c, r)'
        PROVE  Routed(players[r][1], r)'
    <3>1. Routed(c, r)'
      BY <2>6 DEF Routed
    <3> QED
      BY <3>1, <2>6, <1>1
  <2> QED
    BY <2>1, <2>5, <2>6, Settled
<1>3. ASSUME Live(r)' PROVE Routed(players[r][1], r)'
  <2>1. Live(r) \/ \E c \in Conns : StoreGuest(c) /\ run[c] = r
    BY <1>3, Entering
  <2>2. CASE Live(r)
    BY <2>2, <1>2 DEF GuestIndexed
  <2>3. ASSUME NEW c \in Conns, StoreGuest(c), run[c] = r PROVE Routed(players[r][1], r)'
    <3>1. ToStore(r) /\ Starts(c, r) /\ players' = players
      BY <2>3 DEF StoreGuest, ToStore, Storing, Starts, slots
    <3>2. CASE Routed(p, r)
      BY <3>1, <3>2, <1>2
    <3>3. CASE id[c] = p
      <4>1. p \in Conns
        BY <3>1 DEF ToStore, Storing, Early, Made, Typed, UsedOK, Used
      <4> QED
        BY <4>1, <3>1, <3>3, <2>3, EntryStored DEF Routed
    <3> QED
      BY <3>1, <3>2, <3>3 DEF GuestIndexed
  <2> QED
    BY <2>1, <2>2, <2>3
<1>4. ASSUME ToStore(r)'
      PROVE  Routed(players[r][1], r)' \/ \A c \in Conns : Starts(c, r)' => id'[c] = players'[r][1]
  <2>1. \/ ToStore(r)
        \/ \E c \in Conns : ReadConnID(c) /\ run[c] = r
        \/ \E c \in Conns, k \in Codes : StartByGuest(c, k, r)
    BY <1>4, Entering
  <2>2. CASE ToStore(r)
    <3>1. Made(r) /\ phase[r] \notin Early
      BY <2>2 DEF ToStore, Storing, Early, Made
    <3>2. CASE Routed(p, r)
      BY <2>2, <3>2, <1>2
    <3>3. CASE \A c \in Conns : Starts(c, r) => id[c] = p
      <4>1. CASE players'[r][1] = p
        BY <4>1, <3>1, <3>3, StarterStays
      <4>2. ASSUME NEW c \in Conns, players'[r][1] = c, Attaching(c, r)'
            PROVE  Routed(players[r][1], r)'
        <5>1. Routed(c, r)'
          BY <4>2 DEF Routed
        <5> QED
          BY <5>1, <4>2, <1>1
      <4> QED
        BY <3>1, <4>1, <4>2, Settled
    <3> QED
      BY <2>2, <3>2, <3>3 DEF GuestIndexed
  <2>3. ASSUME NEW c \in Conns, ReadConnID(c), run[c] = r
        PROVE  \A d \in Conns : Starts(d, r)' => id'[d] = players'[r][1]
    <3>1. /\ Starts(c, r) /\ at' = at /\ run' = run
          /\ players' = [players EXCEPT ![r][1] = guest[code[r]]]
          /\ id' = [id EXCEPT ![c] = guest[code[r]]]
      BY <2>3 DEF ReadConnID, Starts
    <3>2. players'[r][1] = guest[code[r]] /\ id'[c] = guest[code[r]]
      BY <3>1, SlotsTwo DEF Typed, TypeOK
    <3>3. Starts(c, r)'
      BY <3>1 DEF Starts
    <3> QED
      BY <3>2, <3>3 DEF LocalsOK
  <2>4. ASSUME NEW c \in Conns, NEW k \in Codes, StartByGuest(c, k, r)
        PROVE  \A d \in Conns : Starts(d, r)' => id'[d] = players'[r][1]
    <3>1. /\ at' = [at EXCEPT ![c] = "starting"] /\ run' = [run EXCEPT ![c] = r]
          /\ phase'[r] = "stored0" \/ phase'[r] = "readSender"
          /\ phase'[r] = "stored0" =>
                players'[r][1] = guest[k] /\ id' = [id EXCEPT ![c] = c] /\ c = guest[k]
      BY <2>4, StartMade
    <3>2. phase'[r] = "stored0"
      BY <3>1, <1>4 DEF ToStore, Storing
    <3>3. Starts(c, r)' /\ id'[c] = players'[r][1]
      BY <3>1, <3>2 DEF Starts, Typed, TypeOK
    <3> QED
      BY <3>3 DEF LocalsOK
  <2> QED
    BY <2>1, <2>2, <2>3, <2>4
<1> QED
  BY <1>3, <1>4 DEF GuestIndexed

LEMMA IndexedStep ==
  ASSUME Typed, LocalsOK, RoutesToPlayers, IndexedOK, [Next]_vars
  PROVE  IndexedOK'
  BY RunIndexedStep, HostIndexedStep, GuestIndexedStep, LocalsStep DEF IndexedOK

\* The end callback deletes both entries; only a reconnect stores one later.
LEMMA FinishedStep ==
  ASSUME Typed, LocalsOK, LocalsOK', FinishedOK, [Next]_vars
  PROVE  FinishedOK'
<1> USE SlotsTwo, Names DEF indexes
<1>1. /\ byConn \in [Conns -> Runs \cup {None}] /\ phase \in [Runs -> Phases]
      /\ at \in [Conns -> Places]
  BY DEF Typed, TypeOK
<1> SUFFICES ASSUME NEW d \in Conns, NEW r \in Runs, byConn'[d] = r, d \notin asked',
                    phase'[r] \in {"unindex1", "done"}
             PROVE  /\ d # players'[r][0]
                    /\ phase'[r] = "done" => d # players'[r][1]
  BY DEF FinishedOK
<1>2. d \notin asked
  BY GrowsStep DEF Grows
<1>3. byConn[d] = r
  <2>1. ASSUME NEW c \in Conns, StoreHost(c) \/ StoreGuest(c) PROVE byConn[d] = r
    <3>1. run[c] # r
      BY <2>1, <1>1 DEF StoreHost, StoreGuest
    <3> QED
      BY <2>1, <3>1, <1>1, StoreMade
  <2>2. ASSUME NEW c \in Conns, ReconnectStore(c) PROVE byConn[d] = r
    <3>1. c \in asked
      BY <2>2 DEF ReconnectStore, LocalsOK, LocalOK, ReturnerOK, Reconnecting
    <3>2. byConn' = [byConn EXCEPT ![c] = run[c]]
      BY <2>2 DEF ReconnectStore
    <3> QED
      BY <3>1, <3>2, <1>1, <1>2
  <2>3. ASSUME NEW c \in Conns, ReconnectDelete(c) PROVE byConn[d] = r
    BY <2>3, <1>1 DEF ReconnectDelete
  <2>4. ASSUME NEW q \in Runs, NEW s \in Slots, Unindex(q, s) PROVE byConn[d] = r
    BY <2>4, <1>1 DEF Unindex
  <2>5. ASSUME NEW c \in Conns, StoreRun(c) PROVE byConn[d] = r
    BY <2>5 DEF StoreRun
  <2>6. ASSUME NEW q \in Runs, DeleteRun(q) PROVE byConn[d] = r
    BY <2>6 DEF DeleteRun
  <2> QED
    BY IndexSteps, <2>1, <2>2, <2>3, <2>4, <2>5, <2>6
<1>4. \/ phase[r] = phase'[r]
      \/ Unindex(r, 0) /\ phase'[r] = "unindex1"
      \/ Unindex(r, 1) /\ phase[r] = "unindex1"
  <2>1. ASSUME NEW c \in Conns, StoreRun(c) \/ StoreHost(c) \/ StoreGuest(c)
        PROVE  phase'[r] = phase[r]
    BY <2>1, <1>1 DEF StoreRun, StoreHost, StoreGuest
  <2>2. ASSUME NEW q \in Runs, DeleteRun(q) PROVE phase'[r] = phase[r]
    BY <2>2, <1>1 DEF DeleteRun
  <2>3. ASSUME NEW q \in Runs, NEW s \in Slots, Unindex(q, s)
        PROVE  \/ phase[r] = phase'[r]
               \/ Unindex(r, 0) /\ phase'[r] = "unindex1"
               \/ Unindex(r, 1) /\ phase[r] = "unindex1"
    <3>1. CASE q # r
      BY <2>3, <3>1, <1>1 DEF Unindex
    <3>2. CASE q = r /\ s = 0
      BY <2>3, <3>2, <1>1 DEF Unindex
    <3>3. CASE q = r /\ s = 1
      BY <2>3, <3>3, <1>1 DEF Unindex
    <3> QED
      BY <3>1, <3>2, <3>3
  <2>4. ASSUME NEW c \in Conns, ReconnectDelete(c) \/ ReconnectStore(c) PROVE phase' = phase
    BY <2>4 DEF ReconnectDelete, ReconnectStore, matches
  <2>5. Moves(r) => phase'[r] = phase[r]
    BY DEF Moves, Reading
  <2> QED
    BY IndexSteps, <2>1, <2>2, <2>3, <2>4, <2>5
<1>5. CASE phase[r] = phase'[r]
  <2>1. /\ d # players[r][0]
        /\ phase[r] = "done" => d # players[r][1]
    BY <1>2, <1>3, <1>5 DEF FinishedOK
  <2>2. Made(r) /\ phase[r] \notin Early
    BY <1>5 DEF Made, Early
  <2>3. players'[r][0] = players[r][0]
    BY <2>2, GrowsStep DEF Grows
  <2>4. ASSUME NEW c \in Conns, Attaching(c, r)' PROVE c # d
    <3>1. c \in asked'
      BY <2>4 DEF Attaching, LocalsOK, LocalOK, ReturnerOK, Reconnecting
    <3> QED
      BY <3>1
  <2>5. players'[r][1] = players[r][1] \/ players'[r][1] # d
    BY <2>2, <2>4, Settled
  <2> QED
    BY <2>1, <2>3, <2>5, <1>5
<1>6. ASSUME NEW s \in Slots, Unindex(r, s)
      PROVE  d # players'[r][s] /\ players' = players
  <2>1. byConn' = [byConn EXCEPT ![players[r][s]] = None] /\ players' = players
    BY <1>6 DEF Unindex, Entry, slots
  <2> QED
    BY <2>1, <1>1
<1>7. CASE Unindex(r, 0) /\ phase'[r] = "unindex1"
  BY <1>6, <1>7
<1>8. CASE Unindex(r, 1) /\ phase[r] = "unindex1"
  <2>1. d # players[r][0]
    BY <1>2, <1>3, <1>8 DEF FinishedOK
  <2> QED
    BY <2>1, <1>6, <1>8
<1> QED
  BY <1>4, <1>5, <1>7, <1>8

\* Whoever was excused when he left still is.
LEMMA ExcusedStays ==
  ASSUME Grows, NEW c \in Conns, NEW r \in Runs, Excused(c, r)
  PROVE  Excused(c, r)'
  BY ElsewhereStays DEF Excused, Grows

\* A connection only goes in its own OnDisconnect.
LEMMA Departures ==
  ASSUME Typed, [Next]_vars, NEW d \in Conns, at'[d] = "gone"
  PROVE  at[d] = "gone" \/ DisconnectLoad(d) \/ DisconnectDetach(d)
<1> USE DEF handlers
<1>1. at \in [Conns -> Places]
  BY DEF Typed, TypeOK
<1>2. ASSUME NEW c \in Conns, NEW y, y # "gone", at' = [at EXCEPT ![c] = y] PROVE at[d] = "gone"
  BY <1>1, <1>2
<1>3. ASSUME NEW c \in Conns, NEW k \in Codes, CreateRoom(c, k) \/ JoinRoom(c, k) \/ ReconnectLoad(c, k)
      PROVE  at[d] = "gone"
  BY <1>2, <1>3 DEF CreateRoom, JoinRoom, ReconnectLoad
<1>4. ASSUME NEW c \in Conns, NEW k \in Codes, NEW r \in Runs, StartByGuest(c, k, r) \/ StartByHost(c, k, r)
      PROVE  at[d] = "gone"
  BY <1>2, <1>4 DEF StartByGuest, StartByHost
<1>5. ASSUME NEW c \in Conns, \/ LeaveRoom(c) \/ LobbyOnDisconnect(c)
                              \/ ReadSender(c) \/ ReadConnID(c) \/ ReadSession(c)
                              \/ StoreRun(c) \/ StoreHost(c) \/ StoreGuest(c)
      PROVE  at[d] = "gone"
  BY <1>2, <1>5 DEF LeaveRoom, LobbyOnDisconnect, ReadSender, ReadConnID, ReadSession, StoreRun,
                    StoreHost, StoreGuest
<1>6. ASSUME NEW c \in Conns, \/ ReconnectRefused(c) \/ ReconnectDelete(c) \/ ReconnectStore(c)
                              \/ ReconnectSignal(c) \/ \E s \in Slots : ReconnectAttach(c, s)
      PROVE  at[d] = "gone"
  BY <1>2, <1>6 DEF ReconnectRefused, ReconnectDelete, ReconnectStore, ReconnectSignal,
                    ReconnectAttach
<1>7. ASSUME NEW c \in Conns, DisconnectLoad(c) \/ DisconnectDetach(c), c # d PROVE at[d] = "gone"
  BY <1>1, <1>7 DEF DisconnectLoad, DisconnectDetach
<1>8. ASSUME NEW r \in Runs, \/ EndCountdown(r) \/ TakeSignal(r) \/ EndMatch(r) \/ DeleteRun(r)
                             \/ \E s \in Slots : Unindex(r, s)
      PROVE  at[d] = "gone"
  BY <1>8 DEF EndCountdown, TakeSignal, EndMatch, DeleteRun, Unindex
<1>9. CASE UNCHANGED vars
  BY <1>9 DEF vars
<1> QED
  BY Steps, <1>3, <1>4, <1>5, <1>6, <1>7, <1>8, <1>9

LEMMA HeardStep ==
  ASSUME Typed, LocalsOK, IndexedOK, HeardOK, [Next]_vars
  PROVE  HeardOK'
<1> USE SlotsTwo, Names
<1>1. Grows
  BY GrowsStep
<1>2. at \in [Conns -> Places] /\ phase \in [Runs -> Phases]
  BY DEF Typed, TypeOK
<1> SUFFICES ASSUME NEW r \in Runs, NEW s \in Slots, NEW d \in Conns,
                    Active(r)', sender'[r][s] = d, players'[r][s] = d, at'[d] = "gone"
             PROVE  Excused(d, r)'
  BY DEF HeardOK
<1>3. ASSUME sender[r][s] = d, players[r][s] = d, Active(r), at[d] = "gone"
      PROVE  Excused(d, r)'
  <2>1. Excused(d, r)
    BY <1>3 DEF HeardOK
  <2> QED
    BY <2>1, <1>1, ExcusedStays
<1>4. ASSUME InRoom(d), at' = at \/ \E c \in Conns : at' = [at EXCEPT ![c] = "starting"]
      PROVE  FALSE
  <2>1. at[d] = "gone"
    BY <1>2, <1>4
  <2> QED
    BY <2>1, <1>4 DEF Typed, SeatsOK, Left
<1>5. ASSUME NEW q \in Runs, q # r, Played(d, q) PROVE Excused(d, r)'
  BY <1>1, <1>5, ElsewhereStays DEF Elsewhere, Excused
<1>6. ASSUME NEW c \in Conns, NEW k \in Codes, NEW q \in Runs,
             StartByGuest(c, k, q) \/ StartByHost(c, k, q)
      PROVE  Excused(d, r)'
  <2>1. at' = [at EXCEPT ![c] = "starting"]
    BY <1>6, StartMade
  <2>2. CASE r = q
    <3>1. /\ players'[r][0] = host[k]
          /\ players'[r][1] \in {guest[k], None}
      BY <1>6, <2>2, StartMade
    <3>2. d \in {host[k], guest[k]}
      BY <3>1
    <3> QED
      BY <2>1, <3>2, <1>4 DEF InRoom
  <2>3. CASE r # q
    <3>1. sender'[r][s] = sender[r][s] /\ players'[r][s] = players[r][s] /\ phase'[r] = phase[r]
      BY <1>6, <2>3, StartMade
    <3> QED
      BY <3>1, <2>1, <1>2, <1>3 DEF Active, Live
  <2> QED
    BY <2>2, <2>3
<1>7. ASSUME NEW c \in Conns, ReadSender(c) \/ ReadConnID(c) \/ ReadSession(c)
      PROVE  Excused(d, r)'
  <2> DEFINE g == guest[code[run[c]]]
  <2>1. /\ at' = at /\ InRoom(g) /\ phase[run[c]] \in Reading
        /\ \E x \in Reading \cup {"stored0"} : phase' = [phase EXCEPT ![run[c]] = x]
        /\ sender'[r][s] \in {g, sender[r][s]} /\ players'[r][s] \in {g, players[r][s]}
    BY <1>7, ReadMade DEF Reading
  <2>2. d # g
    BY <2>1, <1>4
  <2>3. Active(r)
    BY <2>1, <1>2 DEF Active, Live, Reading, Storing
  <2> QED
    BY <2>1, <2>2, <2>3, <1>3
<1>8. ASSUME NEW c \in Conns, NEW t \in Slots, ReconnectAttach(c, t) PROVE Excused(d, r)'
  <2>1. /\ phase' = phase
        /\ \E y \in {"attached", "deleting"} : at' = [at EXCEPT ![c] = y]
        /\ sender'[r][s] \in {c, sender[r][s]} /\ players'[r][s] \in {c, players[r][s]}
    BY <1>8, AttachMade
  <2>2. d # c /\ at[d] = "gone"
    BY <2>1, <1>2
  <2> QED
    BY <2>1, <2>2, <1>3 DEF Active, Live
<1>9. ASSUME NEW c \in Conns, DisconnectDetach(c) PROVE Excused(d, r)'
  <2>1. /\ run[c] \in Runs /\ Played(c, run[c]) /\ at' = [at EXCEPT ![c] = "gone"]
        /\ players' = players /\ phase' = phase
        /\ sender'[r][s] = IF r = run[c] /\ players[r][s] = c THEN None ELSE sender[r][s]
    BY <1>9, DetachMade
  <2>2. sender[r][s] = d /\ players[r][s] = d /\ ~(r = run[c] /\ d = c)
    BY <2>1
  <2>3. CASE d = c
    BY <2>1, <2>2, <2>3, <1>5
  <2>4. CASE d # c
    BY <2>1, <2>2, <2>4, <1>2, <1>3 DEF Active, Live
  <2> QED
    BY <2>3, <2>4
<1>10. ASSUME UNCHANGED <<players, sender>>, Active(r), DisconnectLoad(d) PROVE Excused(d, r)'
  <2>1. players[r][s] = d /\ at[d] = "leftLobby" /\ byConn[d] = None
    BY <1>2, <1>10 DEF DisconnectLoad
  <2>2. CASE phase[r] \in Reading \cup Storing
    <3>1. Made(r)
      BY <2>2 DEF Made, Reading, Storing
    <3>2. Played(d, r)
      BY <2>1, <3>1 DEF Typed, UsedOK, Used, Played
    <3>3. <<d, r>> \in early'
      BY <1>10, <2>2, <3>2 DEF DisconnectLoad
    <3> QED
      BY <3>3 DEF Excused
  <2>3. CASE Live(r)
    <3>1. Routed(d, r)
      BY <2>1, <2>3 DEF IndexedOK, HostIndexed, GuestIndexed
    <3>2. Elsewhere(d, r)
      BY <2>1, <3>1 DEF Routed, Attaching
    <3> QED
      BY <3>2, <1>1, ElsewhereStays DEF Excused
  <2> QED
    BY <2>2, <2>3, <1>10 DEF Active
<1>11. CASE /\ UNCHANGED <<code, players, session, sender, ids>>
            /\ \A q \in Runs : \/ phase'[q] = phase[q]
                               \/ /\ phase[q] \notin {"free"} \cup Reading
                                  /\ phase'[q] \notin {"free"} \cup Reading
  <2>1. Active(r)
    <3>1. CASE phase'[r] = phase[r]
      BY <3>1 DEF Active, Live
    <3>2. CASE phase'[r] # phase[r]
      <4>1. Made(r) /\ phase[r] \notin Reading /\ Made(r)' /\ phase'[r] \notin Reading
        BY <3>2, <1>11 DEF Made
      <4>2. InRuns(r)' \/ phase'[r] = "stored0"
        BY <4>1 DEF Active, Live, InRuns, Storing
      <4>3. InRuns(r) \/ ToStore(r)
        <5>1. \A c \in Conns : StoreRun(c) /\ run[c] = r => ToStore(r)
          BY DEF StoreRun, ToStore, Storing
        <5>2. \A c \in Conns, k \in Codes : ~StartByGuest(c, k, r)
          BY <4>1 DEF StartByGuest, Made
        <5>3. \A c \in Conns : ~(ReadConnID(c) /\ run[c] = r)
          BY <4>1 DEF ReadConnID, Reading
        <5>4. phase'[r] = "stored0" => ToStore(r)'
          BY DEF ToStore, Storing
        <5> QED
          BY <4>2, <5>1, <5>2, <5>3, <5>4, Entering
      <4> QED
        BY <4>3 DEF InRuns, ToStore, Active, Live, Storing, Reading
    <3> QED
      BY <3>1, <3>2
  <2>2. CASE at[d] = "gone"
    BY <2>1, <2>2, <1>3, <1>11
  <2> QED
    BY <2>1, <2>2, <1>9, <1>10, <1>11, Departures
<1> QED
  BY Changes, <1>6, <1>7, <1>8, <1>9, <1>11

-----------------------------------------------------------------------------
(* The theorems *)

LEMMA InitIInv == Init => IInv
<1> SUFFICES ASSUME Init PROVE IInv
  OBVIOUS
<1>1. Typed
  BY InitTyped
<1>2. LocalsOK
  BY DEF Init, LocalsOK, LocalOK, StarterOK, LeaverOK, ReturnerOK, Reconnecting, Starts
<1>3. RoutesToPlayers
  BY DEF Init, RoutesToPlayers
<1>4. IndexedOK
  BY DEF Init, IndexedOK, RunIndexed, InRuns, HostIndexed, GuestIndexed, ToStore, Live, Storing
<1>5. HeardOK
  BY DEF Init, HeardOK, Active, Live, Reading, Storing
<1>6. FinishedOK
  BY DEF Init, FinishedOK
<1> QED
  BY <1>1, <1>2, <1>3, <1>4, <1>5, <1>6 DEF IInv

\* The invariant is inductive: rooms, runs, handlers and indexes agree.
THEOREM InductiveInvariant == Spec => []IInv
<1>1. IInv /\ [Next]_vars => IInv'
  BY TypedStep, LocalsStep, RoutesStep, IndexedStep, HeardStep, FinishedStep DEF IInv
<1> QED
  BY InitIInv, <1>1, PTL DEF Spec

\* Every variable keeps its type, for any number of connections, codes and
\* matches: no handler uses a local run it does not have, and reconnectCh never
\* holds more than its capacity.
THEOREM TypeCorrect == Spec => []TypeOK
<1>1. IInv => TypeOK
  BY DEF IInv, Typed
<1> QED
  BY <1>1, InductiveInvariant, PTL

\* A connection is only ever routed to a match that a slot of has had its
\* ConnID, and an id to a match of that id, whatever handlers, end callbacks and
\* changes of the guest interleave.
THEOREM RoutesArePlayers == Spec => []RoutesToPlayers
<1>1. IInv => RoutesToPlayers
  BY DEF IInv
<1> QED
  BY <1>1, InductiveInvariant, PTL

\* A live match is missing from an index only on account of another match, with
\* the same code or the same player, or of a store that is on its way.
THEOREM LostToAnother == Spec => []LostToAnotherMatch
<1>1. ASSUME IInv PROVE LostToAnotherMatch
  BY <1>1 DEF IInv, IndexedOK, RunIndexed, InRuns, HostIndexed, GuestIndexed, Routed, Elsewhere,
              Live, LostToAnotherMatch, Slots
<1> QED
  BY <1>1, InductiveInvariant, PTL

\* OnDisconnect takes the Sender of who leaves out of his live match, unless he
\* has played another one too, left before StartMatch had stored the match, or
\* the slot has another's ConnID.
THEOREM DisconnectsAreHeard == Spec => []DisconnectsHeard
<1>1. ASSUME IInv PROVE DisconnectsHeard
  <2>1. \A r \in Runs, s \in Slots : sender[r][s] # None => sender[r][s] \in Conns
    BY <1>1 DEF IInv, Typed, TypeOK
  <2> QED
    BY <1>1, <2>1 DEF IInv, HeardOK, Active, Excused, Elsewhere, DisconnectsHeard
<1> QED
  BY <1>1, InductiveInvariant, PTL

\* After the end callback of a match the index holds an entry of a player for it
\* only if a match.reconnect of his has been overtaken by the end.
THEOREM NoRouteLeft == Spec => []NoRouteToFinished
<1>1. ASSUME IInv PROVE NoRouteToFinished
  BY <1>1 DEF IInv, FinishedOK, NoRouteToFinished, Typed, TypeOK
<1> QED
  BY <1>1, InductiveInvariant, PTL

=============================================================================
