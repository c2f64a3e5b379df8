------------------------------- MODULE Lobby -------------------------------
(***************************************************************************)
(* The room manager of backend/internal/lobby, and the start of a match     *)
(* that it calls back.                                                      *)
(*                                                                         *)
(* Every exported method of lobby.Manager runs under Manager.mu, so each is *)
(* one action here, with the messages it sends (BroadcastRoomUpdated,       *)
(* SendRoomCreated, SendRoomError) and its early returns (guards: an error  *)
(* reply changes no room).  The exception is SetReady: it releases the lock *)
(* before it calls onStart, and onStart = matchmgr.StartMatch reads         *)
(* room.Players without any lock, one read per source line.  What runs      *)
(* after the unlock is therefore a sequence of further steps of the same    *)
(* connection, which the other connections interleave with.                 *)
(*                                                                         *)
(* One connection executes its handlers one after the other (wsconn's       *)
(* readLoop), so a connection inside SetReady takes no other action, and    *)
(* its onClose callback runs only once the handler has returned or          *)
(* panicked.                                                                *)
(*                                                                         *)
(* Abstracted: the settings of a room and the wording of its messages.      *)
(* A message is the view of the room it carries; "told" keeps the last one  *)
(* addressed to each connection (it may still be dropped by a full send     *)
(* buffer, which is the connection's business, not the lobby's).            *)
(***************************************************************************)
EXTENDS Naturals, Sequences

CONSTANTS
    Conns,      \* connections; an identifier is random and never reused
    Codes,      \* room codes
    Rooms,      \* identities of Room objects (bounds how many are created)
    Reads,      \* how often StartMatch reads room.Players[1]: 4 times in the
                \* code, for Conn, Conn.ID(), Session.ID and Session.PlayerID
    None,       \* nil
    NoView,     \* no room message received yet
    ClosedView  \* the error room_closed

ASSUME NoneAssumption == /\ None \notin Conns \cup Codes \cup Rooms
                         /\ None # "starting"

ASSUME ReadsAssumption == Reads \in Nat \ {0}

VARIABLES
    registry,   \* Manager.rooms: code -> room, None if absent
    byConn,     \* Manager.byConn: connection -> room, None if absent
    code,       \* Room.Code
    host,       \* Room.Players[0].Conn
    guest,      \* Room.Players[1].Conn, None when the slot is nil
    ready,      \* the connections whose Slot.Ready is set, per room
    status,     \* Room.Status; "free": no such object yet
    told,       \* last room message addressed to each connection since it
                \* last left a room of its own accord
    pc,         \* what the goroutine of each connection is doing
    starting,   \* the room whose onStart a connection is running
    grabbed,    \* what StartMatch has read from room.Players[1] so far
    fired,      \* history: the guest of a room when its onStart fired
    matches     \* matches started: [room, host, guest]

rooms == <<code, host, guest, ready, status>>
threads == <<starting, grabbed, fired, matches>>
vars == <<registry, byConn, rooms, told, pc, threads>>

-----------------------------------------------------------------------------
(* Types. *)

ThreadStates == {"idle", "onStart", "panicked", "detached", "closed"}

View == [room : Rooms, host : Conns, guest : Conns \cup {None},
         ready : SUBSET Conns, status : {"waiting", "starting"}]

ASSUME ViewAssumption == /\ NoView # ClosedView
                         /\ {NoView, ClosedView} \cap View = {}

Match == [room : Rooms, host : Conns, guest : Seq(Conns)]

Registered(r) == /\ status[r] # "free"
                 /\ registry[code[r]] = r

\* The non-nil slots of a room.
Members(r) == {c \in Conns : c = host[r] \/ c = guest[r]}

-----------------------------------------------------------------------------
(* broadcast.go: what the members are told. *)

\* The payload of room.updated for the given room contents.
RoomView(r, h, g, rd, st) ==
    [room |-> r, host |-> h, guest |-> g, ready |-> rd, status |-> st]

\* Every non-nil slot receives the message (Slot.Connected is never false).
BroadcastRoomUpdated(v) ==
    told' = [c \in Conns |-> IF c = v.host \/ c = v.guest THEN v ELSE told[c]]

\* The same, as the member c leaves.
BroadcastWithout(v, c) ==
    told' = [d \in Conns |-> IF d = v.host \/ d = v.guest THEN v
                            ELSE IF d = c THEN NoView ELSE told[d]]

-----------------------------------------------------------------------------
(* manager.go, under Manager.mu *)

Init ==
    /\ registry = [k \in Codes |-> None]
    /\ byConn = [c \in Conns |-> None]
    /\ code = [r \in Rooms |-> None]
    /\ host = [r \in Rooms |-> None]
    /\ guest = [r \in Rooms |-> None]
    /\ ready = [r \in Rooms |-> {}]
    /\ status = [r \in Rooms |-> "free"]
    /\ told = [c \in Conns |-> NoView]
    /\ pc = [c \in Conns |-> "idle"]
    /\ starting = [c \in Conns |-> None]
    /\ grabbed = [c \in Conns |-> <<>>]
    /\ fired = [r \in Rooms |-> None]
    /\ matches = {}

InAnyRoomUnchecked(c) == FALSE

\* The ErrAlreadyInRoom check.
InAnyRoom(c) == byConn[c] # None

\* generateCode draws until the code is not taken; room.created goes to the
\* creator alone.
CreateRoom(c, r, k) ==
    /\ pc[c] = "idle"
    /\ ~InAnyRoom(c)
    /\ status[r] = "free"
    /\ registry[k] = None
    /\ code' = [code EXCEPT ![r] = k]
    /\ host' = [host EXCEPT ![r] = c]
    /\ guest' = [guest EXCEPT ![r] = None]
    /\ ready' = [ready EXCEPT ![r] = {}]
    /\ status' = [status EXCEPT ![r] = "waiting"]
    /\ registry' = [registry EXCEPT ![k] = r]
    /\ byConn' = [byConn EXCEPT ![c] = r]
    /\ BroadcastRoomUpdated(RoomView(r, c, None, {}, "waiting"))
    /\ UNCHANGED <<pc, threads>>

\* Joining does not look at the room's status.
JoinRoom(c, k) ==
    /\ pc[c] = "idle"
    /\ registry[k] # None
    /\ LET r == registry[k] IN
       /\ guest[r] = None
       /\ ~InAnyRoom(c)
       /\ guest' = [guest EXCEPT ![r] = c]
       /\ byConn' = [byConn EXCEPT ![c] = r]
       /\ BroadcastRoomUpdated(RoomView(r, host[r], c, ready[r], status[r]))
    /\ UNCHANGED <<registry, code, host, ready, status, pc, threads>>

ShouldStartAgain(r, rd) == {host[r], guest[r]} \subseteq rd

ShouldStartByOldFlags(r, rd) ==
    /\ status[r] = "waiting"
    /\ {host[r], guest[r]} \subseteq ready[r]

ShouldStart(r, rd) ==
    /\ status[r] = "waiting"
    /\ {host[r], guest[r]} \subseteq rd     \* None is never in rd

\* room.updated is broadcast before the status is set, and onStart is called
\* after the unlock, by this same goroutine.
SetReady(c, b) ==
    /\ pc[c] = "idle"
    /\ byConn[c] # None
    /\ LET r  == byConn[c]
           rd == IF b THEN ready[r] \cup {c} ELSE ready[r] \ {c}
       IN  /\ ready' = [ready EXCEPT ![r] = rd]
           /\ BroadcastRoomUpdated(RoomView(r, host[r], guest[r], rd, status[r]))
           /\ IF ShouldStart(r, rd)
              THEN /\ status' = [status EXCEPT ![r] = "starting"]
                   /\ pc' = [pc EXCEPT ![c] = "onStart"]
                   /\ starting' = [starting EXCEPT ![c] = r]
                   /\ grabbed' = [grabbed EXCEPT ![c] = <<>>]
                   /\ fired' = [fired EXCEPT ![r] = guest[r]]
              ELSE UNCHANGED <<status, pc, starting, grabbed, fired>>
    /\ UNCHANGED <<registry, byConn, code, host, guest, matches>>

HostLeavesSilently(c, r) ==
    /\ registry' = [registry EXCEPT ![code[r]] = None]
    /\ byConn' = [d \in Conns |-> IF d \in {c, guest[r]} THEN None ELSE byConn[d]]
    /\ UNCHANGED <<rooms, told>>

\* The room closes: the guest is told and forgotten.  The Room object keeps
\* its Players, which a StartMatch in progress may still read.
HostLeaves(c, r) ==
    /\ registry' = [registry EXCEPT ![code[r]] = None]
    /\ byConn' = [d \in Conns |-> IF d \in {c, guest[r]} THEN None ELSE byConn[d]]
    /\ told' = [d \in Conns |-> IF d = guest[r] THEN ClosedView
                               ELSE IF d = c THEN NoView ELSE told[d]]
    /\ UNCHANGED rooms

GuestLeavesSilently(c, r) ==
    /\ byConn' = [byConn EXCEPT ![c] = None]
    /\ guest' = [guest EXCEPT ![r] = None]
    /\ ready' = [ready EXCEPT ![r] = @ \ {c}]
    /\ UNCHANGED <<registry, code, host, status, told>>

GuestLeavesAndReopens(c, r) ==
    /\ byConn' = [byConn EXCEPT ![c] = None]
    /\ guest' = [guest EXCEPT ![r] = None]
    /\ ready' = [ready EXCEPT ![r] = @ \ {c}]
    /\ status' = [status EXCEPT ![r] = "waiting"]
    /\ BroadcastWithout(RoomView(r, host[r], None, ready[r] \ {c}, "waiting"), c)
    /\ UNCHANGED <<registry, code, host>>

\* The guest's slot is dropped; the host's ready flag and the room's status
\* stay as they are.
GuestLeaves(c, r) ==
    /\ byConn' = [byConn EXCEPT ![c] = None]
    /\ guest' = [guest EXCEPT ![r] = None]
    /\ ready' = [ready EXCEPT ![r] = @ \ {c}]
    /\ BroadcastWithout(RoomView(r, host[r], None, ready[r] \ {c}, status[r]), c)
    /\ UNCHANGED <<registry, code, host, status>>

\* A connection that is indexed is in one of the two slots (IndexConsistent).
leaveRoomLocked(c) ==
    IF host[byConn[c]] = c
    THEN HostLeaves(c, byConn[c])
    ELSE GuestLeaves(c, byConn[c])

LeaveRoom(c) ==
    /\ pc[c] = "idle"
    /\ byConn[c] # None
    /\ leaveRoomLocked(c)
    /\ UNCHANGED <<pc, threads>>

OnDisconnectOutsideRoomsOnly(c) ==
    /\ pc[c] \in {"idle", "panicked"}
    /\ pc' = [pc EXCEPT ![c] = "detached"]
    /\ UNCHANGED <<registry, byConn, rooms, told, threads>>

\* onClose, run by the deferred function of readLoop: after a read error, or
\* after a handler panicked (net/http recovers the panic of one connection).
OnDisconnect(c) ==
    /\ pc[c] \in {"idle", "panicked"}
    /\ pc' = [pc EXCEPT ![c] = "detached"]
    /\ IF byConn[c] # None
       THEN leaveRoomLocked(c)
       ELSE UNCHANGED <<registry, byConn, rooms, told>>
    /\ UNCHANGED threads

\* close(c.send): from here on SendBytes to this connection panics.
CloseSend(c) ==
    /\ pc[c] = "detached"
    /\ pc' = [pc EXCEPT ![c] = "closed"]
    /\ UNCHANGED <<registry, byConn, rooms, told, threads>>

-----------------------------------------------------------------------------
(* onStart = matchmgr.StartMatch, which holds no lock of the lobby. *)

GuestSlotNilIgnored(r) == FALSE

\* room.Players[1] is nil: the next field access panics.
GuestSlotNil(r) == guest[r] = None

ReadGuest(c) ==
    /\ pc[c] = "onStart"
    /\ Len(grabbed[c]) < Reads
    /\ IF GuestSlotNil(starting[c])
       THEN pc' = [pc EXCEPT ![c] = "panicked"] /\ UNCHANGED grabbed
       ELSE /\ grabbed' = [grabbed EXCEPT ![c] = Append(@, guest[starting[c]])]
            /\ UNCHANGED pc
    /\ UNCHANGED <<registry, byConn, rooms, told, starting, fired, matches>>

StartMatch(c) ==
    /\ pc[c] = "onStart"
    /\ Len(grabbed[c]) = Reads
    /\ matches' = matches \cup {[room |-> starting[c], host |-> host[starting[c]],
                                 guest |-> grabbed[c]]}
    /\ pc' = [pc EXCEPT ![c] = "idle"]
    /\ starting' = [starting EXCEPT ![c] = None]
    /\ grabbed' = [grabbed EXCEPT ![c] = <<>>]
    /\ UNCHANGED <<registry, byConn, rooms, told, fired>>

Next ==
    \E c \in Conns :
        \/ \E r \in Rooms, k \in Codes : CreateRoom(c, r, k)
        \/ \E k \in Codes : JoinRoom(c, k)
        \/ \E b \in BOOLEAN : SetReady(c, b)
        \/ LeaveRoom(c)
        \/ OnDisconnect(c)
        \/ CloseSend(c)
        \/ ReadGuest(c)
        \/ StartMatch(c)

Spec == Init /\ [][Next]_vars

-----------------------------------------------------------------------------
(* Properties. *)

TypeOK ==
    /\ registry \in [Codes -> Rooms \cup {None}]
    /\ byConn \in [Conns -> Rooms \cup {None}]
    /\ code \in [Rooms -> Codes \cup {None}]
    /\ host \in [Rooms -> Conns \cup {None}]
    /\ guest \in [Rooms -> Conns \cup {None}]
    /\ ready \in [Rooms -> SUBSET Conns]
    /\ status \in [Rooms -> {"free", "waiting", "starting"}]
    /\ told \in [Conns -> View \cup {NoView, ClosedView}]
    /\ pc \in [Conns -> ThreadStates]
    /\ starting \in [Conns -> Rooms \cup {None}]
    /\ grabbed \in [Conns -> Seq(Conns)]
    /\ fired \in [Rooms -> Conns \cup {None}]
    /\ matches \in SUBSET Match

\* The two indexes of the Manager and the slots of the rooms agree: a
\* connection is indexed to exactly the registered room it sits in, so that
\* leaveRoomLocked and SetReady, which start from byConn, act on the right
\* room, and nobody sits in two rooms or twice in one.
IndexConsistent ==
    /\ \A k \in Codes : registry[k] # None => /\ Registered(registry[k])
                                              /\ code[registry[k]] = k
    /\ \A c \in Conns, r \in Rooms :
           byConn[c] = r <=> Registered(r) /\ c \in Members(r)
    /\ \A r \in Rooms : Registered(r) => host[r] # guest[r] /\ host[r] # None

\* Whoever a broadcast of the lobby may address has an open send channel: a
\* room never keeps a connection whose onClose has run (SendBytes would panic
\* with Manager.mu held, and no lobby call would ever return again).
RecipientsOpen ==
    \A r \in Rooms : Registered(r) =>
        \A c \in Members(r) : pc[c] \notin {"detached", "closed"}

\* The onStart of a room fires at most once, whatever the order in which its
\* players toggle their flags, leave and rejoin: one run per room, and never a
\* second match for the room of an earlier one.
StartsOnce ==
    /\ \A c, d \in Conns :
           starting[c] # None /\ starting[c] = starting[d] => c = d
    /\ \A m, n \in matches : m.room = n.room => m = n
    /\ \A m \in matches, c \in Conns : starting[c] # m.room

StatusTold(c, r) ==
    \/ told[c].status = status[r]
    \/ /\ told[c].status = "waiting"
       /\ guest[r] = fired[r]
       /\ {host[r], guest[r]} \subseteq ready[r]

\* What the last room message told each member is what the room holds now:
\* every operation that changes who sits in a room or who is ready tells all
\* its members.  The one change nobody is told of is the start: SetReady
\* broadcasts before it sets the status.  So a member may still believe the
\* room is waiting, but only until the next message, which carries the status:
\* as long as the pair that was started sits there with both flags set.
ToldMatchesRoom ==
    \A r \in Rooms : Registered(r) =>
        \A c \in Members(r) :
            /\ told[c] \notin {NoView, ClosedView}
            /\ told[c].room = r
            /\ told[c].host = host[r]
            /\ told[c].guest = guest[r]
            /\ told[c].ready = ready[r]
            /\ StatusTold(c, r)

\* A room that is still waiting never holds two ready players: SetReady starts
\* the first pair of a room with the second flag, in whatever order flags,
\* leaves and joins come before it.  Nothing is claimed of a room that has
\* started: the status never goes back, and a second pair that meets there is
\* ready and has no match.
ReadyPairStarts ==
    \A r \in Rooms :
        Registered(r) /\ status[r] = "waiting" => ~({host[r], guest[r]} \subseteq ready[r])

\* A connection loses its place in a room either by its own leaving (its slot
\* goes) or with the room_closed error as the last thing it is told.
ClosedTold ==
    [][\A c \in Conns, r \in Rooms :
          byConn[c] = r /\ byConn'[c] = None /\ guest[r] = c
          => guest'[r] = None \/ told'[c] = ClosedView]_vars

\* What the rest of the server may rely on: seen by code, the rooms are those
\* of the module Rooms.  In particular nobody gets into two rooms, a room of
\* two starts once, and closing a room frees its code for a fresh one, however
\* the two maps and the slots are updated on the way.
AtCode(f, k) == IF registry[k] = None THEN None ELSE f[registry[k]]

SeatHost == [k \in Codes |-> AtCode(host, k)]
SeatGuest == [k \in Codes |-> AtCode(guest, k)]
SeatStarted == [k \in Codes |-> AtCode(status, k) = "starting"]

Seats == INSTANCE Rooms WITH
             host <- SeatHost, guest <- SeatGuest, started <- SeatStarted

RoomsKept == Seats!RoomsSpec

-----------------------------------------------------------------------------
(* What a comment says, and the code does not do. *)

\* manager.go: "All exported methods are safe for concurrent use."  The
\* onStart that SetReady calls must not read a slot another call has cleared.
ConcurrentUseSafe == \A c \in Conns : pc[c] # "panicked"

=============================================================================
