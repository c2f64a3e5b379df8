-------------------------------- MODULE Rooms --------------------------------
(***************************************************************************)
(* What the lobby promises to the rest of the server: who sits in the room  *)
(* of each code, and whether that room has started.  A player sits in one   *)
(* room at most; a room starts once, with both seats taken; when the host   *)
(* goes the room goes, and its code is free again.                          *)
(*                                                                         *)
(* Lobby implements it (its property RoomsKept), and MatchManager builds on *)
(* it.                                                                      *)
(***************************************************************************)

CONSTANTS
    Conns,      \* connections
    Codes,      \* room codes
    None        \* nobody

ASSUME NobodyAssumption == None \notin Conns

VARIABLES
    host,       \* the host of the room of a code, None when there is no room
    guest,      \* its guest, None when the seat is free
    started     \* whether its onStart has fired

rooms == <<host, guest, started>>

InRoom(c) == \E k \in Codes : c \in {host[k], guest[k]}

RoomsInit ==
    /\ host = [k \in Codes |-> None]
    /\ guest = [k \in Codes |-> None]
    /\ started = [k \in Codes |-> FALSE]

OpenRoom(c, k) ==
    /\ ~InRoom(c)
    /\ host[k] = None
    /\ host' = [host EXCEPT ![k] = c]
    /\ UNCHANGED <<guest, started>>

EnterRoom(c, k) ==
    /\ ~InRoom(c)
    /\ host[k] # None
    /\ guest[k] = None
    /\ guest' = [guest EXCEPT ![k] = c]
    /\ UNCHANGED <<host, started>>

StartRoom(k) ==
    /\ ~started[k]
    /\ host[k] # None
    /\ guest[k] # None
    /\ started' = [started EXCEPT ![k] = TRUE]
    /\ UNCHANGED <<host, guest>>

\* The host's going closes the room.
CloseRoom(k) ==
    /\ host' = [host EXCEPT ![k] = None]
    /\ guest' = [guest EXCEPT ![k] = None]
    /\ started' = [started EXCEPT ![k] = FALSE]

\* The guest's going leaves a room that stays started if it was.
VacateSeat(k) ==
    /\ guest' = [guest EXCEPT ![k] = None]
    /\ UNCHANGED <<host, started>>

QuitRoom(c) ==
    \E k \in Codes : \/ c = host[k] /\ CloseRoom(k)
                     \/ c = guest[k] /\ VacateSeat(k)

RoomsNext ==
    \/ \E c \in Conns, k \in Codes : OpenRoom(c, k) \/ EnterRoom(c, k)
    \/ \E k \in Codes : StartRoom(k)
    \/ \E c \in Conns : QuitRoom(c)

RoomsSpec == RoomsInit /\ [][RoomsNext]_rooms

=============================================================================
