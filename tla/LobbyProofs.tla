---------------------------- MODULE LobbyProofs ----------------------------
(***************************************************************************)
(* Proofs about Lobby, for any number of connections, codes and rooms.     *)
(*                                                                         *)
(* The safety properties are not inductive one by one.  Joining a room     *)
(* keeps host and guest apart only because a host is indexed; the start of *)
(* a room is unique only because the status of a started room never goes   *)
(* back to "waiting".  IInv is their conjunction with those facts.         *)
(***************************************************************************)
EXTENDS Lobby, TLAPS

\* A room that exists has a code and a host, and who is ready sits in it.
RoomOK ==
    \A r \in Rooms : status[r] # "free" => code[r] \in Codes /\ host[r] \in Conns

\* The room of an onStart in progress, or of a match, is "starting" for good.
StartedOK ==
    /\ \A c \in Conns : pc[c] = "onStart" => starting[c] \in Rooms
    /\ \A c \in Conns : starting[c] \in Rooms => status[starting[c]] = "starting"
    /\ \A m \in matches : status[m.room] = "starting"

IInv == TypeOK /\ IndexConsistent /\ RecipientsOpen /\ StartsOnce
        /\ RoomOK /\ StartedOK

-----------------------------------------------------------------------------

LEMMA InitIInv == Init => IInv
  BY NoneAssumption
  DEF Init, IInv, TypeOK, IndexConsistent, RecipientsOpen, StartsOnce, RoomOK,
      StartedOK, Registered, Members, ThreadStates

\* Every operation keeps the types, and the two facts about rooms that exist.
LEMMA TypeStep == IInv /\ [Next]_vars => TypeOK' /\ RoomOK'
<1> SUFFICES ASSUME IInv, [Next]_vars PROVE TypeOK' /\ RoomOK'
  OBVIOUS
<1> USE NoneAssumption DEF IInv, TypeOK, RoomOK
<1>1. ASSUME NEW c \in Conns, NEW r \in Rooms, NEW k \in Codes, CreateRoom(c, r, k)
      PROVE  TypeOK' /\ RoomOK'
  <2>1. RoomView(r, c, None, {}, "waiting") \in View
    BY DEF RoomView, View
  <2> QED
    BY <1>1, <2>1 DEF CreateRoom, BroadcastRoomUpdated, rooms, threads
<1>2. ASSUME NEW c \in Conns, NEW k \in Codes, JoinRoom(c, k)
      PROVE  TypeOK' /\ RoomOK'
  <2> DEFINE r == registry[k]
  <2>1. r \in Rooms /\ status[r] \in {"waiting", "starting"} /\ host[r] \in Conns
    BY <1>2 DEF JoinRoom, IndexConsistent, Registered
  <2>2. RoomView(r, host[r], c, ready[r], status[r]) \in View
    BY <2>1 DEF RoomView, View
  <2> QED
    BY <1>2, <2>1, <2>2 DEF JoinRoom, BroadcastRoomUpdated, threads
<1>3. ASSUME NEW c \in Conns, NEW b \in BOOLEAN, SetReady(c, b)
      PROVE  TypeOK' /\ RoomOK'
  <2> DEFINE r  == byConn[c]
             rd == IF b THEN ready[r] \cup {c} ELSE ready[r] \ {c}
             v  == RoomView(r, host[r], guest[r], rd, status[r])
  <2>1. r \in Rooms /\ status[r] \in {"waiting", "starting"} /\ host[r] \in Conns
    BY <1>3 DEF SetReady, IndexConsistent, Registered
  <2>2. rd \in SUBSET Conns /\ v \in View
    BY <2>1 DEF RoomView, View
  <2>3. ready' = [ready EXCEPT ![r] = rd] /\ BroadcastRoomUpdated(v)
    BY <1>3 DEF SetReady
  <2>4. told' \in [Conns -> View \cup {NoView, ClosedView}]
    BY <2>2, <2>3 DEF BroadcastRoomUpdated
  <2> DEFINE Rest == /\ status' \in [Rooms -> {"free", "waiting", "starting"}]
                     /\ pc' \in [Conns -> ThreadStates]
                     /\ starting' \in [Conns -> Rooms \cup {None}]
                     /\ grabbed' \in [Conns -> Seq(Conns)]
                     /\ fired' \in [Rooms -> Conns \cup {None}]
                     /\ \A q \in Rooms : status'[q] # "free" => status[q] # "free"
  <2>5. ASSUME ShouldStart(r, rd) PROVE Rest
    <3>1. /\ status' = [status EXCEPT ![r] = "starting"]
          /\ pc' = [pc EXCEPT ![c] = "onStart"]
          /\ starting' = [starting EXCEPT ![c] = r]
          /\ grabbed' = [grabbed EXCEPT ![c] = <<>>]
          /\ fired' = [fired EXCEPT ![r] = guest[r]]
      BY <1>3, <2>5 DEF SetReady
    <3> QED
      BY <2>1, <3>1 DEF ThreadStates
  <2>6. ASSUME ~ShouldStart(r, rd) PROVE Rest
    <3>1. UNCHANGED <<status, pc, starting, grabbed, fired>>
      BY <1>3, <2>6 DEF SetReady
    <3> QED
      BY <3>1
  <2>7. ready' \in [Rooms -> SUBSET Conns]
    BY <2>2, <2>3
  <2>8. UNCHANGED <<registry, byConn, code, host, guest, matches>>
    BY <1>3 DEF SetReady
  <2>9. Rest
    BY <2>5, <2>6
  <2> QED
    BY <2>4, <2>7, <2>8, <2>9
<1>4. ASSUME NEW c \in Conns, byConn[c] # None, leaveRoomLocked(c)
      PROVE  /\ registry' \in [Codes -> Rooms \cup {None}]
             /\ byConn' \in [Conns -> Rooms \cup {None}]
             /\ guest' \in [Rooms -> Conns \cup {None}]
             /\ ready' \in [Rooms -> SUBSET Conns]
             /\ told' \in [Conns -> View \cup {NoView, ClosedView}]
             /\ UNCHANGED <<code, host, status>>
  <2> DEFINE r == byConn[c]
             v == RoomView(r, host[r], None, ready[r] \ {c}, status[r])
  <2>1. r \in Rooms /\ status[r] \in {"waiting", "starting"} /\ host[r] \in Conns
    BY <1>4 DEF IndexConsistent, Registered
  <2>2. v \in View
    BY <2>1 DEF RoomView, View
  <2>3. CASE HostLeaves(c, r)
    BY <2>1, <2>3 DEF HostLeaves, rooms
  <2>4. CASE GuestLeaves(c, r)
    BY <2>1, <2>2, <2>4 DEF GuestLeaves, BroadcastWithout
  <2> QED
    BY <1>4, <2>3, <2>4 DEF leaveRoomLocked
<1>5. ASSUME NEW c \in Conns, LeaveRoom(c)
      PROVE  TypeOK' /\ RoomOK'
  BY <1>4, <1>5 DEF LeaveRoom, threads
<1>6. ASSUME NEW c \in Conns, OnDisconnect(c)
      PROVE  TypeOK' /\ RoomOK'
  BY <1>4, <1>6 DEF OnDisconnect, threads, rooms, ThreadStates
<1>7. ASSUME NEW c \in Conns, CloseSend(c)
      PROVE  TypeOK' /\ RoomOK'
  BY <1>7 DEF CloseSend, threads, rooms, ThreadStates
<1>8. ASSUME NEW c \in Conns, ReadGuest(c)
      PROVE  TypeOK' /\ RoomOK'
  <2>1. starting[c] \in Rooms
    BY <1>8 DEF ReadGuest, StartedOK
  <2>2. CASE GuestSlotNil(starting[c])
    <3>1. pc' = [pc EXCEPT ![c] = "panicked"] /\ UNCHANGED grabbed
      BY <1>8, <2>2 DEF ReadGuest
    <3> QED
      BY <1>8, <3>1 DEF ReadGuest, rooms, ThreadStates
  <2>3. CASE ~GuestSlotNil(starting[c])
    <3> DEFINE g == guest[starting[c]]
    <3>1. g \in Conns
      BY <2>1, <2>3 DEF GuestSlotNil
    <3>2. grabbed' = [grabbed EXCEPT ![c] = Append(grabbed[c], g)] /\ UNCHANGED pc
      BY <1>8, <2>3 DEF ReadGuest
    <3>3. Append(grabbed[c], g) \in Seq(Conns)
      BY <3>1
    <3>4. grabbed' \in [Conns -> Seq(Conns)]
      BY <3>2, <3>3
    <3> QED
      BY <1>8, <3>2, <3>4 DEF ReadGuest, rooms
  <2> QED
    BY <2>2, <2>3
<1>9. ASSUME NEW c \in Conns, StartMatch(c)
      PROVE  TypeOK' /\ RoomOK'
  <2>1. starting[c] \in Rooms /\ host[starting[c]] \in Conns
    BY <1>9 DEF StartMatch, StartedOK
  <2>2. matches' \in SUBSET Match
    BY <1>9, <2>1 DEF StartMatch, Match
  <2> QED
    BY <1>9, <2>2 DEF StartMatch, rooms, ThreadStates
<1>10. CASE UNCHANGED vars
  BY <1>10 DEF vars, rooms, threads
<1> QED
  BY <1>1, <1>2, <1>3, <1>5, <1>6, <1>7, <1>8, <1>9, <1>10 DEF Next

-----------------------------------------------------------------------------
(* The indexes and the slots agree, and nobody who has left can be sent to. *)

\* What leaveRoomLocked does to the indexes and the slots.
LEMMA LeaveEffect ==
  ASSUME IInv, NEW c \in Conns, byConn[c] # None, leaveRoomLocked(c)
  PROVE  /\ byConn'[c] = None
         /\ IndexConsistent'
         /\ \A q \in Rooms : Registered(q)' => /\ Registered(q)
                                               /\ Members(q)' = Members(q) \ {c}
<1> DEFINE r == byConn[c]
<1> USE NoneAssumption DEF IInv, TypeOK
<1>1. r \in Rooms /\ Registered(r) /\ c \in Members(r) /\ r = registry[code[r]]
  BY DEF IndexConsistent, Registered
<1>2. CASE host[r] = c
  <2>1. HostLeaves(c, r)
    BY <1>2 DEF leaveRoomLocked
  <2>2. \A d \in Conns : d \in Members(r) <=> d \in {c, guest[r]}
    BY <1>2 DEF Members
  <2>3. \A q \in Rooms : Registered(q)' <=> Registered(q) /\ q # r
    BY <1>1, <2>1 DEF HostLeaves, Registered, rooms, RoomOK
  <2>4. \A q \in Rooms : Members(q)' = Members(q)
    BY <2>1 DEF HostLeaves, Members, rooms
  <2>5. \A q \in Rooms : Registered(q) /\ q # r => c \notin Members(q)
    BY <1>1 DEF IndexConsistent
  <2>6. \A d \in Conns : byConn'[d] = IF d \in Members(r) THEN None ELSE byConn[d]
    BY <2>1, <2>2 DEF HostLeaves
  <2>7. \A d \in Conns, q \in Rooms :
           byConn'[d] = q <=> Registered(q)' /\ d \in Members(q)'
    BY <1>1, <2>3, <2>4, <2>6 DEF IndexConsistent
  <2>8. \A k \in Codes : registry'[k] # None => /\ Registered(registry[k])'
                                                /\ code'[registry'[k]] = k
    BY <1>1, <2>1, <2>3 DEF IndexConsistent, HostLeaves, rooms, Registered
  <2>9. \A q \in Rooms : Registered(q)' => host'[q] # guest'[q] /\ host'[q] # None
    BY <2>1, <2>3 DEF IndexConsistent, HostLeaves, rooms
  <2> QED
    BY <1>1, <2>3, <2>4, <2>5, <2>6, <2>7, <2>8, <2>9 DEF IndexConsistent
<1>3. CASE host[r] # c
  <2>1. GuestLeaves(c, r)
    BY <1>3 DEF leaveRoomLocked
  <2>2. guest[r] = c
    BY <1>1, <1>3 DEF Members
  <2>3. \A q \in Rooms : Registered(q)' <=> Registered(q)
    BY <2>1 DEF GuestLeaves, Registered
  <2>4. \A q \in Rooms : Registered(q) /\ q # r => c \notin Members(q)
    BY <1>1 DEF IndexConsistent
  <2>5. \A q \in Rooms : Registered(q) => Members(q)' = Members(q) \ {c}
    BY <1>1, <1>3, <2>1, <2>2, <2>4 DEF GuestLeaves, Members
  <2>6. \A d \in Conns, q \in Rooms :
           byConn'[d] = q <=> Registered(q)' /\ d \in Members(q)'
    BY <1>1, <2>1, <2>3, <2>5 DEF IndexConsistent, GuestLeaves
  <2> QED
    BY <1>1, <2>1, <2>3, <2>5, <2>6 DEF IndexConsistent, GuestLeaves, Registered
<1> QED
  BY <1>2, <1>3

LEMMA IndexStep == IInv /\ [Next]_vars => IndexConsistent' /\ RecipientsOpen'
<1> SUFFICES ASSUME IInv, [Next]_vars PROVE IndexConsistent' /\ RecipientsOpen'
  OBVIOUS
<1> USE NoneAssumption DEF IInv, TypeOK
<1>1. ASSUME NEW c \in Conns, NEW r \in Rooms, NEW k \in Codes, CreateRoom(c, r, k)
      PROVE  IndexConsistent' /\ RecipientsOpen'
  <2>1. ~Registered(r) /\ \A d \in Conns : byConn[d] # r
    BY <1>1 DEF CreateRoom, Registered, IndexConsistent
  <2>2. \A q \in Rooms : Registered(q)' <=> Registered(q) \/ q = r
    BY <1>1, <2>1 DEF CreateRoom, Registered, RoomOK
  <2>3. \A q \in Rooms : q # r => Members(q)' = Members(q)
    BY <1>1 DEF CreateRoom, Members
  <2>4. Members(r)' = {c}
    BY <1>1 DEF CreateRoom, Members
  <2>5. \A d \in Conns, q \in Rooms :
           byConn'[d] = q <=> Registered(q)' /\ d \in Members(q)'
    <3>1. byConn[c] = None /\ byConn' = [byConn EXCEPT ![c] = r]
      BY <1>1 DEF CreateRoom, InAnyRoom
    <3>3. \A d \in Conns, q \in Rooms :
             byConn[d] = q <=> Registered(q) /\ d \in Members(q)
      BY DEF IndexConsistent
    <3>2. \A q \in Rooms : Registered(q) => c \notin Members(q)
      BY <3>1, <3>3
    <3> SUFFICES ASSUME NEW d \in Conns, NEW q \in Rooms
                 PROVE  byConn'[d] = q <=> Registered(q)' /\ d \in Members(q)'
      OBVIOUS
    <3>4. CASE q = r
      BY <2>1, <2>2, <2>4, <3>1, <3>4
    <3>5. CASE q # r
      BY <2>2, <2>3, <3>1, <3>2, <3>3, <3>5
    <3> QED
      BY <3>4, <3>5
  <2>6. \A j \in Codes : registry'[j] # None => /\ Registered(registry[j])'
                                                /\ code'[registry'[j]] = j
    BY <1>1, <2>1, <2>2 DEF CreateRoom, IndexConsistent
  <2>7. \A q \in Rooms : Registered(q)' => host'[q] # guest'[q] /\ host'[q] # None
    BY <1>1, <2>2 DEF CreateRoom, IndexConsistent
  <2>8. RecipientsOpen'
    <3>1. pc[c] = "idle" /\ UNCHANGED pc
      BY <1>1 DEF CreateRoom
    <3> SUFFICES ASSUME NEW q \in Rooms, Registered(q)', NEW d \in Members(q)'
                 PROVE  pc'[d] \notin {"detached", "closed"}
      BY DEF RecipientsOpen
    <3>2. d = c \/ (Registered(q) /\ d \in Members(q))
      BY <2>2, <2>3, <2>4
    <3> QED
      BY <3>1, <3>2 DEF RecipientsOpen
  <2> QED
    BY <2>5, <2>6, <2>7, <2>8 DEF IndexConsistent
<1>2. ASSUME NEW c \in Conns, NEW k \in Codes, JoinRoom(c, k)
      PROVE  IndexConsistent' /\ RecipientsOpen'
  <2>1. PICK r \in Rooms : r = registry[k] /\ Registered(r) /\ host[r] \in Conns
    BY <1>2 DEF JoinRoom, IndexConsistent, RoomOK, Registered
  <2>2. host[r] # c
    BY <1>2, <2>1 DEF JoinRoom, InAnyRoom, IndexConsistent, Members
  <2>3. \A q \in Rooms : Registered(q)' <=> Registered(q)
    BY <1>2 DEF JoinRoom, Registered
  <2>4. \A q \in Rooms : q # r => Members(q)' = Members(q)
    BY <1>2, <2>1 DEF JoinRoom, Members
  <2>5. Members(r)' = Members(r) \cup {c}
    <3>1. guest[r] = None /\ guest' = [guest EXCEPT ![r] = c] /\ host' = host
      BY <1>2, <2>1 DEF JoinRoom
    <3> QED
      BY <3>1 DEF Members
  <2>6. \A d \in Conns, q \in Rooms :
           byConn'[d] = q <=> Registered(q)' /\ d \in Members(q)'
    <3>1. byConn[c] = None /\ byConn' = [byConn EXCEPT ![c] = r]
      BY <1>2, <2>1 DEF JoinRoom, InAnyRoom
    <3>3. \A d \in Conns, q \in Rooms :
             byConn[d] = q <=> Registered(q) /\ d \in Members(q)
      BY DEF IndexConsistent
    <3>2. \A q \in Rooms : Registered(q) => c \notin Members(q)
      BY <3>1, <3>3
    <3> SUFFICES ASSUME NEW d \in Conns, NEW q \in Rooms
                 PROVE  byConn'[d] = q <=> Registered(q)' /\ d \in Members(q)'
      OBVIOUS
    <3>4. CASE q = r
      BY <2>1, <2>3, <2>5, <3>1, <3>3, <3>4
    <3>5. CASE q # r
      BY <2>1, <2>3, <2>4, <3>1, <3>2, <3>3, <3>5
    <3> QED
      BY <3>4, <3>5
  <2>7. \A q \in Rooms : Registered(q)' => host'[q] # guest'[q] /\ host'[q] # None
    BY <1>2, <2>1, <2>2, <2>3 DEF JoinRoom, IndexConsistent
  <2>8. \A j \in Codes : registry'[j] # None => /\ Registered(registry[j])'
                                                /\ code'[registry'[j]] = j
    BY <1>2, <2>3 DEF JoinRoom, IndexConsistent
  <2>9. RecipientsOpen'
    <3>1. pc[c] = "idle" /\ UNCHANGED pc
      BY <1>2 DEF JoinRoom
    <3> SUFFICES ASSUME NEW q \in Rooms, Registered(q)', NEW d \in Members(q)'
                 PROVE  pc'[d] \notin {"detached", "closed"}
      BY DEF RecipientsOpen
    <3>2. Registered(q) /\ (d \in Members(q) \/ d = c)
      BY <2>3, <2>4, <2>5
    <3> QED
      BY <3>1, <3>2 DEF RecipientsOpen
  <2> QED
    BY <2>6, <2>7, <2>8, <2>9 DEF IndexConsistent
<1>3. ASSUME UNCHANGED <<registry, byConn, code, host, guest>>,
             \A q \in Rooms : status'[q] = "free" <=> status[q] = "free",
             \A d \in Conns : pc'[d] \in {"detached", "closed"}
                              => pc[d] \in {"detached", "closed"}
      PROVE  IndexConsistent' /\ RecipientsOpen'
  <2>1. \A q \in Rooms : /\ Registered(q)' <=> Registered(q)
                         /\ Members(q)' = Members(q)
    BY <1>3 DEF Registered, Members
  <2> QED
    BY <1>3, <2>1 DEF IndexConsistent, RecipientsOpen, Members
<1>4. ASSUME NEW c \in Conns, NEW b \in BOOLEAN, SetReady(c, b)
      PROVE  IndexConsistent' /\ RecipientsOpen'
  <2>1. byConn[c] \in Rooms /\ status[byConn[c]] # "free"
    BY <1>4 DEF SetReady, IndexConsistent, Registered
  <2> QED
    BY <1>3, <1>4, <2>1 DEF SetReady
<1>5. ASSUME NEW c \in Conns, LeaveRoom(c)
      PROVE  IndexConsistent' /\ RecipientsOpen'
  BY <1>5, LeaveEffect DEF LeaveRoom, RecipientsOpen
<1>6. ASSUME NEW c \in Conns, OnDisconnect(c)
      PROVE  IndexConsistent' /\ RecipientsOpen'
  <2>1. \A d \in Conns : d # c => pc'[d] = pc[d]
    BY <1>6 DEF OnDisconnect
  <2>2. CASE byConn[c] # None
    BY <1>6, <2>1, <2>2, LeaveEffect DEF OnDisconnect, RecipientsOpen
  <2>3. CASE byConn[c] = None
    <3>1. \A q \in Rooms : /\ Registered(q)' <=> Registered(q)
                           /\ Members(q)' = Members(q)
      BY <1>6, <2>3 DEF OnDisconnect, Registered, Members, rooms
    <3>2. \A q \in Rooms : Registered(q) => c \notin Members(q)
      BY <2>3 DEF IndexConsistent
    <3> QED
      BY <1>6, <2>1, <2>3, <3>1, <3>2
      DEF OnDisconnect, IndexConsistent, RecipientsOpen, Members, rooms
  <2> QED
    BY <2>2, <2>3
<1>7. ASSUME NEW c \in Conns, CloseSend(c)
      PROVE  IndexConsistent' /\ RecipientsOpen'
  BY <1>3, <1>7 DEF CloseSend, rooms
<1>8. ASSUME NEW c \in Conns, ReadGuest(c)
      PROVE  IndexConsistent' /\ RecipientsOpen'
  BY <1>3, <1>8 DEF ReadGuest, GuestSlotNil, rooms
<1>9. ASSUME NEW c \in Conns, StartMatch(c)
      PROVE  IndexConsistent' /\ RecipientsOpen'
  BY <1>3, <1>9 DEF StartMatch, rooms
<1>10. CASE UNCHANGED vars
  BY <1>3, <1>10 DEF vars, rooms
<1> QED
  BY <1>1, <1>2, <1>4, <1>5, <1>6, <1>7, <1>8, <1>9, <1>10 DEF Next

-----------------------------------------------------------------------------
(* A room starts once. *)

LEMMA StartStep == IInv /\ [Next]_vars => StartsOnce' /\ StartedOK'
<1> SUFFICES ASSUME IInv, [Next]_vars PROVE StartsOnce' /\ StartedOK'
  OBVIOUS
<1> USE NoneAssumption DEF IInv, TypeOK
\* A step that starts no room and ends no start.
<1>1. ASSUME UNCHANGED <<starting, matches>>,
             \A q \in Rooms : status[q] = "starting" => status'[q] = "starting",
             \A d \in Conns : pc'[d] = "onStart" => pc[d] = "onStart"
      PROVE  StartsOnce' /\ StartedOK'
  <2>1. \A m \in matches : m.room \in Rooms
    BY DEF Match
  <2> QED
    BY <1>1, <2>1 DEF StartsOnce, StartedOK
<1>2. ASSUME NEW c \in Conns, NEW r \in Rooms, NEW k \in Codes, CreateRoom(c, r, k)
      PROVE  StartsOnce' /\ StartedOK'
  BY <1>1, <1>2 DEF CreateRoom, threads
<1>3. ASSUME NEW c \in Conns, NEW k \in Codes, JoinRoom(c, k)
      PROVE  StartsOnce' /\ StartedOK'
  BY <1>1, <1>3 DEF JoinRoom, threads
<1>4. ASSUME NEW c \in Conns, NEW b \in BOOLEAN, SetReady(c, b)
      PROVE  StartsOnce' /\ StartedOK'
  <2> DEFINE r  == byConn[c]
             rd == IF b THEN ready[r] \cup {c} ELSE ready[r] \ {c}
  <2>1. r \in Rooms
    BY <1>4 DEF SetReady
  <2>2. CASE ~ShouldStart(r, rd)
    BY <1>1, <1>4, <2>2 DEF SetReady
  <2>3. CASE ShouldStart(r, rd)
    <3>1. /\ status' = [status EXCEPT ![r] = "starting"]
          /\ pc' = [pc EXCEPT ![c] = "onStart"]
          /\ starting' = [starting EXCEPT ![c] = r]
          /\ UNCHANGED matches
      BY <1>4, <2>3 DEF SetReady
    <3>2. status[r] = "waiting"
      BY <2>3 DEF ShouldStart
    <3>3. \A d \in Conns : starting[d] # r
      BY <2>1, <3>2 DEF StartedOK
    <3>4. \A m \in matches : m.room \in Rooms /\ m.room # r
      BY <3>2 DEF StartedOK, Match
    <3>5. StartsOnce'
      BY <2>1, <3>1, <3>3, <3>4 DEF StartsOnce
    <3>6. StartedOK'
      BY <2>1, <3>1, <3>4 DEF StartedOK
    <3> QED
      BY <3>5, <3>6
  <2> QED
    BY <2>2, <2>3
<1>5. ASSUME NEW c \in Conns, LeaveRoom(c)
      PROVE  StartsOnce' /\ StartedOK'
  BY <1>1, <1>5 DEF LeaveRoom, leaveRoomLocked, HostLeaves, GuestLeaves, threads, rooms
<1>6. ASSUME NEW c \in Conns, OnDisconnect(c)
      PROVE  StartsOnce' /\ StartedOK'
  BY <1>1, <1>6
  DEF OnDisconnect, leaveRoomLocked, HostLeaves, GuestLeaves, threads, rooms
<1>7. ASSUME NEW c \in Conns, CloseSend(c)
      PROVE  StartsOnce' /\ StartedOK'
  BY <1>1, <1>7 DEF CloseSend, threads, rooms
<1>8. ASSUME NEW c \in Conns, ReadGuest(c)
      PROVE  StartsOnce' /\ StartedOK'
  BY <1>1, <1>8 DEF ReadGuest, rooms
<1>9. ASSUME NEW c \in Conns, StartMatch(c)
      PROVE  StartsOnce' /\ StartedOK'
  <2> DEFINE r == starting[c]
             m == [room |-> r, host |-> host[r], guest |-> grabbed[c]]
  <2>1. r \in Rooms /\ status[r] = "starting"
    BY <1>9 DEF StartMatch, StartedOK
  <2>2. /\ matches' = matches \cup {m}
        /\ pc' = [pc EXCEPT ![c] = "idle"]
        /\ starting' = [starting EXCEPT ![c] = None]
        /\ UNCHANGED status
    BY <1>9 DEF StartMatch, rooms
  <2>3. m.room = r
    OBVIOUS
  <2>4. \A n \in matches : n.room \in Rooms /\ n.room # r
    BY DEF StartsOnce, Match
  <2>5. \A d \in Conns : d # c => starting[d] # r
    BY <2>1 DEF StartsOnce
  <2>6. StartsOnce'
    <3>1. \A x, y \in Conns :
             starting'[x] # None /\ starting'[x] = starting'[y] => x = y
      BY <2>2 DEF StartsOnce
    <3>2. \A x, y \in matches' : x.room = y.room => x = y
      BY <2>2, <2>3, <2>4 DEF StartsOnce
    <3>3. \A x \in matches', d \in Conns : starting'[d] # x.room
      BY <2>1, <2>2, <2>3, <2>4, <2>5 DEF StartsOnce
    <3> QED
      BY <3>1, <3>2, <3>3 DEF StartsOnce
  <2>7. StartedOK'
    <3>1. \A x \in matches' : status'[x.room] = "starting"
      BY <2>1, <2>2, <2>3 DEF StartedOK
    <3> QED
      BY <2>2, <3>1 DEF StartedOK
  <2> QED
    BY <2>6, <2>7
<1>10. CASE UNCHANGED vars
  BY <1>1, <1>10 DEF vars, rooms, threads
<1> QED
  BY <1>2, <1>3, <1>4, <1>5, <1>6, <1>7, <1>8, <1>9, <1>10 DEF Next

-----------------------------------------------------------------------------
(* The members of a room know what it holds. *)

\* A step leaves what the members of q are told about as it is.
Kept(q) == /\ host'[q] = host[q] /\ guest'[q] = guest[q] /\ ready'[q] = ready[q]
           /\ status'[q] = status[q] /\ fired'[q] = fired[q]

\* Telling the members of r what it holds after the step leaves all members
\* informed, if the other rooms and their members' last messages are unchanged.
LEMMA BroadcastTells ==
  ASSUME ToldMatchesRoom, NEW r \in Rooms,
         \A c \in Members(r)' : /\ told'[c] \in View
                                /\ told'[c].room = r
                                /\ told'[c].host = host'[r]
                                /\ told'[c].guest = guest'[r]
                                /\ told'[c].ready = ready'[r]
                                /\ StatusTold(c, r)',
         \A q \in Rooms : q # r /\ Registered(q)' =>
             /\ Registered(q)
             /\ Kept(q)
             /\ \A c \in Members(q) : told'[c] = told[c]
  PROVE  ToldMatchesRoom'
<1> SUFFICES ASSUME NEW q \in Rooms, Registered(q)', NEW c \in Members(q)'
             PROVE  /\ told'[c] \notin {NoView, ClosedView}
                    /\ told'[c].room = q
                    /\ told'[c].host = host'[q]
                    /\ told'[c].guest = guest'[q]
                    /\ told'[c].ready = ready'[q]
                    /\ StatusTold(c, q)'
  BY DEF ToldMatchesRoom
<1>1. CASE q = r
  BY <1>1, ViewAssumption
<1>2. CASE q # r
  <2>1. Registered(q) /\ c \in Members(q) /\ told'[c] = told[c] /\ Kept(q)
    BY <1>2 DEF Members, Kept
  <2> QED
    BY <1>2, <2>1 DEF ToldMatchesRoom, Kept, StatusTold
<1> QED
  BY <1>1, <1>2

\* Steps that change no room and no view.
LEMMA QuietTells ==
  ASSUME ToldMatchesRoom, UNCHANGED told,
         \A q \in Rooms : Registered(q)' =>
             /\ Registered(q)
             /\ Kept(q)
  PROVE  ToldMatchesRoom'
  BY DEF ToldMatchesRoom, Members, Kept, StatusTold

\* Nobody is a member of two registered rooms.
LEMMA OneRoom ==
  ASSUME IInv, NEW q \in Rooms, NEW r \in Rooms, NEW c \in Conns,
         Registered(q), Registered(r), c \in Members(q), c \in Members(r)
  PROVE  q = r
  BY DEF IInv, IndexConsistent

LEMMA LeaveTells ==
  ASSUME IInv, ToldMatchesRoom, NEW c \in Conns, byConn[c] # None,
         leaveRoomLocked(c), UNCHANGED fired
  PROVE  ToldMatchesRoom'
<1> USE NoneAssumption DEF IInv, TypeOK
<1>1. PICK r \in Rooms : r = byConn[c] /\ Registered(r) /\ c \in Members(r)
  BY DEF IndexConsistent
<1>2. /\ IndexConsistent'
      /\ \A q \in Rooms : Registered(q)' => /\ Registered(q)
                                            /\ Members(q)' = Members(q) \ {c}
  BY LeaveEffect
<1>3. CASE host[r] = c
  <2>1. HostLeaves(c, r)
    BY <1>1, <1>3 DEF leaveRoomLocked
  <2>2. ~Registered(r)'
    BY <1>1, <2>1 DEF HostLeaves, Registered, rooms, RoomOK
  <2>3. \A q \in Rooms : Registered(q)' => q # r /\ Registered(q)
    BY <1>2, <2>2
  <2>4. \A q \in Rooms : Registered(q)' =>
            \A d \in Members(q) : d # c /\ d # guest[r] /\ told'[d] = told[d]
    <3> SUFFICES ASSUME NEW q \in Rooms, Registered(q)', NEW d \in Members(q)
                 PROVE  d # c /\ d # guest[r] /\ told'[d] = told[d]
      OBVIOUS
    <3>1. d \in Conns /\ d \notin Members(r)
      BY <1>1, <2>3, OneRoom DEF Members
    <3>2. d # c /\ d # guest[r]
      BY <1>1, <3>1 DEF Members
    <3> QED
      BY <2>1, <3>1, <3>2 DEF HostLeaves
  <2>5. UNCHANGED <<host, guest, ready, status, fired>>
    BY <2>1 DEF HostLeaves, rooms
  <2> QED
    BY <2>3, <2>4, <2>5 DEF ToldMatchesRoom, Members, StatusTold
<1>4. CASE host[r] # c
  <2> DEFINE v == RoomView(r, host[r], None, ready[r] \ {c}, status[r])
  <2>1. GuestLeaves(c, r)
    BY <1>1, <1>4 DEF leaveRoomLocked
  <2>2. v \in View /\ v.room = r /\ v.host = host[r] /\ v.guest = None
        /\ v.ready = ready[r] \ {c} /\ v.status = status[r]
    BY <1>1 DEF RoomView, View, Registered, RoomOK
  <2>3. host' = host /\ guest' = [guest EXCEPT ![r] = None]
        /\ ready' = [ready EXCEPT ![r] = ready[r] \ {c}]
        /\ UNCHANGED <<status, fired>>
    BY <2>1 DEF GuestLeaves
  <2>4. \A d \in Members(r)' : told'[d] = v
    BY <2>1, <2>2, <2>3 DEF GuestLeaves, BroadcastWithout, Members
  <2>5. \A q \in Rooms : q # r /\ Registered(q)' =>
            \A d \in Members(q) : told'[d] = told[d]
    <3> SUFFICES ASSUME NEW q \in Rooms, q # r, Registered(q)', NEW d \in Members(q)
                 PROVE  told'[d] = told[d]
      OBVIOUS
    <3>1. d \in Conns /\ d \notin Members(r)
      BY <1>1, <1>2, OneRoom DEF Members
    <3>2. d # c /\ d # host[r] /\ d # None
      BY <1>1, <3>1 DEF Members
    <3> QED
      BY <2>1, <2>2, <3>1, <3>2 DEF GuestLeaves, BroadcastWithout
  <2>6. \A q \in Rooms : q # r /\ Registered(q)' =>
            /\ Registered(q)
            /\ Kept(q)
            /\ \A d \in Members(q) : told'[d] = told[d]
    BY <1>2, <2>3, <2>5 DEF Kept
  <2>7. v.host = host'[r] /\ v.guest = guest'[r] /\ v.ready = ready'[r]
        /\ v.status = status'[r]
    BY <2>2, <2>3
  <2> HIDE DEF v
  <2>8. \A d \in Members(r)' : /\ told'[d] \in View
                                /\ told'[d].room = r
                                /\ told'[d].host = host'[r]
                                /\ told'[d].guest = guest'[r]
                                /\ told'[d].ready = ready'[r]
                                /\ StatusTold(d, r)'
    BY <2>2, <2>4, <2>7 DEF StatusTold
  <2> HIDE DEF IInv, TypeOK
  <2> QED
    BY <1>1, <2>6, <2>8, BroadcastTells
<1> QED
  BY <1>3, <1>4

LEMMA ToldStep == IInv /\ ToldMatchesRoom /\ [Next]_vars => ToldMatchesRoom'
<1> SUFFICES ASSUME IInv, ToldMatchesRoom, [Next]_vars PROVE ToldMatchesRoom'
  OBVIOUS
<1> USE NoneAssumption DEF IInv, TypeOK
<1>1. ASSUME NEW c \in Conns, NEW r \in Rooms, NEW k \in Codes, CreateRoom(c, r, k)
      PROVE  ToldMatchesRoom'
  <2> DEFINE v == RoomView(r, c, None, {}, "waiting")
  <2>1. v \in View /\ v.room = r /\ v.host = c /\ v.guest = None /\ v.ready = {}
        /\ v.status = "waiting"
    BY DEF RoomView, View
  <2>2. status'[r] = "waiting" /\ host'[r] = c /\ guest'[r] = None /\ ready'[r] = {} /\ byConn[c] = None
        /\ told' = [d \in Conns |-> IF d = v.host \/ d = v.guest THEN v ELSE told[d]]
    BY <1>1 DEF CreateRoom, BroadcastRoomUpdated, InAnyRoom
  <2>3. \A d \in Members(r)' : told'[d] = v
    BY <2>1, <2>2 DEF Members
  <2>4. \A q \in Rooms : q # r /\ Registered(q)' =>
            /\ Registered(q)
            /\ Kept(q)
    BY <1>1 DEF CreateRoom, Registered, RoomOK, Kept, threads
  <2>5. \A q \in Rooms : Registered(q) => \A d \in Members(q) : told'[d] = told[d]
    <3>1. \A q \in Rooms : Registered(q) => c \notin Members(q)
      BY <2>2 DEF IndexConsistent
    <3> QED
      BY <2>1, <2>2, <3>1 DEF Members
  <2> HIDE DEF v, IInv, TypeOK
  <2>6. \A d \in Members(r)' : /\ told'[d] \in View
                                /\ told'[d].room = r
                                /\ told'[d].host = host'[r]
                                /\ told'[d].guest = guest'[r]
                                /\ told'[d].ready = ready'[r]
                                /\ StatusTold(d, r)'
    BY <2>1, <2>2, <2>3 DEF StatusTold
  <2> QED
    BY <2>6, <2>4, <2>5, BroadcastTells
<1>2. ASSUME NEW c \in Conns, NEW k \in Codes, JoinRoom(c, k)
      PROVE  ToldMatchesRoom'
  <2>1. PICK r \in Rooms : r = registry[k] /\ Registered(r) /\ host[r] \in Conns
    BY <1>2 DEF JoinRoom, IndexConsistent, RoomOK, Registered
  <2> DEFINE v == RoomView(r, host[r], c, ready[r], status[r])
  <2>2. v \in View /\ v.room = r /\ v.host = host[r] /\ v.guest = c
        /\ v.ready = ready[r] /\ v.status = status[r]
    BY <2>1 DEF RoomView, View, Registered
  <2>3. /\ UNCHANGED <<registry, code, status, host, ready, fired>>
        /\ guest' = [guest EXCEPT ![r] = c]
        /\ byConn[c] = None
        /\ told' = [d \in Conns |-> IF d = v.host \/ d = v.guest THEN v ELSE told[d]]
    BY <1>2, <2>1 DEF JoinRoom, BroadcastRoomUpdated, InAnyRoom, threads
  <2>4. \A d \in Members(r)' : told'[d] = v
    BY <2>2, <2>3 DEF Members
  <2>5. \A q \in Rooms : q # r /\ Registered(q)' =>
            /\ Registered(q)
            /\ Kept(q)
            /\ \A d \in Members(q) : told'[d] = told[d]
    <3> SUFFICES ASSUME NEW q \in Rooms, q # r, Registered(q)'
                 PROVE  /\ Registered(q)
                        /\ \A d \in Members(q) : told'[d] = told[d]
      BY <2>3 DEF Kept
    <3>1. Registered(q)
      BY <2>3 DEF Registered
    <3>2. c \notin Members(q)
      BY <2>3, <3>1 DEF IndexConsistent
    <3>3. host[r] \in Members(r)
      BY <2>1 DEF Members
    <3>4. host[r] \notin Members(q)
      BY <2>1, <3>1, <3>3, OneRoom
    <3> QED
      BY <2>2, <2>3, <3>1, <3>2, <3>4 DEF Members
  <2>6. v.host = host'[r] /\ v.guest = guest'[r] /\ v.ready = ready'[r]
        /\ v.status = status'[r]
    BY <2>2, <2>3
  <2> HIDE DEF v, IInv, TypeOK
  <2>7. \A d \in Members(r)' : /\ told'[d] \in View
                                /\ told'[d].room = r
                                /\ told'[d].host = host'[r]
                                /\ told'[d].guest = guest'[r]
                                /\ told'[d].ready = ready'[r]
                                /\ StatusTold(d, r)'
    BY <2>2, <2>4, <2>6 DEF StatusTold
  <2> QED
    BY <2>7, <2>5, BroadcastTells
<1>3. ASSUME NEW c \in Conns, NEW b \in BOOLEAN, SetReady(c, b)
      PROVE  ToldMatchesRoom'
  <2>1. PICK r \in Rooms : r = byConn[c] /\ Registered(r) /\ host[r] \in Conns
    BY <1>3 DEF SetReady, IndexConsistent, RoomOK, Registered
  <2> DEFINE rd == IF b THEN ready[r] \cup {c} ELSE ready[r] \ {c}
             v  == RoomView(r, host[r], guest[r], rd, status[r])
  <2>2. v \in View /\ v.room = r /\ v.host = host[r] /\ v.guest = guest[r]
        /\ v.ready = rd /\ v.status = status[r]
    BY <2>1 DEF RoomView, View, Registered
  <2>3. /\ UNCHANGED <<registry, code, host, guest>>
        /\ ready' = [ready EXCEPT ![r] = rd]
        /\ told' = [d \in Conns |-> IF d = v.host \/ d = v.guest THEN v ELSE told[d]]
        /\ \A q \in Rooms : q # r => status'[q] = status[q] /\ fired'[q] = fired[q]
    BY <1>3, <2>1 DEF SetReady, BroadcastRoomUpdated
  <2>4. \A d \in Members(r)' : told'[d] = v
    BY <2>2, <2>3 DEF Members
  <2>5. \A q \in Rooms : q # r /\ Registered(q)' =>
            /\ Registered(q)
            /\ Kept(q)
            /\ \A d \in Members(q) : told'[d] = told[d]
    <3> SUFFICES ASSUME NEW q \in Rooms, q # r, Registered(q)'
                 PROVE  /\ Registered(q)
                        /\ \A d \in Members(q) : told'[d] = told[d]
      BY <2>3 DEF Kept
    <3>1. Registered(q)
      BY <2>3 DEF Registered
    <3> SUFFICES ASSUME NEW d \in Members(q) PROVE told'[d] = told[d]
      BY <3>1
    <3>2. d \in Conns /\ d \notin Members(r)
      BY <2>1, <3>1, OneRoom DEF Members
    <3> QED
      BY <2>2, <2>3, <3>2 DEF Members
  <2>6. v.host = host'[r] /\ v.guest = guest'[r] /\ v.ready = ready'[r]
    BY <2>2, <2>3
  <2>9. \/ v.status = status'[r]
        \/ /\ v.status = "waiting"
           /\ guest'[r] = fired'[r]
           /\ {host'[r], guest'[r]} \subseteq ready'[r]
    <3>1. CASE ShouldStart(r, rd)
      BY <1>3, <2>1, <2>2, <2>3, <3>1 DEF SetReady, ShouldStart
    <3>2. CASE ~ShouldStart(r, rd)
      BY <1>3, <2>1, <2>2, <3>2 DEF SetReady
    <3> QED
      BY <3>1, <3>2
  <2> HIDE DEF v, IInv, TypeOK
  <2>7. \A d \in Members(r)' : /\ told'[d] \in View
                                /\ told'[d].room = r
                                /\ told'[d].host = host'[r]
                                /\ told'[d].guest = guest'[r]
                                /\ told'[d].ready = ready'[r]
                                /\ StatusTold(d, r)'
    BY <2>2, <2>4, <2>6, <2>9 DEF StatusTold
  <2> QED
    BY <2>7, <2>5, BroadcastTells
<1>4. ASSUME NEW c \in Conns, LeaveRoom(c)
      PROVE  ToldMatchesRoom'
  BY <1>4, LeaveTells DEF LeaveRoom, threads
<1>5. ASSUME UNCHANGED <<registry, rooms, told, fired>>
      PROVE  ToldMatchesRoom'
  BY <1>5, QuietTells DEF rooms, Registered, Kept
<1>6. ASSUME NEW c \in Conns, OnDisconnect(c)
      PROVE  ToldMatchesRoom'
  BY <1>5, <1>6, LeaveTells DEF OnDisconnect, threads
<1>7. ASSUME NEW c \in Conns, CloseSend(c) \/ ReadGuest(c) \/ StartMatch(c)
      PROVE  ToldMatchesRoom'
  BY <1>5, <1>7 DEF CloseSend, ReadGuest, StartMatch, threads
<1>8. CASE UNCHANGED vars
  BY <1>5, <1>8 DEF vars, threads
<1> QED
  BY <1>1, <1>2, <1>3, <1>4, <1>6, <1>7, <1>8 DEF Next

-----------------------------------------------------------------------------

LEMMA InductiveInvariant == Spec => []IInv
<1>1. IInv /\ [Next]_vars => IInv'
  BY TypeStep, IndexStep, StartStep DEF IInv
<1> QED
  BY InitIInv, <1>1, PTL DEF Spec

\* The variables keep their types (the fields of lobby.Manager and lobby.Room).
THEOREM TypeCorrect == Spec => []TypeOK
  BY InductiveInvariant, PTL DEF IInv

\* Manager.rooms, Manager.byConn and the slots of the rooms always agree.
THEOREM IndexesAgree == Spec => []IndexConsistent
  BY InductiveInvariant, PTL DEF IInv

\* Nobody a room message can be addressed to has a closed send channel, so the
\* lobby never panics with its mutex held.
THEOREM NoSendToClosed == Spec => []RecipientsOpen
  BY InductiveInvariant, PTL DEF IInv

\* onStart fires at most once per room.
THEOREM RoomStartsOnce == Spec => []StartsOnce
  BY InductiveInvariant, PTL DEF IInv

\* Every member's last room message shows the room's present players and flags,
\* and its status except that the start itself is not told (SetReady broadcasts
\* first): until the next message of the room a member may read "waiting".
THEOREM MembersAreTold == Spec => []ToldMatchesRoom
<1>1. Init => ToldMatchesRoom
  <2>1. Init => \A r \in Rooms : ~Registered(r)
    BY DEF Init, Registered
  <2> QED
    BY <2>1 DEF ToldMatchesRoom
<1> QED
  BY InductiveInvariant, <1>1, ToldStep, PTL DEF Spec

\* A guest whose room is closed under it has been told so.
THEOREM ClosingIsTold == Spec => ClosedTold
<1> DEFINE Told == \A c \in Conns, r \in Rooms :
                      byConn[c] = r /\ byConn'[c] = None /\ guest[r] = c
                      => guest'[r] = None \/ told'[c] = ClosedView
<1>1. IInv /\ [Next]_vars => Told
  <2> SUFFICES ASSUME IInv, [Next]_vars, NEW c \in Conns, NEW r \in Rooms,
                      byConn[c] = r, byConn'[c] = None, guest[r] = c
               PROVE  guest'[r] = None \/ told'[c] = ClosedView
    OBVIOUS
  <2> USE NoneAssumption DEF IInv, TypeOK
  <2>1. PICK d \in Conns : byConn[d] # None /\ leaveRoomLocked(d)
    <3>1. ASSUME NEW d \in Conns, NEW q \in Rooms, NEW k \in Codes,
                 CreateRoom(d, q, k)
          PROVE  FALSE
      BY <3>1 DEF CreateRoom
    <3>2. ASSUME NEW d \in Conns, NEW k \in Codes, JoinRoom(d, k) PROVE FALSE
      BY <3>2 DEF JoinRoom
    <3>3. UNCHANGED byConn => FALSE
      OBVIOUS
    <3> QED
      BY <3>1, <3>2, <3>3
      DEF Next, SetReady, LeaveRoom, OnDisconnect, CloseSend, ReadGuest, StartMatch,
          vars
  <2>2. CASE HostLeaves(d, byConn[d])
    <3>1. host[byConn[d]] = d \/ d = c
      BY <2>1, <2>2 DEF leaveRoomLocked, GuestLeaves, IndexConsistent, Members
    <3> QED
      BY <2>1, <2>2, <3>1 DEF HostLeaves, IndexConsistent, Members
  <2>3. CASE GuestLeaves(d, byConn[d])
    BY <2>1, <2>3 DEF GuestLeaves, IndexConsistent
  <2> QED
    BY <2>1, <2>2, <2>3 DEF leaveRoomLocked
<1>2. IInv /\ [Next]_vars => [Told]_vars
  BY <1>1
<1> QED
  BY InductiveInvariant, <1>2, PTL DEF Spec, ClosedTold

-----------------------------------------------------------------------------
(* The refinement: Lobby implements Rooms. *)

\* What the index says of a code that is taken, and of a connection in a room.
LEMMA SeatFacts ==
    ASSUME IInv
    PROVE  /\ \A k \in Codes : registry[k] # None =>
                  /\ registry[k] \in Rooms
                  /\ code[registry[k]] = k
                  /\ status[registry[k]] \in {"waiting", "starting"}
                  /\ host[registry[k]] \in Conns
                  /\ \A c \in Conns : c \in {host[registry[k]], guest[registry[k]]}
                                      => byConn[c] = registry[k]
           /\ \A c \in Conns : byConn[c] # None =>
                  /\ byConn[c] \in Rooms
                  /\ code[byConn[c]] \in Codes
                  /\ registry[code[byConn[c]]] = byConn[c]
                  /\ c \in {host[byConn[c]], guest[byConn[c]]}
<1> USE NoneAssumption DEF IInv, TypeOK
<1>1. ASSUME NEW k \in Codes, registry[k] # None
      PROVE  /\ registry[k] \in Rooms
             /\ code[registry[k]] = k
             /\ status[registry[k]] \in {"waiting", "starting"}
             /\ host[registry[k]] \in Conns
             /\ \A c \in Conns : c \in {host[registry[k]], guest[registry[k]]}
                                 => byConn[c] = registry[k]
  <2>1. registry[k] \in Rooms /\ Registered(registry[k]) /\ code[registry[k]] = k
    BY <1>1 DEF IndexConsistent
  <2> QED
    BY <2>1 DEF IndexConsistent, Members, Registered
<1>2. ASSUME NEW c \in Conns, byConn[c] # None
      PROVE  /\ byConn[c] \in Rooms
             /\ code[byConn[c]] \in Codes
             /\ registry[code[byConn[c]]] = byConn[c]
             /\ c \in {host[byConn[c]], guest[byConn[c]]}
  <2>1. byConn[c] \in Rooms /\ Registered(byConn[c]) /\ c \in Members(byConn[c])
    BY <1>2 DEF IndexConsistent
  <2> QED
    BY <2>1 DEF Members, Registered, RoomOK
<1> QED
  BY <1>1, <1>2

\* A connection without a room sits nowhere.
LEMMA Outside ==
    ASSUME IInv, NEW c \in Conns, byConn[c] = None
    PROVE  ~Seats!InRoom(c)
  BY SeatFacts, NoneAssumption DEF Seats!InRoom, SeatHost, SeatGuest, AtCode

\* A step that leaves the maps and the rooms alone leaves the seats alone.
LEMMA SeatsQuiet ==
    ASSUME UNCHANGED <<registry, host, guest, status>>
    PROVE  UNCHANGED Seats!rooms
  BY DEF Seats!rooms, SeatHost, SeatGuest, SeatStarted, AtCode

LEMMA SeatsCreate ==
    ASSUME IInv, NEW c \in Conns, NEW r \in Rooms, NEW k \in Codes, CreateRoom(c, r, k)
    PROVE  Seats!OpenRoom(c, k)
<1> USE NoneAssumption DEF IInv, TypeOK
<1>1. ~Seats!InRoom(c)
  BY Outside DEF CreateRoom, InAnyRoom
<1>2. \A q \in Codes : registry[q] # None => registry[q] # r
  BY SeatFacts DEF CreateRoom
<1>3. \A q \in Codes : registry'[q] = IF q = k THEN r ELSE registry[q]
  BY DEF CreateRoom
<1>4. SeatHost' = [SeatHost EXCEPT ![k] = c]
  BY <1>2, <1>3 DEF CreateRoom, SeatHost, AtCode
<1>5. SeatGuest' = SeatGuest
  BY <1>2, <1>3 DEF CreateRoom, SeatGuest, AtCode
<1>6. SeatStarted' = SeatStarted
  BY <1>2, <1>3 DEF CreateRoom, SeatStarted, AtCode
<1>7. SeatHost[k] = None
  BY DEF CreateRoom, SeatHost, AtCode
<1> QED
  BY <1>1, <1>4, <1>5, <1>6, <1>7 DEF Seats!OpenRoom

LEMMA SeatsJoin ==
    ASSUME IInv, NEW c \in Conns, NEW k \in Codes, JoinRoom(c, k)
    PROVE  Seats!EnterRoom(c, k)
<1> USE NoneAssumption DEF IInv, TypeOK
<1>1. ~Seats!InRoom(c)
  BY Outside DEF JoinRoom, InAnyRoom
<1>2. \A q \in Codes : registry[q] = registry[k] => q = k
  BY SeatFacts DEF JoinRoom
<1>3. SeatGuest' = [SeatGuest EXCEPT ![k] = c]
  <2>1. registry[k] \in Rooms /\ \A q \in Codes : registry[q] \in Rooms \cup {None}
    BY SeatFacts DEF JoinRoom
  <2>2. registry' = registry /\ guest' = [guest EXCEPT ![registry[k]] = c]
    BY DEF JoinRoom
  <2>3. \A q \in Codes : AtCode(guest, q)' = IF q = k THEN c ELSE AtCode(guest, q)
    BY <1>2, <2>1, <2>2 DEF AtCode
  <2> QED
    BY <2>3 DEF SeatGuest
<1>4. UNCHANGED <<SeatHost, SeatStarted>>
  BY DEF JoinRoom, SeatHost, SeatStarted, AtCode
<1>5. SeatHost[k] # None /\ SeatGuest[k] = None
  BY SeatFacts DEF JoinRoom, SeatHost, SeatGuest, AtCode
<1> QED
  BY <1>1, <1>3, <1>4, <1>5 DEF Seats!EnterRoom

LEMMA SeatsReady ==
    ASSUME IInv, NEW c \in Conns, NEW b \in BOOLEAN, SetReady(c, b)
    PROVE  UNCHANGED Seats!rooms \/ \E k \in Codes : Seats!StartRoom(k)
<1> USE NoneAssumption DEF IInv, TypeOK
<1> DEFINE r == byConn[c]
           k == code[r]
<1>1. r \in Rooms /\ k \in Codes /\ registry[k] = r /\ host[r] \in Conns
  BY SeatFacts DEF SetReady
<1>2. UNCHANGED <<registry, host, guest>>
  BY DEF SetReady
<1>3. CASE status' = status
  BY <1>2, <1>3, SeatsQuiet
<1>4. CASE status' # status
  <2>1. /\ status[r] = "waiting" /\ status' = [status EXCEPT ![r] = "starting"]
        /\ guest[r] # None
    <3> DEFINE rd == IF b THEN ready[r] \cup {c} ELSE ready[r] \ {c}
    <3>1. IF ShouldStart(r, rd) THEN status' = [status EXCEPT ![r] = "starting"]
                                ELSE status' = status
      BY DEF SetReady
    <3>2. c # None /\ None \notin ready[r] /\ None \notin rd
      BY <1>1
    <3> HIDE DEF rd, r
    <3>3. ShouldStart(r, rd) /\ status' = [status EXCEPT ![r] = "starting"]
      BY <3>1, <1>4
    <3> QED
      BY <3>2, <3>3 DEF ShouldStart
  <2>2. \A q \in Codes : registry[q] = r => q = k
    BY SeatFacts, <1>1
  <2>3. SeatStarted' = [SeatStarted EXCEPT ![k] = TRUE]
    <3> HIDE DEF r, k
    <3>1. ASSUME NEW q \in Codes
          PROVE  AtCode(status, q)' = IF q = k THEN "starting" ELSE AtCode(status, q)
      <4>1. CASE q = k
        BY <4>1, <1>1, <1>2, <2>1 DEF AtCode
      <4>2. CASE q # k
        BY <4>2, <1>1, <1>2, <2>1, <2>2 DEF AtCode
      <4> QED
        BY <4>1, <4>2
    <3>2. SeatStarted' = [q \in Codes |-> (AtCode(status, q) = "starting") \/ q = k]
      BY <3>1 DEF SeatStarted
    <3> QED
      BY <1>1, <3>2 DEF SeatStarted
  <2>4. UNCHANGED <<SeatHost, SeatGuest>>
    BY <1>2 DEF SeatHost, SeatGuest, AtCode
  <2>5. ~SeatStarted[k] /\ SeatHost[k] # None /\ SeatGuest[k] # None
    <3> HIDE DEF r, k
    <3>1. registry[k] # None
      BY <1>1
    <3>2. AtCode(status, k) = status[r] /\ AtCode(host, k) = host[r]
          /\ AtCode(guest, k) = guest[r]
      BY <1>1, <3>1 DEF AtCode
    <3>3. SeatHost[k] = host[r] /\ SeatGuest[k] = guest[r]
      BY <1>1, <3>2 DEF SeatHost, SeatGuest
    <3>4. ~SeatStarted[k]
      BY <1>1, <2>1, <3>2 DEF SeatStarted
    <3> QED
      BY <1>1, <2>1, <3>3, <3>4
  <2>6. Seats!StartRoom(k)
    BY <2>3, <2>4, <2>5 DEF Seats!StartRoom
  <2> QED
    BY <1>1, <2>6
<1> QED
  BY <1>3, <1>4

LEMMA SeatsLeave ==
    ASSUME IInv, NEW c \in Conns, byConn[c] # None, leaveRoomLocked(c)
    PROVE  Seats!QuitRoom(c)
<1> USE NoneAssumption DEF IInv, TypeOK
<1> DEFINE r == byConn[c]
           k == code[r]
<1>1. r \in Rooms /\ k \in Codes /\ registry[k] = r /\ c \in {host[r], guest[r]}
  BY SeatFacts
<1>2. \A q \in Codes : registry[q] = r => q = k
  BY SeatFacts, <1>1
<1>3. CASE host[r] = c
  <2>1. HostLeaves(c, r)
    BY <1>3 DEF leaveRoomLocked
  <2>2. \A q \in Codes : registry'[q] = IF q = k THEN None ELSE registry[q]
    BY <1>1, <2>1 DEF HostLeaves
  <2>3. UNCHANGED <<host, guest, status>>
    BY <2>1 DEF HostLeaves, rooms
  <2>4. SeatHost' = [SeatHost EXCEPT ![k] = None]
    BY <1>1, <2>2, <2>3 DEF SeatHost, AtCode
  <2>5. SeatGuest' = [SeatGuest EXCEPT ![k] = None]
    BY <1>1, <2>2, <2>3 DEF SeatGuest, AtCode
  <2>6. SeatStarted' = [SeatStarted EXCEPT ![k] = FALSE]
    BY <1>1, <2>2, <2>3 DEF SeatStarted, AtCode
  <2>7. SeatHost[k] = c
    BY <1>1, <1>3 DEF SeatHost, AtCode
  <2> QED
    BY <1>1, <2>4, <2>5, <2>6, <2>7 DEF Seats!QuitRoom, Seats!CloseRoom
<1>4. CASE host[r] # c
  <2>1. GuestLeaves(c, r) /\ guest[r] = c
    BY <1>1, <1>4 DEF leaveRoomLocked
  <2>2. SeatGuest' = [SeatGuest EXCEPT ![k] = None]
    BY <1>1, <1>2, <2>1 DEF GuestLeaves, SeatGuest, AtCode
  <2>3. UNCHANGED <<SeatHost, SeatStarted>>
    BY <2>1 DEF GuestLeaves, SeatHost, SeatStarted, AtCode
  <2>4. SeatGuest[k] = c
    BY <1>1, <2>1 DEF SeatGuest, AtCode
  <2> QED
    BY <1>1, <2>2, <2>3, <2>4 DEF Seats!QuitRoom, Seats!VacateSeat
<1> QED
  BY <1>3, <1>4

LEMMA SeatsStep == IInv /\ [Next]_vars => [Seats!RoomsNext]_(Seats!rooms)
<1> SUFFICES ASSUME IInv, [Next]_vars
             PROVE  UNCHANGED Seats!rooms \/ Seats!RoomsNext
  OBVIOUS
<1>1. ASSUME NEW c \in Conns, NEW r \in Rooms, NEW k \in Codes, CreateRoom(c, r, k)
      PROVE  Seats!RoomsNext
  BY <1>1, SeatsCreate DEF Seats!RoomsNext
<1>2. ASSUME NEW c \in Conns, NEW k \in Codes, JoinRoom(c, k) PROVE Seats!RoomsNext
  BY <1>2, SeatsJoin DEF Seats!RoomsNext
<1>3. ASSUME NEW c \in Conns, NEW b \in BOOLEAN, SetReady(c, b)
      PROVE  UNCHANGED Seats!rooms \/ Seats!RoomsNext
  BY <1>3, SeatsReady DEF Seats!RoomsNext
<1>4. ASSUME NEW c \in Conns, byConn[c] # None, leaveRoomLocked(c)
      PROVE  Seats!RoomsNext
  BY <1>4, SeatsLeave DEF Seats!RoomsNext
<1>5. ASSUME NEW c \in Conns, LeaveRoom(c) PROVE Seats!RoomsNext
  BY <1>5, <1>4 DEF LeaveRoom
<1>6. ASSUME UNCHANGED <<registry, byConn, rooms, told>>
      PROVE  UNCHANGED Seats!rooms
  BY <1>6, SeatsQuiet DEF rooms
<1>7. ASSUME NEW c \in Conns, OnDisconnect(c)
      PROVE  UNCHANGED Seats!rooms \/ Seats!RoomsNext
  BY <1>7, <1>4, <1>6 DEF OnDisconnect
<1>8. ASSUME NEW c \in Conns, CloseSend(c) \/ ReadGuest(c) \/ StartMatch(c)
      PROVE  UNCHANGED Seats!rooms
  BY <1>8, <1>6 DEF CloseSend, ReadGuest, StartMatch
<1>9. CASE UNCHANGED vars
  BY <1>9, <1>6 DEF vars
<1> QED
  BY <1>1, <1>2, <1>3, <1>5, <1>7, <1>8, <1>9 DEF Next

\* Only a member's flag is set.
ReadyOK == \A r \in Rooms : ready[r] \subseteq {host[r], guest[r]} \ {None}

LEMMA ReadyStep == IInv /\ ReadyOK /\ ReadyPairStarts /\ [Next]_vars
                   => ReadyOK' /\ ReadyPairStarts'
<1> SUFFICES ASSUME IInv, ReadyOK, ReadyPairStarts, [Next]_vars
             PROVE  ReadyOK' /\ ReadyPairStarts'
  OBVIOUS
<1> USE NoneAssumption DEF IInv, TypeOK, ReadyOK, ReadyPairStarts
<1>1. ASSUME NEW c \in Conns, NEW r \in Rooms, NEW k \in Codes, CreateRoom(c, r, k)
      PROVE  ReadyOK' /\ ReadyPairStarts'
  <2>1. ReadyOK'
    BY <1>1 DEF CreateRoom
  <2>2. ASSUME NEW q \in Rooms, q # r, Registered(q)'
        PROVE  Registered(q)
    BY <1>1, <2>2, SeatFacts DEF CreateRoom, Registered
  <2>3. c \notin ready'[r] /\ host'[r] = c
    BY <1>1 DEF CreateRoom
  <2>4. \A q \in Rooms : q # r => /\ host'[q] = host[q] /\ guest'[q] = guest[q]
                                  /\ ready'[q] = ready[q] /\ status'[q] = status[q]
    BY <1>1 DEF CreateRoom
  <2>5. ASSUME NEW q \in Rooms, Registered(q)', status'[q] = "waiting"
        PROVE  ~({host[q], guest[q]} \subseteq ready[q])'
    <3>1. CASE q = r
      BY <2>3, <3>1
    <3>2. CASE q # r
      BY <2>2, <2>4, <2>5, <3>2
    <3> QED
      BY <3>1, <3>2
  <2> QED
    BY <2>1, <2>5
<1>2. ASSUME NEW c \in Conns, NEW k \in Codes, JoinRoom(c, k)
      PROVE  ReadyOK' /\ ReadyPairStarts'
  <2>1. registry[k] \in Rooms /\ guest[registry[k]] = None /\ c # host[registry[k]]
    BY <1>2, SeatFacts DEF JoinRoom, InAnyRoom
  <2>2. c \notin ready[registry[k]]
    BY <2>1
  <2> QED
    BY <1>2, <2>1, <2>2 DEF JoinRoom, Registered
<1>3. ASSUME NEW c \in Conns, NEW b \in BOOLEAN, SetReady(c, b)
      PROVE  ReadyOK' /\ ReadyPairStarts'
  <2> DEFINE r == byConn[c]
  <2>1. r \in Rooms /\ c \in {host[r], guest[r]}
    BY <1>3, SeatFacts DEF SetReady
  <2>2. UNCHANGED <<registry, code, host, guest>>
    BY <1>3 DEF SetReady
  <2>3. \A q \in Rooms : q # r => ready'[q] = ready[q] /\ status'[q] = status[q]
    BY <1>3, <2>1 DEF SetReady
  <2>4. ready'[r] \subseteq {host[r], guest[r]} \ {None}
    BY <1>3, <2>1 DEF SetReady
  <2>5. status'[r] = "waiting" => ~({host[r], guest[r]} \subseteq ready'[r])
    BY <1>3, <2>1 DEF SetReady, ShouldStart
  <2>6. ASSUME NEW q \in Rooms PROVE ready'[q] \subseteq {host'[q], guest'[q]} \ {None}
    <3>1. CASE q = r
      BY <2>2, <2>4, <3>1
    <3>2. CASE q # r
      BY <2>2, <2>3, <3>2
    <3> QED
      BY <3>1, <3>2
  <2>7. ASSUME NEW q \in Rooms, Registered(q)', status'[q] = "waiting"
        PROVE  ~({host'[q], guest'[q]} \subseteq ready'[q])
    <3>1. CASE q = r
      BY <2>2, <2>5, <2>7, <3>1
    <3>2. CASE q # r
      <4>1. Registered(q)
        BY <2>2, <2>3, <2>7, <3>2 DEF Registered
      <4> QED
        BY <2>2, <2>3, <2>7, <3>2, <4>1
    <3> QED
      BY <3>1, <3>2
  <2> QED
    BY <2>6, <2>7
<1>4. ASSUME NEW c \in Conns, byConn[c] # None, leaveRoomLocked(c)
      PROVE  ReadyOK' /\ ReadyPairStarts'
  <2>1. byConn[c] \in Rooms /\ code[byConn[c]] \in Codes
        /\ c \in {host[byConn[c]], guest[byConn[c]]}
    BY <1>4, SeatFacts
  <2>2. CASE HostLeaves(c, byConn[c])
    BY <2>1, <2>2 DEF HostLeaves, rooms, Registered
  <2>3. CASE GuestLeaves(c, byConn[c]) /\ guest[byConn[c]] = c
    BY <2>1, <2>3 DEF GuestLeaves, Registered
  <2> QED
    BY <1>4, <2>1, <2>2, <2>3 DEF leaveRoomLocked
<1>5. CASE UNCHANGED <<registry, byConn, rooms, told>>
  BY <1>5 DEF rooms, Registered
<1> QED
  BY <1>1, <1>2, <1>3, <1>4, <1>5
  DEF Next, LeaveRoom, OnDisconnect, CloseSend, ReadGuest, StartMatch, vars

\* A room in status waiting never holds two ready players: its first pair is
\* started with the second flag.  Of a room that has started nothing is said.
THEOREM ReadyPairsStart == Spec => []ReadyPairStarts
<1>1. Init => ReadyOK /\ ReadyPairStarts
  BY DEF Init, ReadyOK, ReadyPairStarts, Registered
<1> QED
  BY InductiveInvariant, <1>1, ReadyStep, PTL DEF Spec

\* The lobby, seen by code, is the module Rooms: the rest of the server may
\* rely on it without looking at maps and slots.
THEOREM ImplementsRooms == Spec => RoomsKept
<1>1. Init => Seats!RoomsInit
  BY NoneAssumption DEF Init, Seats!RoomsInit, SeatHost, SeatGuest, SeatStarted, AtCode
<1> QED
  BY InductiveInvariant, <1>1, SeatsStep, PTL DEF Spec, RoomsKept, Seats!RoomsSpec

=============================================================================
