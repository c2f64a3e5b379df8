--------------------------- MODULE MatchRunProofs ---------------------------
(***************************************************************************)
(* Proofs about MatchRun, for any set of connections, any bound on the     *)
(* reconnects and the goroutines, and any PointsToWin.                     *)
(*                                                                         *)
(* Everything about who is connected rests on one fact: a session belongs  *)
(* to one connection, so a slot only ever has the identifier it started    *)
(* with or the connection of its session (SessionsOK).  The two slots share *)
(* none of these, so the index entry that HandleReconnect deletes is never *)
(* one that is needed, and the one it stores is looked up only once it is  *)
(* there (IndexOK).                                                         *)
(***************************************************************************)
EXTENDS MatchRun, SequenceTheorems, TLAPS

Gone == {"detached", "closed"}

\* The connections whose identifier a slot can have.
Candidates(s) == {ConnIDs[s], Sessions[s]}

\* A Sender is nil only once the OnDisconnect of the slot's connection is through.
SessionsOK ==
    \A s \in Slots :
        /\ connID[s] \in Candidates(s)
        /\ sender[s] = None => at[connID[s]] \in Gone

\* A run that Manager knows is indexed under both identifiers, unless the
\* handler of the connection is just about to store the entry.
IndexOK ==
    /\ registered => \A s \in Slots : indexed[connID[s]] \/ at[connID[s]] = "attached"
    /\ pc["loop"] \in {"unindex", "persist", "done"} => ~registered
    /\ \A c \in Conns : at[c] = "attached" =>
          \E s \in Slots : /\ Sessions[s] = c /\ connID[s] = c
                           /\ oldConn[c] \in Candidates(s)

IInv == TypeOK /\ ScoreDecides /\ SessionsOK /\ IndexOK

-----------------------------------------------------------------------------

\* What the code broadcasts are messages.
LEMMA ToBothType ==
  /\ \A k \in Notices : ToBoth(k, None) \in Seq(Message)
  /\ \A w \in Slots : ToBoth("match.ended", w) \in Seq(Message)
<1> USE DEF Slots
<1>1. \A k \in Notices, s \in Slots : Msg(s, k, None) \in Message
  BY DEF Msg, Message
<1>2. \A s, w \in Slots : Msg(s, "match.ended", w) \in Message
  BY DEF Msg, Message
<1> QED
  BY <1>1, <1>2 DEF ToBoth

LEMMA InitIInv == Init => IInv
<1> SUFFICES ASSUME Init PROVE IInv
  OBVIOUS
<1> USE ConnAssumption, NumberAssumption, NameAssumption DEF Init
<1>1. ToBoth("match.countdown", None) \in Seq(Message)
  BY ToBothType DEF Notices
<1>2. /\ todo \in [Threads -> Seq(Message)]
      /\ pc \in [Threads -> LoopStates \cup SpawnedStates]
  BY <1>1 DEF LoopStates, SpawnedStates
<1>3. /\ score \in [Slots -> 0 .. PointsToWin]
      /\ slot \in [Threads -> Slots]
      /\ found \in [Conns -> Slots]
      /\ reconnects \in 0 .. MaxReconnects
      /\ out \in Slots \cup {None}
  BY DEF Slots
<1>4. /\ sender \in [Slots -> Conns \cup {None}]
      /\ connID \in [Slots -> Conns]
      /\ indexed \in [Conns -> BOOLEAN]
      /\ reconnectCh \in Seq(Slots)
      /\ at \in [Conns -> HandlerStates]
      /\ oldConn \in [Conns -> Conns \cup {None}]
  BY DEF HandlerStates, StartedBySomebody
<1>5. TypeOK
  BY <1>2, <1>3, <1>4 DEF TypeOK
<1>6. ScoreDecides
  BY DEF ScoreDecides, Slots
<1>7. SessionsOK
  BY DEF SessionsOK, Candidates, Slots
<1>8. IndexOK
  BY DEF IndexOK, Threads, Slots
<1> QED
  BY <1>5, <1>6, <1>7, <1>8 DEF IInv

-----------------------------------------------------------------------------
(* Types *)

\* The parts of TypeOK that change together.
ThreadType ==
    /\ pc \in [Threads -> LoopStates \cup SpawnedStates]
    /\ slot \in [Threads -> Slots]
    /\ todo \in [Threads -> Seq(Message)]
    /\ held \in [Threads -> Conns \cup {None}]

PlayerType ==
    /\ sender \in [Slots -> Conns \cup {None}]
    /\ connID \in [Slots -> Conns]
    /\ deadline \in [Slots -> BOOLEAN]

HandlerType ==
    /\ at \in [Conns -> HandlerStates]
    /\ found \in [Conns -> Slots]
    /\ oldConn \in [Conns -> Conns \cup {None}]
    /\ reconnects \in 0 .. MaxReconnects

LEMMA LoopThread == "loop" \in Threads /\ Gs \subseteq Threads /\ "loop" \notin Gs
  BY NameAssumption DEF Threads

LEMMA SendingType ==
  ASSUME TypeOK, NEW t \in Threads, PickSender(t) \/ SendBytes(t)
  PROVE  TypeOK'
<1> USE DEF TypeOK
<1>1. todo[t] \in Seq(Message) /\ todo[t] # <<>>
  BY DEF PickSender, SendBytes, Sent
<1>2. Head(todo[t]) \in Message /\ Tail(todo[t]) \in Seq(Message)
  BY <1>1, HeadTailProperties
<1>3. CASE PickSender(t)
  <2>1. sender[Head(todo[t]).to] \in Conns \cup {None}
    BY <1>2 DEF Message
  <2>2. ThreadType'
    BY <1>2, <1>3, <2>1 DEF PickSender, ThreadType
  <2> QED
    BY <1>3, <2>2
    DEF PickSender, ThreadType, state, players, manager, handlers, outcome
<1>4. CASE SendBytes(t)
  <2>1. Head(todo[t]).kind = "match.ended" => Head(todo[t]).winner \in Slots
    BY <1>2 DEF Message, Notices
  <2>2. ThreadType'
    BY <1>2, <1>4 DEF SendBytes, ThreadType
  <2>3. verdicts' \in [Conns -> SUBSET Slots]
    <3>1. CASE UNCHANGED verdicts
      BY <3>1
    <3>2. CASE ~UNCHANGED verdicts
      <4> DEFINE w == Head(todo[t]).winner
      <4>1. /\ Head(todo[t]).kind = "match.ended"
            /\ verdicts' = [verdicts EXCEPT ![held[t]] = @ \cup {w}]
        BY <1>4, <3>2 DEF SendBytes
      <4>2. w \in Slots
        BY <2>1, <4>1
      <4> HIDE DEF w
      <4> QED
        BY <4>1, <4>2
    <3> QED
      BY <3>1, <3>2
  <2>4. crashed' \in BOOLEAN
    BY <1>4 DEF SendBytes
  <2> QED
    BY <1>4, <2>2, <2>3, <2>4
    DEF SendBytes, ThreadType, state, players, manager, handlers
<1> QED
  BY <1>3, <1>4

\* Moving the loop to a state of its own, with messages to send.
LEMMA LoopGoesType ==
  ASSUME TypeOK, NEW l \in LoopStates, NEW q \in Seq(Message), LoopGoes(l, q)
  PROVE  /\ pc' \in [Threads -> LoopStates \cup SpawnedStates]
         /\ todo' \in [Threads -> Seq(Message)]
  BY DEF TypeOK, LoopGoes

LEMMA LoopType ==
  ASSUME IInv, LoopStep
  PROVE  TypeOK'
<1> USE LoopThread DEF IInv, TypeOK
<1>a. <<>> \in Seq(Message)
  OBVIOUS
<1>b. \A l \in LoopStates, q \in Seq(Message) : LoopGoes(l, q) =>
          /\ pc' \in [Threads -> LoopStates \cup SpawnedStates]
          /\ todo' \in [Threads -> Seq(Message)]
  BY LoopGoesType
<1>1. CASE PickSender("loop") \/ SendBytes("loop")
  BY <1>1, SendingType
<1>2. CASE Activate
  <2>1. LoopGoes("select", ToBoth("match.started", None))
    BY <1>2 DEF Activate
  <2>2. ThreadType'
    BY <1>2, <1>b, <2>1, ToBothType DEF Activate, ThreadType, LoopStates, Notices
  <2> QED
    BY <1>2, <2>2 DEF Activate, ThreadType, players, manager, handlers, outcome
<1>3. CASE LoopCancelled
  <2>1. ThreadType'
    BY <1>3, <1>a, <1>b DEF LoopCancelled, ThreadType, LoopStates
  <2> QED
    BY <1>3, <2>1
    DEF LoopCancelled, ThreadType, state, players, manager, handlers, outcome
<1>4. CASE LoopReconnect
  <2> DEFINE s == Head(reconnectCh)
             q == <<Msg(s, "match.reconnected", None),
                    Msg(Other(s), "player.reconnected", None)>>
  <2>1. s \in Slots /\ Tail(reconnectCh) \in Seq(Slots)
    BY <1>4, HeadTailProperties DEF LoopReconnect
  <2>2. q \in Seq(Message)
    <3>1. Other(s) \in Slots
      BY <2>1 DEF Other, Slots
    <3>2. /\ Msg(s, "match.reconnected", None) \in Message
          /\ Msg(Other(s), "player.reconnected", None) \in Message
      BY <2>1, <3>1 DEF Msg, Message, Notices
    <3> QED
      BY <3>2
  <2>3. ThreadType'
    BY <1>4, <1>a, <1>b, <2>2 DEF LoopReconnect, ThreadType, LoopStates
  <2>4. paused' \in BOOLEAN /\ deadline' \in [Slots -> BOOLEAN]
    BY <1>4 DEF LoopReconnect, players
  <2> QED
    BY <1>4, <2>1, <2>3, <2>4
    DEF LoopReconnect, ThreadType, state, players, manager, handlers, outcome
<1>5. CASE TickPlay
  <2>1. ThreadType'
    BY <1>5, <1>b, ToBothType DEF TickPlay, ThreadType, LoopStates, Notices
  <2> QED
    BY <1>5, <2>1 DEF TickPlay, ThreadType, state, players, manager, handlers, outcome
<1>6. ASSUME NEW s \in Slots, TickDisconnect(s) PROVE TypeOK'
  <2>1. <<Msg(Other(s), "player.disconnected", None)>> \in Seq(Message)
    BY DEF Msg, Message, Notices, Other, Slots
  <2>2. ThreadType'
    BY <1>6, <1>b, <2>1 DEF TickDisconnect, ThreadType, LoopStates
  <2> QED
    BY <1>6, <2>2 DEF TickDisconnect, ThreadType, state, manager, handlers, outcome
<1>7. ASSUME NEW s \in Slots, TickScore(s) PROVE TypeOK'
  <2>1. score[s] < PointsToWin
    <3>1. phase # "ended"
      BY <1>7 DEF TickScore
    <3>2. score[s] # PointsToWin
      BY <3>1 DEF ScoreDecides
    <3> QED
      BY <3>2, NumberAssumption
  <2>2. score' \in [Slots -> 0 .. PointsToWin]
    BY <1>7, <2>1, NumberAssumption DEF TickScore
  <2>3. ThreadType'
    BY <1>7, <1>b, ToBothType DEF TickScore, ThreadType, LoopStates, Notices
  <2>4. phase' \in {"waiting", "active", "ended"}
    BY <1>7 DEF TickScore
  <2> QED
    BY <1>7, <2>2, <2>3, <2>4
    DEF TickScore, ThreadType, players, manager, handlers, outcome
<1>8. ASSUME NEW g \in Gs, ScheduleForfeit(g) PROVE TypeOK'
  <2>1. ThreadType'
    BY <1>8 DEF ScheduleForfeit, ThreadType, LoopStates, SpawnedStates, Slots
  <2> QED
    BY <1>8, <2>1 DEF ScheduleForfeit, PauseForReconnect, ThreadType, state, players,
                      manager, handlers, outcome
<1>9. ASSUME NEW g \in Gs, PauseRally(g) PROVE TypeOK'
  <2>1. ThreadType'
    BY <1>9 DEF PauseRally, ThreadType, LoopStates, SpawnedStates, Slots
  <2> QED
    BY <1>9, <2>1 DEF PauseRally, PauseForRally, ThreadType, state, players, manager,
                      handlers, outcome
<1>10. CASE EndByScore
  <2>1. ThreadType'
    BY <1>10, <1>b, ToBothType DEF EndByScore, ThreadType, LoopStates, Slots
  <2>2. announced' \in SUBSET Slots
    BY <1>10 DEF EndByScore
  <2>3. UNCHANGED <<state, players, paused, ctxDone, reconnectCh, manager, handlers,
                    verdicts, result, crashed>>
    BY <1>10 DEF EndByScore
  <2> QED
    BY <2>1, <2>2, <2>3 DEF ThreadType, state, players, manager, handlers
<1>11. CASE DeleteRun
  <2>1. ThreadType'
    BY <1>11, <1>a, <1>b DEF DeleteRun, ThreadType, LoopStates
  <2> QED
    BY <1>11, <2>1 DEF DeleteRun, ThreadType, state, players, handlers, outcome
<1>12. CASE ReadConnID
  <2>1. ThreadType'
    BY <1>12 DEF ReadConnID, ThreadType
  <2> QED
    BY <1>12, <2>1
    DEF ReadConnID, ThreadType, state, players, manager, handlers, outcome
<1>13. CASE Unindex
  <2>1. ThreadType'
    BY <1>13 DEF Unindex, ThreadType, LoopStates, Slots
  <2>2. indexed' \in [Conns -> BOOLEAN]
    BY <1>13 DEF Unindex
  <2> QED
    BY <1>13, <2>1, <2>2 DEF Unindex, ThreadType, state, players, handlers, outcome
<1>14. CASE Persist
  <2>1. ThreadType'
    BY <1>14, <1>a, <1>b DEF Persist, ThreadType, LoopStates
  <2>2. \A s \in Slots : SlotResult(s) \in {"win", "loss", "forfeit"}
    BY DEF SlotResult
  <2> QED
    BY <1>14, <2>1, <2>2 DEF Persist, ThreadType, state, players, manager, handlers
<1> QED
  BY <1>1, <1>2, <1>3, <1>4, <1>5, <1>6, <1>7, <1>8, <1>9, <1>10, <1>11, <1>12,
     <1>13, <1>14
  DEF LoopStep

LEMMA SpawnedType ==
  ASSUME TypeOK, NEW g \in Gs, SpawnedStep(g)
  PROVE  TypeOK'
<1> USE LoopThread DEF TypeOK
<1>1. CASE PickSender(g) \/ SendBytes(g)
  BY <1>1, SendingType
<1>2. CASE RallyReset(g)
  <2>1. ThreadType'
    BY <1>2, ToBothType DEF RallyReset, ThreadType, SpawnedStates, Notices
  <2> QED
    BY <1>2, <2>1 DEF RallyReset, ThreadType, players, manager, handlers, outcome
<1>3. CASE Unpause(g)
  <2>1. ThreadType'
    BY <1>3 DEF Unpause, ThreadType, SpawnedStates, Slots
  <2> QED
    BY <1>3, <2>1 DEF Unpause, ThreadType, state, players, manager, handlers, outcome
<1>4. CASE ForfeitCheck(g)
  <2>1. \A s \in Slots : Other(s) \in Slots
    BY DEF Other, Slots
  <2>2. ThreadType' /\ announced' \in SUBSET Slots
    <3>1. CASE sender[slot[g]] = None
      <4>1. PICK s \in Slots : s = slot[g]
        OBVIOUS
      <4>2. ToBoth("match.ended", Other(s)) \in Seq(Message) /\ Other(s) \in Slots
        BY <2>1, ToBothType
      <4>3. /\ pc' = [pc EXCEPT ![g] = "cancel"]
            /\ todo' = [todo EXCEPT ![g] = ToBoth("match.ended", Other(s))]
            /\ announced' = announced \cup {Other(s)}
            /\ UNCHANGED <<slot, held>>
        BY <1>4, <3>1, <4>1 DEF ForfeitCheck
      <4> QED
        BY <4>2, <4>3 DEF ThreadType, SpawnedStates
    <3>2. CASE sender[slot[g]] # None
      BY <1>4, <3>2 DEF ForfeitCheck, ThreadType, SpawnedStates, Slots
    <3> QED
      BY <3>1, <3>2
  <2> QED
    BY <1>4, <2>2 DEF ForfeitCheck, ThreadType, state, players, manager, handlers
<1>5. CASE Cancel(g)
  <2>1. ThreadType'
    BY <1>5 DEF Cancel, ThreadType, SpawnedStates, Slots
  <2> QED
    BY <1>5, <2>1 DEF Cancel, CancelContext, ThreadType, state, players, manager,
                      handlers, outcome
<1> QED
  BY <1>1, <1>2, <1>3, <1>4, <1>5 DEF SpawnedStep

LEMMA HandlersType ==
  ASSUME TypeOK, NEW c \in Conns, HandlerStep(c) \/ ClientStep(c)
  PROVE  TypeOK'
<1> USE DEF TypeOK
<1>1. CASE DisconnectLoad(c)
  BY <1>1 DEF DisconnectLoad, HandlerStates, state, players, manager, threads, outcome
<1>2. CASE DisconnectDetach(c)
  <2>1. PlayerType'
    BY <1>2 DEF DisconnectDetach, PlayerType
  <2> QED
    BY <1>2, <2>1
    DEF DisconnectDetach, PlayerType, HandlerStates, state, manager, threads, outcome
<1>3. CASE CloseSend(c)
  BY <1>3 DEF CloseSend, HandlerStates, state, players, manager, threads, outcome
<1>4. CASE ReconnectLoad(c)
  <2>1. reconnects' \in 0 .. MaxReconnects
    BY <1>4, NumberAssumption DEF ReconnectLoad
  <2> QED
    BY <1>4, <2>1
    DEF ReconnectLoad, HandlerStates, state, players, manager, threads, outcome
<1>5. CASE ReconnectAttach(c)
  <2>1. PlayerType' /\ HandlerType'
    <3>1. CASE at' = [at EXCEPT ![c] = "open"] /\ UNCHANGED <<players, found, oldConn>>
      BY <1>5, <3>1
      DEF ReconnectAttach, PlayerType, HandlerType, HandlerStates, players
    <3>2. CASE \E s \in SlotBySession(c) :
                 /\ sender' = [sender EXCEPT ![s] = c]
                 /\ connID' = [connID EXCEPT ![s] = c]
                 /\ deadline' = [deadline EXCEPT ![s] = FALSE]
                 /\ oldConn' = [oldConn EXCEPT ![c] = connID[s]]
                 /\ found' = [found EXCEPT ![c] = s]
                 /\ at' = [at EXCEPT ![c] = "attached"]
      <4>1. PICK s \in Slots :
              /\ sender' = [sender EXCEPT ![s] = c]
              /\ connID' = [connID EXCEPT ![s] = c]
              /\ deadline' = [deadline EXCEPT ![s] = FALSE]
              /\ oldConn' = [oldConn EXCEPT ![c] = connID[s]]
              /\ found' = [found EXCEPT ![c] = s]
              /\ at' = [at EXCEPT ![c] = "attached"]
        BY <3>2 DEF SlotBySession
      <4>2. connID[s] \in Conns /\ reconnects' = reconnects
        BY <1>5 DEF ReconnectAttach
      <4> QED
        BY <4>1, <4>2 DEF PlayerType, HandlerType, HandlerStates
    <3> QED
      BY <1>5, <3>1, <3>2 DEF ReconnectAttach
  <2> QED
    BY <1>5, <2>1
    DEF ReconnectAttach, PlayerType, HandlerType, state, manager, threads, outcome
<1>6. CASE ReconnectStore(c)
  <2>1. indexed' \in [Conns -> BOOLEAN]
    BY <1>6 DEF ReconnectStore, IndexNewest
  <2>2. HandlerType'
    BY <1>6 DEF ReconnectStore, HandlerType, HandlerStates
  <2> QED
    BY <1>6, <2>1, <2>2
    DEF ReconnectStore, HandlerType, state, players, threads, outcome
<1>7. CASE ReconnectSignal(c)
  <2>1. reconnectCh' \in Seq(Slots)
    BY <1>7 DEF ReconnectSignal
  <2>2. HandlerType'
    BY <1>7 DEF ReconnectSignal, HandlerType, HandlerStates, Slots
  <2> QED
    BY <1>7, <2>1, <2>2
    DEF ReconnectSignal, HandlerType, state, players, manager, threads, outcome
<1> QED
  BY <1>1, <1>2, <1>3, <1>4, <1>5, <1>6, <1>7 DEF HandlerStep, ClientStep

LEMMA TypeStep == IInv /\ [Next]_vars => TypeOK'
<1> SUFFICES ASSUME IInv, [Next]_vars PROVE TypeOK'
  OBVIOUS
<1>1. TypeOK
  BY DEF IInv
<1>2. CASE UNCHANGED vars
  BY <1>1, <1>2
  DEF TypeOK, vars, state, players, manager, threads, handlers, outcome
<1> QED
  BY <1>1, <1>2, LoopType, SpawnedType, HandlersType DEF Next

-----------------------------------------------------------------------------
(* The score *)

\* Where the loop is once the match is over by score.
Finished == {"matchEnded", "onEnd", "unindex", "persist", "done"}

\* A step that leaves score and phase alone keeps ScoreDecides, if the loop does
\* not leave the states of a finished match.
LEMMA ScoreFrame ==
  ASSUME ScoreDecides, UNCHANGED <<score, phase>>,
         pc["loop"] \in Finished => pc'["loop"] \in Finished
  PROVE  ScoreDecides'
  BY DEF ScoreDecides, Finished

LEMMA ScoreStep == IInv /\ [Next]_vars => ScoreDecides'
<1> SUFFICES ASSUME IInv, [Next]_vars PROVE ScoreDecides'
  OBVIOUS
<1>1. /\ ScoreDecides
      /\ score \in [Slots -> 0 .. PointsToWin]
      /\ pc \in [Threads -> LoopStates \cup SpawnedStates]
  BY DEF IInv, TypeOK
<1>2. CASE LoopStep
  <2>1. CASE Activate
    <3>1. phase # "ended" /\ phase' # "ended" /\ score' = score
      BY <1>1, <2>1 DEF Activate, LoopAt, ScoreDecides
    <3> QED
      BY <1>1, <3>1 DEF ScoreDecides
  <2>2. ASSUME NEW s \in Slots, TickScore(s) PROVE ScoreDecides'
    <3>1. \A r \in Slots : score[r] \in 0 .. PointsToWin /\ score[r] # PointsToWin
      BY <1>1, <2>2 DEF TickScore, ScoreDecides
    <3>2. /\ \A r \in Slots : score'[r] = IF r = s THEN score[r] + 1 ELSE score[r]
          /\ phase' = IF Won(score[s] + 1) THEN "ended" ELSE "active"
          /\ pc'["loop"] = IF Won(score[s] + 1) THEN "matchEnded" ELSE "pauseRally"
      BY <1>1, <2>2, LoopThread DEF TickScore, LoopGoes
    <3>3. Won(score[s] + 1) <=> score[s] + 1 = PointsToWin
      BY <3>1, NumberAssumption DEF Won
    <3>4. PICK r \in Slots : r # s
      BY DEF Slots
    <3>5. phase' = "ended" <=> \E q \in Slots : score'[q] = PointsToWin
      BY <3>1, <3>2, <3>3
    <3>6. ~(\A q \in Slots : score'[q] = PointsToWin)
      BY <3>1, <3>2, <3>4
    <3>7. phase' = "ended" => pc'["loop"] = "matchEnded"
      BY <3>2
    <3> QED
      BY <3>5, <3>6, <3>7 DEF ScoreDecides
  <2>3. CASE PickSender("loop") \/ SendBytes("loop")
    BY <1>1, <2>3, ScoreFrame DEF PickSender, SendBytes, state, Finished
  <2>4. CASE LoopCancelled \/ LoopReconnect \/ TickPlay
    BY <1>1, <2>4, ScoreFrame
    DEF LoopCancelled, LoopReconnect, TickPlay, TickGuard, LoopAt, state, Finished
  <2>5. ASSUME NEW s \in Slots, TickDisconnect(s) PROVE ScoreDecides'
    BY <1>1, <2>5, ScoreFrame DEF TickDisconnect, TickGuard, LoopAt, state, Finished
  <2>6. ASSUME NEW g \in Gs, ScheduleForfeit(g) \/ PauseRally(g) PROVE ScoreDecides'
    BY <1>1, <2>6, ScoreFrame DEF ScheduleForfeit, PauseRally, LoopAt, state, Finished
  <2>7. CASE EndByScore \/ DeleteRun \/ Persist
    BY <1>1, <2>7, ScoreFrame, LoopThread
    DEF EndByScore, DeleteRun, Persist, LoopGoes, state, Finished
  <2>8. CASE ReadConnID \/ Unindex
    BY <1>1, <2>8, ScoreFrame, LoopThread
    DEF ReadConnID, Unindex, LoopAt, state, Finished
  <2> QED
    BY <1>2, <2>1, <2>2, <2>3, <2>4, <2>5, <2>6, <2>7, <2>8 DEF LoopStep
<1>3. ASSUME NEW g \in Gs, SpawnedStep(g) PROVE ScoreDecides'
  <2>1. g # "loop"
    BY LoopThread
  <2>2. UNCHANGED <<score, phase>>
    BY <1>3 DEF SpawnedStep, PickSender, SendBytes, RallyReset, Unpause, ForfeitCheck,
                Cancel, state
  <2>3. pc'["loop"] = pc["loop"]
    <3>1. CASE sender[slot[g]] = None
      BY <1>1, <1>3, <2>1, <3>1, LoopThread
      DEF SpawnedStep, PickSender, SendBytes, RallyReset, Unpause, ForfeitCheck, Cancel
    <3>2. CASE sender[slot[g]] # None
      BY <1>1, <1>3, <2>1, <3>2, LoopThread
      DEF SpawnedStep, PickSender, SendBytes, RallyReset, Unpause, ForfeitCheck, Cancel
    <3> QED
      BY <3>1, <3>2
  <2> QED
    BY <1>1, <2>2, <2>3, ScoreFrame
<1>4. ASSUME NEW c \in Conns, HandlerStep(c) \/ ClientStep(c) PROVE ScoreDecides'
  BY <1>1, <1>4, ScoreFrame
  DEF HandlerStep, ClientStep, DisconnectLoad, DisconnectDetach, CloseSend,
      ReconnectLoad, ReconnectAttach, ReconnectStore, ReconnectSignal, state, threads
<1>5. CASE UNCHANGED vars
  BY <1>1, <1>5, ScoreFrame DEF vars, state, threads
<1> QED
  BY <1>2, <1>3, <1>4, <1>5 DEF Next

-----------------------------------------------------------------------------
(* Who is connected *)

SessionInv == SessionsOK /\ IndexOK

\* What the threads of the run leave alone: the connections, and the index of a
\* run that is registered.
Frame ==
    /\ UNCHANGED <<sender, connID, at, oldConn>>
    /\ registered' => registered /\ indexed' = indexed
    /\ pc'["loop"] \in {"unindex", "persist", "done"} => ~registered'

\* What DisconnectsReachRun says of one step.
Reaches == \A s \in Slots : registered' /\ SlotOfGone(s)' => SlotOfGone(s)

LEMMA FrameKeeps == ASSUME SessionInv, Frame PROVE SessionInv' /\ Reaches
<1>1. Reaches
  BY DEF Frame, Reaches, SlotOfGone
<1>2. SessionsOK'
  BY DEF SessionInv, SessionsOK, Frame
<1>3. IndexOK'
  BY DEF SessionInv, IndexOK, Frame
<1> QED
  BY <1>1, <1>2, <1>3 DEF SessionInv

LEMMA SendingFrame ==
  ASSUME SessionInv, NEW t \in Threads, PickSender(t) \/ SendBytes(t)
  PROVE  Frame
  BY DEF PickSender, SendBytes, Frame, SessionInv, IndexOK, players, manager, handlers

LEMMA LoopFrame ==
  ASSUME TypeOK, SessionInv, LoopStep
  PROVE  Frame
<1> USE LoopThread DEF Frame, players, manager, handlers
<1>1. /\ pc \in [Threads -> LoopStates \cup SpawnedStates]
      /\ slot \in [Threads -> Slots]
      /\ pc["loop"] \in {"unindex", "persist", "done"} => ~registered
      /\ \A g \in Gs : g # "loop"
  BY DEF TypeOK, SessionInv, IndexOK
<1>2. CASE PickSender("loop") \/ SendBytes("loop")
  BY <1>2, SendingFrame
<1>3. CASE Activate \/ LoopCancelled \/ LoopReconnect \/ TickPlay
  <2>1. /\ pc' = [pc EXCEPT !["loop"] = "select"] \/ pc' = [pc EXCEPT !["loop"] = "onEnd"]
        /\ UNCHANGED <<sender, connID, at, oldConn, slot, registered, indexed>>
    BY <1>3 DEF Activate, LoopCancelled, LoopReconnect, TickPlay, LoopGoes
  <2> QED
    BY <1>1, <2>1
<1>4. ASSUME NEW s \in Slots, TickDisconnect(s) \/ TickScore(s) PROVE Frame
  <2>1. /\ \E l \in {"schedule", "matchEnded", "pauseRally"} :
              pc' = [pc EXCEPT !["loop"] = l]
        /\ slot' = [slot EXCEPT !["loop"] = s]
        /\ UNCHANGED <<sender, connID, at, oldConn, registered, indexed>>
    BY <1>4 DEF TickDisconnect, TickScore, LoopGoes
  <2> QED
    BY <1>1, <2>1
<1>5. ASSUME NEW g \in Gs, ScheduleForfeit(g) \/ PauseRally(g) PROVE Frame
  <2>1. /\ \E l \in {"timer", "rally"} :
              pc' = [pc EXCEPT !["loop"] = "select", ![g] = l]
        /\ slot' = [slot EXCEPT ![g] = slot["loop"], !["loop"] = 0]
        /\ UNCHANGED <<sender, connID, at, oldConn, registered, indexed>>
    BY <1>5 DEF ScheduleForfeit, PauseRally
  <2>2. /\ pc'["loop"] = "select"
        /\ \A h \in Gs : h # g => pc'[h] = pc[h] /\ slot'[h] = slot[h]
        /\ pc'[g] # "cancel"
    BY <1>1, <2>1
  <2> QED
    BY <2>1, <2>2
<1>6. CASE EndByScore \/ DeleteRun \/ Persist
  <2>1. /\ \E l \in LoopStates : pc' = [pc EXCEPT !["loop"] = l]
        /\ slot' = slot \/ slot' = [slot EXCEPT !["loop"] = 0]
        /\ UNCHANGED <<sender, connID, at, oldConn, indexed>>
    BY <1>6 DEF EndByScore, DeleteRun, Persist, LoopGoes, LoopStates
  <2>2. \/ registered' = FALSE
        \/ registered' = registered /\ pc'["loop"] = "onEnd"
        \/ registered' = registered /\ pc["loop"] = "persist"
    BY <1>1, <1>6 DEF EndByScore, DeleteRun, Persist, LoopGoes, LoopAt
  <2> QED
    BY <1>1, <2>1, <2>2
<1>7. CASE ReadConnID
  BY <1>1, <1>7 DEF ReadConnID
<1>8. CASE Unindex
  <2>1. /\ ~registered /\ ~registered'
        /\ UNCHANGED <<sender, connID, at, oldConn>>
    BY <1>1, <1>8 DEF Unindex, LoopAt
  <2>2. \A g \in Gs : pc'[g] = pc[g] /\ slot'[g] = slot[g]
    BY <1>1, <1>8 DEF Unindex
  <2> QED
    BY <2>1, <2>2
<1> QED
  BY <1>2, <1>3, <1>4, <1>5, <1>6, <1>7, <1>8 DEF LoopStep

LEMMA SpawnedFrame ==
  ASSUME TypeOK, SessionInv, NEW g \in Gs, SpawnedStep(g)
  PROVE  Frame
<1> USE LoopThread DEF Frame, players, manager, handlers
<1>1. /\ pc \in [Threads -> LoopStates \cup SpawnedStates]
      /\ slot \in [Threads -> Slots]
      /\ pc["loop"] \in {"unindex", "persist", "done"} => ~registered
      /\ g # "loop" /\ g \in Threads
  BY DEF TypeOK, SessionInv, IndexOK
<1>2. CASE PickSender(g) \/ SendBytes(g)
  BY <1>1, <1>2, SendingFrame
<1>3. CASE RallyReset(g)
  BY <1>1, <1>3 DEF RallyReset
<1>4. CASE Unpause(g) \/ Cancel(g)
  <2>1. /\ pc' = [pc EXCEPT ![g] = "free"]
        /\ slot' = [slot EXCEPT ![g] = 0]
        /\ UNCHANGED <<sender, connID, at, oldConn, registered, indexed>>
    BY <1>4 DEF Unpause, Cancel
  <2> QED
    BY <1>1, <2>1
<1>5. CASE ForfeitCheck(g)
  <2>1. CASE sender[slot[g]] = None
    <3>1. /\ pc' = [pc EXCEPT ![g] = "cancel"]
          /\ UNCHANGED <<slot, sender, connID, at, oldConn, registered, indexed>>
      BY <1>5, <2>1 DEF ForfeitCheck
    <3> QED
      BY <1>1, <2>1, <3>1
  <2>2. CASE sender[slot[g]] # None
    <3>1. /\ pc' = [pc EXCEPT ![g] = "free"]
          /\ slot' = [slot EXCEPT ![g] = 0]
          /\ UNCHANGED <<sender, connID, at, oldConn, registered, indexed>>
      BY <1>5, <2>2 DEF ForfeitCheck
    <3> QED
      BY <1>1, <3>1
  <2> QED
    BY <2>1, <2>2
<1> QED
  BY <1>2, <1>3, <1>4, <1>5 DEF SpawnedStep

\* The identifiers of the two slots are those of different connections.
LEMMA CandidatesApart ==
  /\ \A r, s \in Slots : r # s => Candidates(r) \cap Candidates(s) = {}
  /\ \A s \in Slots : Candidates(s) \subseteq Conns
  BY ConnAssumption DEF Candidates, Slots

\* The handlers that only move on: nobody becomes attached, nobody who is gone
\* comes back, and whoever goes during the match is found in the index.
LEMMA QuietHandler ==
  ASSUME TypeOK, SessionInv, NEW c \in Conns,
         \/ DisconnectLoad(c) \/ CloseSend(c) \/ ReconnectLoad(c)
         \/ ReconnectSignal(c)
  PROVE  SessionInv' /\ Reaches
<1>1. /\ at \in [Conns -> HandlerStates]
      /\ connID \in [Slots -> Conns]
  BY DEF TypeOK
<1>2. UNCHANGED <<sender, connID, pc, slot, registered, indexed, oldConn>>
  BY DEF DisconnectLoad, CloseSend, ReconnectLoad, ReconnectSignal, players, threads,
         manager
<1>3. /\ at[c] \notin {"closed", "attached"}
      /\ at'[c] # "attached"
      /\ \A d \in Conns : d # c => at'[d] = at[d]
      /\ at[c] \in Gone => at'[c] \in Gone
      /\ at'[c] \in Gone => at[c] \in Gone \/ ~indexed[c]
  BY <1>1
  DEF DisconnectLoad, CloseSend, ReconnectLoad, ReconnectSignal, Gone
<1>4. SessionsOK'
  BY <1>1, <1>2, <1>3 DEF SessionInv, SessionsOK
<1>5. IndexOK'
  BY <1>1, <1>2, <1>3 DEF SessionInv, IndexOK
<1>6. Reaches
  <2> SUFFICES ASSUME registered, NEW s \in Slots, sender[s] = connID[s],
                      at'[connID[s]] \in Gone
               PROVE  at[connID[s]] \in Gone
    BY <1>2 DEF Reaches, SlotOfGone, Gone
  <2>1. connID[s] \in Conns /\ (indexed[connID[s]] \/ at[connID[s]] = "attached")
    BY <1>1 DEF SessionInv, IndexOK
  <2> QED
    BY <1>3, <2>1
<1> QED
  BY <1>4, <1>5, <1>6 DEF SessionInv

LEMMA DetachSession ==
  ASSUME TypeOK, SessionInv, NEW c \in Conns, DisconnectDetach(c)
  PROVE  SessionInv' /\ Reaches
<1>1. /\ UNCHANGED <<connID, pc, slot, registered, indexed, oldConn>>
      /\ sender' = [s \in Slots |-> IF connID[s] = c THEN None ELSE sender[s]]
      /\ at[c] = "disconnecting" /\ at' = [at EXCEPT ![c] = "detached"]
      /\ at \in [Conns -> HandlerStates]
      /\ connID \in [Slots -> Conns]
      /\ slot \in [Threads -> Slots]
  BY DEF DisconnectDetach, TypeOK, threads, manager
<1>2. SessionsOK'
  BY <1>1 DEF SessionInv, SessionsOK, Gone
<1>3. IndexOK'
  BY <1>1 DEF SessionInv, IndexOK
<1>4. Reaches
  BY <1>1, NameAssumption DEF Reaches, SlotOfGone
<1> QED
  BY <1>2, <1>3, <1>4 DEF SessionInv

\* Whoever attaches has the session of the slot, and of no other.
LEMMA AttachSession ==
  ASSUME TypeOK, SessionInv, NEW c \in Conns, ReconnectAttach(c)
  PROVE  SessionInv' /\ Reaches
<1>1. /\ UNCHANGED <<pc, slot, registered, indexed>>
      /\ at[c] = "reconnecting"
      /\ at \in [Conns -> HandlerStates]
      /\ oldConn \in [Conns -> Conns \cup {None}]
      /\ sender \in [Slots -> Conns \cup {None}]
      /\ connID \in [Slots -> Conns]
      /\ slot \in [Threads -> Slots]
  BY DEF ReconnectAttach, TypeOK, threads, manager
<1>2. CASE at' = [at EXCEPT ![c] = "open"] /\ UNCHANGED <<players, oldConn>>
  <2>1. UNCHANGED <<sender, connID, oldConn>>
    BY <1>2 DEF players
  <2>2. SessionsOK'
    BY <1>1, <1>2, <2>1 DEF SessionInv, SessionsOK, Gone
  <2>3. IndexOK'
    BY <1>1, <1>2, <2>1 DEF SessionInv, IndexOK
  <2>4. Reaches
    BY <1>1, <1>2, <2>1 DEF Reaches, SlotOfGone
  <2> QED
    BY <2>2, <2>3, <2>4 DEF SessionInv
<1>3. ASSUME NEW s \in SlotBySession(c),
             sender' = [sender EXCEPT ![s] = c],
             connID' = [connID EXCEPT ![s] = c],
             oldConn' = [oldConn EXCEPT ![c] = connID[s]],
             at' = [at EXCEPT ![c] = "attached"]
      PROVE  SessionInv' /\ Reaches
  <2>1. s \in Slots /\ Sessions[s] = c
    BY DEF SlotBySession
  <2>2. SessionsOK'
    <3> SUFFICES ASSUME NEW r \in Slots
                 PROVE  /\ connID'[r] \in Candidates(r)
                        /\ sender'[r] = None => at'[connID'[r]] \in Gone
      BY DEF SessionsOK
    <3>1. CASE r = s
      BY <1>1, <1>3, <2>1, <3>1, NameAssumption DEF Candidates
    <3>2. CASE r # s
      BY <1>1, <1>3, <2>1, <3>2 DEF SessionInv, SessionsOK, Gone
    <3> QED
      BY <3>1, <3>2
  <2>3. connID[s] \in Candidates(s) /\ \A r \in Slots : connID[r] \in Candidates(r)
    BY <2>1 DEF SessionInv, SessionsOK
  <2>4. IndexOK'
    <3>1. registered => \A r \in Slots :
              indexed[connID'[r]] \/ at'[connID'[r]] = "attached"
      BY <1>1, <1>3, <2>1 DEF SessionInv, IndexOK
    <3>2. ASSUME NEW d \in Conns, at'[d] = "attached"
          PROVE  \E r \in Slots : /\ Sessions[r] = d /\ connID'[r] = d
                                  /\ oldConn'[d] \in Candidates(r)
      <4>1. CASE d = c
        BY <1>1, <1>3, <2>1, <2>3, <4>1
      <4>2. CASE d # c
        <5>1. PICK r \in Slots : /\ Sessions[r] = d /\ connID[r] = d
                                 /\ oldConn[d] \in Candidates(r)
          BY <1>1, <1>3, <3>2, <4>2 DEF SessionInv, IndexOK
        <5>2. r # s
          BY <2>1, <4>2, <5>1
        <5> QED
          BY <1>1, <1>3, <4>2, <5>1, <5>2
      <4> QED
        BY <4>1, <4>2
    <3> QED
      BY <1>1, <3>1, <3>2 DEF SessionInv, IndexOK
  <2>5. Reaches
    <3> SUFFICES ASSUME NEW r \in Slots, sender'[r] = connID'[r],
                        at'[connID'[r]] \in Gone
                 PROVE  sender[r] = connID[r] /\ at[connID[r]] \in Gone
      BY DEF Reaches, SlotOfGone, Gone
    <3>1. r # s
      BY <1>1, <1>3, <2>1 DEF Gone
    <3> QED
      BY <1>1, <1>3, <2>1, <3>1 DEF Gone
  <2> QED
    BY <2>2, <2>4, <2>5 DEF SessionInv
<1> QED
  BY <1>2, <1>3 DEF ReconnectAttach

\* The entry that is deleted is the slot's former one, never the other slot's.
LEMMA StoreSession ==
  ASSUME TypeOK, SessionInv, NEW c \in Conns, ReconnectStore(c)
  PROVE  SessionInv' /\ Reaches
<1>1. /\ UNCHANGED <<sender, connID, pc, slot, registered>>
      /\ at[c] = "attached" /\ at' = [at EXCEPT ![c] = "signalling"]
      /\ oldConn' = [oldConn EXCEPT ![c] = None]
      /\ indexed' = IndexNewest(c)
      /\ at \in [Conns -> HandlerStates]
      /\ oldConn \in [Conns -> Conns \cup {None}]
      /\ connID \in [Slots -> Conns]
  BY DEF ReconnectStore, TypeOK, players, threads
<1>2. /\ \A d \in Conns : d # c => at'[d] = at[d] /\ oldConn'[d] = oldConn[d]
      /\ at'[c] = "signalling"
  BY <1>1
<1>3. SessionsOK'
  BY <1>1, <1>2 DEF SessionInv, SessionsOK, Gone
<1>4. IndexOK'
  <2>1. ASSUME registered, NEW r \in Slots
        PROVE  indexed'[connID[r]] \/ at'[connID[r]] = "attached"
    <3>1. PICK s \in Slots : /\ Sessions[s] = c /\ connID[s] = c
                             /\ oldConn[c] \in Candidates(s)
      BY <1>1 DEF SessionInv, IndexOK
    <3>2. CASE connID[r] = c
      BY <1>1, <3>2 DEF IndexNewest
    <3>3. CASE connID[r] # c
      <4>1. connID[r] \in Candidates(r) /\ r # s
        BY <3>1, <3>3 DEF SessionInv, SessionsOK
      <4>2. connID[r] # oldConn[c]
        BY <3>1, <4>1, CandidatesApart
      <4>3. indexed[connID[r]] \/ at[connID[r]] = "attached"
        BY <2>1 DEF SessionInv, IndexOK
      <4> QED
        BY <1>1, <1>2, <3>3, <4>2, <4>3 DEF IndexNewest
    <3> QED
      BY <3>2, <3>3
  <2> QED
    BY <1>1, <1>2, <2>1 DEF SessionInv, IndexOK
<1>5. Reaches
  BY <1>1, <1>2 DEF Reaches, SlotOfGone
<1> QED
  BY <1>3, <1>4, <1>5 DEF SessionInv

LEMMA SessionStep == IInv /\ [Next]_vars => SessionInv' /\ Reaches
<1> SUFFICES ASSUME IInv, [Next]_vars PROVE SessionInv' /\ Reaches
  OBVIOUS
<1>1. TypeOK /\ SessionInv
  BY DEF IInv, SessionInv
<1>2. CASE LoopStep
  BY <1>1, <1>2, LoopFrame, FrameKeeps
<1>3. ASSUME NEW g \in Gs, SpawnedStep(g) PROVE SessionInv' /\ Reaches
  BY <1>1, <1>3, SpawnedFrame, FrameKeeps
<1>4. ASSUME NEW c \in Conns, HandlerStep(c) \/ ClientStep(c) PROVE SessionInv' /\ Reaches
  BY <1>1, <1>4, QuietHandler, DetachSession, AttachSession, StoreSession
  DEF HandlerStep, ClientStep
<1>5. CASE UNCHANGED vars
  <2>1. Frame
    BY <1>1, <1>5
    DEF Frame, vars, players, manager, threads, handlers, SessionInv, IndexOK
  <2> QED
    BY <1>1, <2>1, FrameKeeps
<1> QED
  BY <1>2, <1>3, <1>4, <1>5 DEF Next

-----------------------------------------------------------------------------
(* The theorems *)

\* The inductive invariant of a match run.
THEOREM InductiveInvariant == Spec => []IInv
<1>1. IInv /\ [Next]_vars => IInv'
  BY TypeStep, ScoreStep, SessionStep DEF IInv, SessionInv
<1> QED
  BY InitIInv, <1>1, PTL DEF Spec

\* Every variable keeps its type, in particular no score passes PointsToWin.
THEOREM TypeCorrect == Spec => []TypeOK
<1>1. IInv => TypeOK
  BY DEF IInv
<1> QED
  BY InductiveInvariant, <1>1, PTL

\* The match ends by score when a player, and only one, has PointsToWin, and
\* the loop plays no tick after that.
THEOREM ScoresDecide == Spec => []ScoreDecides
<1>1. IInv => ScoreDecides
  BY DEF IInv
<1> QED
  BY InductiveInvariant, <1>1, PTL

\* No disconnect during a match is lost to the run while Manager knows it: no
\* step leaves a slot with the Sender and the ConnID of a connection that has
\* run its onClose, also when another guest's session is in the slot.
THEOREM DisconnectsReach == Spec => DisconnectsReachRun
<1>1. IInv /\ [Next]_vars =>
        [\A s \in Slots : registered' /\ SlotOfGone(s)' => SlotOfGone(s)]_vars
  BY SessionStep DEF Reaches
<1> QED
  BY InductiveInvariant, <1>1, PTL DEF Spec, DisconnectsReachRun

=============================================================================
