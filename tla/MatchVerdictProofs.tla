-------------------------- MODULE MatchVerdictProofs --------------------------
(***************************************************************************)
(* Proofs about the verdict of a match: what it rests on, who hears it and *)
(* what is recorded of it.                                                 *)
(*                                                                         *)
(* The first half is about the matches in which an empty slot stays empty  *)
(* (NoSecondGuest): those whose slots are Unmixed, and those in which      *)
(* HandleReconnect has found no slot.  It is not so in a slot that has one *)
(* guest's ConnID and another's session, where the second fills the slot   *)
(* the first has left, be it under the hands of a forfeit timer.  The      *)
(* second half is about the matches in which HandleReconnect has found no  *)
(* slot, which is what a player who comes back on a new connection meets:  *)
(* only there is there one verdict, because only there does the paused     *)
(* flag belong to one goroutine at a time.  Its invariant is the list of   *)
(* stages a match goes through.                                            *)
(***************************************************************************)
EXTENDS MatchRunProofs

\* No HandleReconnect has found the slot of its session.  It may have found the
\* run: it never finds a slot for a later connection of a player.
NoneAccepted == \A c \in Conns : at[c] # "attached"

\* No guest's session is in a slot that has another one's identifier, or no
\* match.reconnect has found it there.
NoSecondGuest == (\A s \in Slots : Unmixed(s)) \/ NoneAccepted

\* Why the winner is the winner, from the moment it is settled: a disconnect
\* that has been noticed stays, and so do the points that ended the match.
GroundsOK ==
    /\ pc["loop"] = "schedule" => sender[slot["loop"]] = None
    /\ \A g \in Gs : pc[g] \in {"timer", "cancel"} => sender[slot[g]] = None
    /\ pc["loop"] = "matchEnded" => score[slot["loop"]] = PointsToWin
    /\ \A w \in announced : score[w] = PointsToWin \/ sender[Other(w)] = None

\* The record names w as the winner, if w was still there.
Recorded(w) == sender[w] # None => result[w] = "win" /\ result[Other(w)] # "win"

\* The record agrees with every winner announced so far, and with every winner
\* that a timer still alive when it was taken will announce.
RecordOK ==
    result # None =>
        /\ pc["loop"] = "done"
        /\ \A w \in announced : Recorded(w)
        /\ \A g \in Gs : pc[g] \in {"timer", "cancel"} => Recorded(Other(slot[g]))

-----------------------------------------------------------------------------
(* Nobody comes back *)

\* A step gives a slot no Sender but that of a connection which has its session
\* and is not gone.
LEMMA SenderStep ==
  ASSUME [Next]_vars, NEW s \in Slots, sender'[s] # None, sender'[s] # sender[s],
         TypeOK
  PROVE  at[Sessions[s]] = "reconnecting" /\ at'[Sessions[s]] = "attached"
<1>1. /\ sender \in [Slots -> Conns \cup {None}]
      /\ at \in [Conns -> HandlerStates]
  BY DEF TypeOK
<1>2. ~(\E c \in Conns : DisconnectDetach(c))
  BY <1>1 DEF DisconnectDetach
<1>3. ASSUME NEW c \in Conns, ReconnectAttach(c)
      PROVE  at[Sessions[s]] = "reconnecting" /\ at'[Sessions[s]] = "attached"
  <2>1. ~UNCHANGED players
    BY DEF players
  <2>2. PICK r \in SlotBySession(c) : /\ sender' = [sender EXCEPT ![r] = c]
                                      /\ at' = [at EXCEPT ![c] = "attached"]
    BY <1>3, <2>1 DEF ReconnectAttach
  <2>3. r = s
    BY <1>1, <2>2
  <2> QED
    BY <1>1, <1>3, <2>2, <2>3 DEF SlotBySession, ReconnectAttach
<1>4. ~LoopStep
  BY DEF LoopStep, PickSender, SendBytes, Activate, LoopCancelled, LoopReconnect,
         TickPlay, TickDisconnect, TickScore, ScheduleForfeit, PauseRally, EndByScore,
         DeleteRun, ReadConnID, Unindex, Persist, players
<1>5. ~(\E g \in Gs : SpawnedStep(g))
  BY DEF SpawnedStep, PickSender, SendBytes, RallyReset, Unpause, ForfeitCheck, Cancel,
         players
<1>6. ~(\E c \in Conns : \/ CloseSend(c) \/ ReconnectStore(c) \/ ReconnectSignal(c)
                         \/ ClientStep(c))
  BY DEF CloseSend, ReconnectStore, ReconnectSignal, ClientStep, DisconnectLoad,
         ReconnectLoad, players
<1>7. ~UNCHANGED vars
  BY DEF vars, players
<1> QED
  BY <1>2, <1>3, <1>4, <1>5, <1>6, <1>7 DEF Next, HandlerStep

\* Nobody who has the session of an unmixed slot is there when it is empty.
LEMMA SlotStaysEmpty ==
  ASSUME IInv, [Next]_vars, NoSecondGuest', NEW s \in Slots, sender[s] = None
  PROVE  sender'[s] = None
<1> SUFFICES ASSUME sender'[s] # None PROVE FALSE
  OBVIOUS
<1>1. at[Sessions[s]] = "reconnecting" /\ at'[Sessions[s]] = "attached"
  BY SenderStep DEF IInv
<1>2. Sessions[s] \in Conns
  BY ConnAssumption
<1>3. Unmixed(s)
  BY <1>1, <1>2 DEF NoSecondGuest, NoneAccepted
<1>4. connID[s] = Sessions[s] /\ at[connID[s]] \in Gone
  BY <1>3 DEF Unmixed, IInv, SessionsOK, Candidates
<1> QED
  BY <1>1, <1>4 DEF Gone

\* A slot whose connection is gone stays empty for the rest of the match, if its
\* ConnID and its session were read from the same guest or no match.reconnect is
\* accepted: the player it belongs to cannot come back (the documents promise
\* that he can), and there is no second guest who could.
THEOREM NobodyComesBack ==
  Spec /\ []NoSecondGuest =>
      [][\A s \in Slots : sender[s] = None => sender'[s] = None]_vars
<1>1. IInv /\ NoSecondGuest' /\ [Next]_vars =>
          [\A s \in Slots : sender[s] = None => sender'[s] = None]_vars
  BY SlotStaysEmpty
<1> QED
  BY InductiveInvariant, <1>1, PTL DEF Spec

-----------------------------------------------------------------------------
(* What a verdict rests on *)

\* A step that decides nothing, announces nothing and records nothing.
Calm ==
    /\ UNCHANGED <<score, announced, result>>
    /\ pc'["loop"] \in {"schedule", "matchEnded"} =>
          pc["loop"] = pc'["loop"] /\ slot["loop"] = slot'["loop"]
    /\ \A g \in Gs : pc'[g] \in {"timer", "cancel"} =>
          pc[g] = pc'[g] /\ slot[g] = slot'[g]
    /\ pc["loop"] = "done" => pc'["loop"] = "done"

LEMMA OtherSlot == \A s \in Slots : Other(s) \in Slots /\ Other(s) # s /\ Other(Other(s)) = s
  BY DEF Slots, Other

LEMMA CalmKeeps ==
  ASSUME TypeOK, GroundsOK, RecordOK, Calm,
         \A s \in Slots : sender[s] = None => sender'[s] = None
  PROVE  GroundsOK' /\ RecordOK'
<1>1. /\ slot \in [Threads -> Slots]
      /\ announced \subseteq Slots
  BY DEF TypeOK
<1>2. GroundsOK'
  BY <1>1, OtherSlot, LoopThread DEF GroundsOK, Calm
<1>3. \A w \in Slots : Recorded(w) => Recorded(w)'
  BY DEF Recorded, Calm
<1>4. RecordOK'
  BY <1>1, <1>3, OtherSlot, LoopThread DEF RecordOK, Calm
<1> QED
  BY <1>2, <1>4

\* Nearly every step is calm.
LEMMA CalmSteps ==
  ASSUME TypeOK,
         \/ \E t \in Threads : PickSender(t) \/ SendBytes(t)
         \/ Activate \/ LoopCancelled \/ LoopReconnect \/ TickPlay
         \/ DeleteRun \/ ReadConnID \/ Unindex
         \/ \E g \in Gs : PauseRally(g) \/ RallyReset(g) \/ Unpause(g) \/ Cancel(g)
         \/ \E c \in Conns : HandlerStep(c) \/ ClientStep(c)
         \/ UNCHANGED vars
  PROVE  Calm
<1> USE LoopThread DEF Calm, state, threads, outcome
<1>1. /\ pc \in [Threads -> LoopStates \cup SpawnedStates]
      /\ slot \in [Threads -> Slots]
      /\ \A g \in Gs : g \in Threads /\ g # "loop"
  BY DEF TypeOK
<1>2. ASSUME NEW t \in Threads, PickSender(t) \/ SendBytes(t) PROVE Calm
  BY <1>2 DEF PickSender, SendBytes
<1>3. CASE Activate \/ LoopCancelled \/ LoopReconnect \/ TickPlay \/ DeleteRun
  <2>1. /\ pc' = [pc EXCEPT !["loop"] = "select"] \/ pc' = [pc EXCEPT !["loop"] = "onEnd"]
           \/ pc' = [pc EXCEPT !["loop"] = "unindex"]
        /\ pc["loop"] # "done"
        /\ UNCHANGED <<slot, score, announced, result>>
    BY <1>3 DEF Activate, LoopCancelled, LoopReconnect, TickPlay, TickGuard, DeleteRun,
                LoopAt, LoopGoes
  <2> QED
    BY <1>1, <2>1
<1>4. CASE ReadConnID
  BY <1>1, <1>4 DEF ReadConnID
<1>5. CASE Unindex
  <2>1. /\ \E s \in Slots : slot' = [slot EXCEPT !["loop"] = s]
        /\ \/ UNCHANGED pc
           \/ pc' = [pc EXCEPT !["loop"] = "persist"]
        /\ pc["loop"] = "unindex"
        /\ UNCHANGED <<score, announced, result>>
    BY <1>5 DEF Unindex, LoopAt, Slots
  <2> QED
    BY <1>1, <2>1
<1>6. ASSUME NEW g \in Gs, PauseRally(g) PROVE Calm
  <2>1. /\ pc' = [pc EXCEPT !["loop"] = "select", ![g] = "rally"]
        /\ slot' = [slot EXCEPT ![g] = slot["loop"], !["loop"] = 0]
        /\ pc["loop"] # "done"
        /\ UNCHANGED <<score, announced, result>>
    BY <1>6 DEF PauseRally, LoopAt
  <2>2. /\ pc'["loop"] = "select" /\ pc'[g] = "rally"
        /\ \A h \in Gs : h # g => pc'[h] = pc[h] /\ slot'[h] = slot[h]
    BY <1>1, <2>1
  <2> QED
    BY <2>1, <2>2
<1>7. ASSUME NEW g \in Gs, RallyReset(g) \/ Unpause(g) \/ Cancel(g) PROVE Calm
  <2>1. /\ \E l \in {"unpause", "free"} : pc' = [pc EXCEPT ![g] = l]
        /\ slot' = slot \/ slot' = [slot EXCEPT ![g] = 0]
        /\ UNCHANGED <<score, announced, result>>
    BY <1>7 DEF RallyReset, Unpause, Cancel
  <2> QED
    BY <1>1, <2>1
<1>8. ASSUME NEW c \in Conns, HandlerStep(c) \/ ClientStep(c) PROVE Calm
  BY <1>8
  DEF HandlerStep, ClientStep, DisconnectLoad, DisconnectDetach, CloseSend,
      ReconnectLoad, ReconnectAttach, ReconnectStore, ReconnectSignal
<1>9. CASE UNCHANGED vars
  BY <1>9 DEF vars
<1> QED
  BY <1>2, <1>3, <1>4, <1>5, <1>6, <1>7, <1>8, <1>9

VerdictInv == GroundsOK /\ RecordOK

\* The steps that do decide, announce or record.  None of them is taken after
\* the record but a forfeit that was due when it was made.
LEMMA TickDisconnectVerdict ==
  ASSUME IInv, VerdictInv, NEW s \in Slots, TickDisconnect(s)
  PROVE  VerdictInv'
<1> USE LoopThread
<1>1. /\ pc["loop"] = "select" /\ sender[s] = None
      /\ pc' = [pc EXCEPT !["loop"] = "schedule"]
      /\ slot' = [slot EXCEPT !["loop"] = s]
      /\ UNCHANGED <<sender, score, announced, result>>
  BY DEF TickDisconnect, TickGuard, LoopAt, LoopGoes, Away, state, outcome
<1>2. pc \in [Threads -> LoopStates \cup SpawnedStates] /\ slot \in [Threads -> Slots]
  BY DEF IInv, TypeOK
<1>3. result = None
  BY <1>1 DEF VerdictInv, RecordOK
<1>4. /\ pc'["loop"] = "schedule" /\ slot'["loop"] = s
      /\ \A g \in Gs : pc'[g] = pc[g] /\ slot'[g] = slot[g]
  BY <1>1, <1>2
<1> QED
  BY <1>1, <1>3, <1>4 DEF VerdictInv, GroundsOK, RecordOK

LEMMA ScheduleVerdict ==
  ASSUME IInv, VerdictInv, NEW g \in Gs, ScheduleForfeit(g)
  PROVE  VerdictInv'
<1> USE LoopThread
<1>1. /\ pc["loop"] = "schedule"
      /\ pc' = [pc EXCEPT !["loop"] = "select", ![g] = "timer"]
      /\ slot' = [slot EXCEPT ![g] = slot["loop"], !["loop"] = 0]
      /\ UNCHANGED <<sender, score, announced, result>>
  BY DEF ScheduleForfeit, LoopAt, state, players, outcome
<1>2. pc \in [Threads -> LoopStates \cup SpawnedStates] /\ slot \in [Threads -> Slots]
  BY DEF IInv, TypeOK
<1>3. result = None /\ sender[slot["loop"]] = None
  BY <1>1 DEF VerdictInv, RecordOK, GroundsOK
<1>4. /\ pc'["loop"] = "select" /\ slot'[g] = slot["loop"]
      /\ \A h \in Gs : h # g => pc'[h] = pc[h] /\ slot'[h] = slot[h]
  BY <1>1, <1>2
<1>5. ASSUME NEW h \in Gs, pc'[h] \in {"timer", "cancel"} PROVE sender'[slot'[h]] = None
  <2>1. CASE h = g
    BY <1>1, <1>3, <1>4, <2>1
  <2>2. CASE h # g
    <3>1. pc[h] \in {"timer", "cancel"} /\ slot'[h] = slot[h]
      BY <1>4, <1>5, <2>2
    <3>2. sender[slot[h]] = None
      BY <3>1 DEF VerdictInv, GroundsOK
    <3> QED
      BY <1>1, <3>1, <3>2
  <2> QED
    BY <2>1, <2>2
<1>6. \A w \in announced' : score'[w] = PointsToWin \/ sender'[Other(w)] = None
  BY <1>1 DEF VerdictInv, GroundsOK
<1>7. GroundsOK'
  BY <1>4, <1>5, <1>6 DEF GroundsOK
<1> QED
  BY <1>1, <1>3, <1>7 DEF VerdictInv, RecordOK

LEMMA TickScoreVerdict ==
  ASSUME IInv, VerdictInv, NEW s \in Slots, TickScore(s)
  PROVE  VerdictInv'
<1> USE LoopThread
<1>1. /\ pc["loop"] = "select" /\ phase = "active"
      /\ pc' = [pc EXCEPT !["loop"] = IF Won(score[s] + 1) THEN "matchEnded"
                                      ELSE "pauseRally"]
      /\ slot' = [slot EXCEPT !["loop"] = s]
      /\ score' = [score EXCEPT ![s] = @ + 1]
      /\ UNCHANGED <<sender, announced, result>>
  BY DEF TickScore, TickGuard, LoopAt, LoopGoes, players, outcome
<1>2. /\ pc \in [Threads -> LoopStates \cup SpawnedStates]
      /\ slot \in [Threads -> Slots]
      /\ score \in [Slots -> 0 .. PointsToWin]
      /\ announced \subseteq Slots
  BY DEF IInv, TypeOK
<1>3. result = None
  BY <1>1 DEF VerdictInv, RecordOK
<1>4. \A r \in Slots : score[r] \in 0 .. PointsToWin /\ score[r] # PointsToWin
  BY <1>1, <1>2 DEF IInv, ScoreDecides
<1>5. pc'["loop"] = "matchEnded" => score'[s] = PointsToWin
  BY <1>1, <1>2, <1>4, NumberAssumption DEF Won
<1>6. /\ pc'["loop"] # "schedule" /\ slot'["loop"] = s
      /\ \A g \in Gs : pc'[g] = pc[g] /\ slot'[g] = slot[g]
  BY <1>1, <1>2
<1> QED
  BY <1>1, <1>2, <1>3, <1>4, <1>5, <1>6 DEF VerdictInv, GroundsOK, RecordOK

LEMMA EndByScoreVerdict ==
  ASSUME IInv, VerdictInv, EndByScore
  PROVE  VerdictInv'
<1> USE LoopThread
<1>1. /\ pc["loop"] = "matchEnded"
      /\ pc' = [pc EXCEPT !["loop"] = "onEnd"]
      /\ slot' = [slot EXCEPT !["loop"] = 0]
      /\ announced' = announced \cup {slot["loop"]}
      /\ UNCHANGED <<sender, score, result>>
  BY DEF EndByScore, LoopAt, LoopGoes, players, state
<1>2. pc \in [Threads -> LoopStates \cup SpawnedStates] /\ slot \in [Threads -> Slots]
  BY DEF IInv, TypeOK
<1>3. result = None
  BY <1>1 DEF VerdictInv, RecordOK
<1>4. /\ pc'["loop"] = "onEnd"
      /\ \A g \in Gs : pc'[g] = pc[g] /\ slot'[g] = slot[g]
  BY <1>1, <1>2
<1> QED
  BY <1>1, <1>3, <1>4 DEF VerdictInv, GroundsOK, RecordOK

LEMMA ForfeitCheckVerdict ==
  ASSUME IInv, VerdictInv, NEW g \in Gs, ForfeitCheck(g)
  PROVE  VerdictInv'
<1> USE LoopThread
<1>1. pc \in [Threads -> LoopStates \cup SpawnedStates] /\ slot \in [Threads -> Slots]
  BY DEF IInv, TypeOK
<1>2. pc[g] = "timer" /\ sender[slot[g]] = None /\ slot[g] \in Slots
  BY <1>1 DEF ForfeitCheck, VerdictInv, GroundsOK
<1>3. /\ pc' = [pc EXCEPT ![g] = "cancel"]
      /\ announced' = announced \cup {Other(slot[g])}
      /\ UNCHANGED <<slot, sender, score, result>>
  BY <1>2 DEF ForfeitCheck, players, state
<1>4. /\ pc'["loop"] = pc["loop"] /\ pc'[g] = "cancel"
      /\ \A h \in Gs : h # g => pc'[h] = pc[h]
  BY <1>1, <1>3
<1>5. \A w \in Slots : Recorded(w)' <=> Recorded(w)
  BY <1>3 DEF Recorded
<1>6. GroundsOK'
  BY <1>2, <1>3, <1>4, OtherSlot DEF VerdictInv, GroundsOK
<1>7. RecordOK'
  <2> SUFFICES ASSUME result # None PROVE RecordOK'
    BY <1>3 DEF RecordOK
  <2>1. Recorded(Other(slot[g]))
    BY <1>2 DEF VerdictInv, RecordOK
  <2> QED
    BY <1>3, <1>4, <2>1 DEF VerdictInv, RecordOK, Recorded
<1> QED
  BY <1>6, <1>7 DEF VerdictInv

\* What the switch of main.go makes of a winner who is there.
LEMMA ResultOfWinner ==
  ASSUME TypeOK, ScoreDecides, NEW w \in Slots, sender[w] # None,
         score[w] = PointsToWin \/ sender[Other(w)] = None
  PROVE  SlotResult(w) = "win" /\ SlotResult(Other(w)) # "win"
<1>1. /\ score[w] \in 0 .. PointsToWin /\ score[Other(w)] \in 0 .. PointsToWin
      /\ score[w] # PointsToWin \/ score[Other(w)] # PointsToWin
  BY OtherSlot DEF TypeOK, ScoreDecides, Slots, Other
<1>2. CASE sender[Other(w)] = None
  BY <1>2, OtherSlot DEF SlotResult
<1>3. CASE sender[Other(w)] # None
  <2>1. score[w] > score[Other(w)] /\ ~(score[Other(w)] > score[w])
    BY <1>1, <1>3, NumberAssumption
  <2> QED
    BY <1>3, <2>1, OtherSlot DEF SlotResult
<1> QED
  BY <1>2, <1>3

LEMMA PersistVerdict ==
  ASSUME IInv, VerdictInv, Persist
  PROVE  VerdictInv'
<1> USE LoopThread
<1>1. /\ pc' = [pc EXCEPT !["loop"] = "done"]
      /\ result' = [s \in Slots |-> SlotResult(s)]
      /\ UNCHANGED <<slot, sender, score, announced>>
  BY DEF Persist, LoopGoes, players, state
<1>2. /\ pc \in [Threads -> LoopStates \cup SpawnedStates]
      /\ slot \in [Threads -> Slots]
      /\ announced \subseteq Slots
  BY DEF IInv, TypeOK
<1>3. pc'["loop"] = "done" /\ \A g \in Gs : pc'[g] = pc[g]
  BY <1>1, <1>2
<1>4. GroundsOK'
  BY <1>1, <1>3 DEF VerdictInv, GroundsOK
<1>5. ASSUME NEW w \in Slots, score[w] = PointsToWin \/ sender[Other(w)] = None
      PROVE  Recorded(w)'
  BY <1>1, <1>5, OtherSlot, ResultOfWinner DEF Recorded, IInv
<1>6. \A w \in announced : Recorded(w)'
  BY <1>2, <1>5 DEF VerdictInv, GroundsOK
<1>7. ASSUME NEW g \in Gs, pc[g] \in {"timer", "cancel"} PROVE Recorded(Other(slot[g]))'
  <2>1. slot[g] \in Slots /\ sender[slot[g]] = None
    BY <1>2, <1>7 DEF VerdictInv, GroundsOK
  <2>2. Other(slot[g]) \in Slots /\ Other(Other(slot[g])) = slot[g]
    BY <2>1, OtherSlot
  <2>3. \A w \in Slots : w = Other(slot[g]) => Recorded(w)'
    BY <1>5, <2>1, <2>2
  <2> QED
    BY <1>1, <2>2, <2>3 DEF Recorded
<1>8. RecordOK'
  BY <1>1, <1>3, <1>6, <1>7 DEF RecordOK, Recorded
<1> QED
  BY <1>4, <1>8 DEF VerdictInv

LEMMA VerdictStep ==
  IInv /\ VerdictInv /\ NoSecondGuest' /\ [Next]_vars => VerdictInv'
<1> SUFFICES ASSUME IInv, VerdictInv, NoSecondGuest', [Next]_vars PROVE VerdictInv'
  OBVIOUS
<1>1. Calm => VerdictInv'
  BY SlotStaysEmpty, CalmKeeps DEF VerdictInv, IInv
<1>2. CASE LoopStep
  BY <1>1, <1>2, LoopThread, CalmSteps, TickDisconnectVerdict, ScheduleVerdict,
     TickScoreVerdict, EndByScoreVerdict, PersistVerdict
  DEF LoopStep, IInv
<1>3. ASSUME NEW g \in Gs, SpawnedStep(g) PROVE VerdictInv'
  BY <1>1, <1>3, LoopThread, CalmSteps, ForfeitCheckVerdict DEF SpawnedStep, IInv
<1>4. CASE \/ \E c \in Conns : HandlerStep(c) \/ ClientStep(c)
           \/ UNCHANGED vars
  BY <1>1, <1>4, CalmSteps DEF IInv
<1> QED
  BY <1>2, <1>3, <1>4 DEF Next

\* What is announced has its grounds, and what is recorded agrees with it.
THEOREM VerdictInvariant == Spec /\ []NoSecondGuest => []VerdictInv
<1>1. Init => VerdictInv
  BY NameAssumption DEF Init, VerdictInv, GroundsOK, RecordOK, Threads
<1> QED
  BY <1>1, VerdictStep, InductiveInvariant, PTL DEF Spec

\* No forfeit is declared against a player who is there, though the timer acts
\* on a check whose lock it has released; and a winner without the points has
\* an opponent who has gone, for good.  Of a slot with two guests it is not so:
\* the second may attach between the check and the broadcast.
THEOREM NoForfeitOfThePresent == Spec /\ []NoSecondGuest => []NoForfeitOfAttached
<1>1. VerdictInv => NoForfeitOfAttached
  BY DEF VerdictInv, GroundsOK, NoForfeitOfAttached
<1> QED
  BY <1>1, VerdictInvariant, PTL

\* The record of a match names every winner that is announced and still there,
\* even one announced by a timer after the record was taken, where an empty
\* slot stays empty.
THEOREM RecordsAgree == Spec /\ []NoSecondGuest => []RecordAgrees
<1>1. VerdictInv => RecordAgrees
  BY DEF VerdictInv, RecordOK, Recorded, RecordAgrees
<1> QED
  BY <1>1, VerdictInvariant, PTL

-----------------------------------------------------------------------------
(* A paused match is never forgotten *)

\* A step that neither pauses nor ends a pause, and starts or ends no thread.
LEMMA WakerStays ==
  ASSUME PausedHasWaker, paused' => paused, ctxDone => ctxDone',
         \A g \in Gs : pc[g] # "free" => pc'[g] # "free"
  PROVE  PausedHasWaker'
  BY DEF PausedHasWaker

LEMMA WakerStep == IInv /\ VerdictInv /\ PausedHasWaker /\ [Next]_vars => PausedHasWaker'
<1> SUFFICES ASSUME IInv, VerdictInv, PausedHasWaker, [Next]_vars
             PROVE  PausedHasWaker'
  OBVIOUS
<1> USE LoopThread
<1>1. /\ pc \in [Threads -> LoopStates \cup SpawnedStates]
      /\ \A g \in Gs : g \in Threads /\ g # "loop"
  BY DEF IInv, TypeOK
<1>2. CASE LoopStep
  <2>1. ASSUME NEW g \in Gs, ScheduleForfeit(g) \/ PauseRally(g) PROVE PausedHasWaker'
    <3>1. pc' = [pc EXCEPT !["loop"] = "select", ![g] = "timer"]
          \/ pc' = [pc EXCEPT !["loop"] = "select", ![g] = "rally"]
      BY <2>1 DEF ScheduleForfeit, PauseRally
    <3>2. pc'[g] # "free"
      BY <1>1, <3>1
    <3> QED
      BY <3>2 DEF PausedHasWaker
  <2>2. CASE \/ PickSender("loop") \/ SendBytes("loop") \/ Activate \/ LoopCancelled
             \/ LoopReconnect \/ TickPlay \/ EndByScore \/ DeleteRun \/ ReadConnID
             \/ Unindex \/ Persist
             \/ \E s \in Slots : TickDisconnect(s) \/ TickScore(s)
    <3>1. /\ paused' => paused
          /\ ctxDone' = ctxDone
          /\ pc' = pc \/ \E l \in LoopStates : pc' = [pc EXCEPT !["loop"] = l]
      BY <2>2
      DEF PickSender, SendBytes, Activate, LoopCancelled, LoopReconnect, TickPlay,
          EndByScore, DeleteRun, ReadConnID, Unindex, Persist, TickDisconnect,
          TickScore, LoopGoes, LoopStates
    <3>2. \A g \in Gs : pc'[g] = pc[g]
      BY <1>1, <3>1
    <3> QED
      BY <3>1, <3>2, WakerStays
  <2> QED
    BY <1>2, <2>1, <2>2 DEF LoopStep
<1>3. ASSUME NEW g \in Gs, SpawnedStep(g) PROVE PausedHasWaker'
  <2>1. CASE PickSender(g) \/ SendBytes(g)
    BY <2>1, WakerStays DEF PickSender, SendBytes
  <2>2. CASE RallyReset(g)
    BY <1>1, <2>2, WakerStays DEF RallyReset
  <2>3. CASE Unpause(g)
    BY <2>3 DEF Unpause, PausedHasWaker
  <2>4. CASE ForfeitCheck(g)
    <3>1. sender[slot[g]] = None
      BY <2>4 DEF ForfeitCheck, VerdictInv, GroundsOK
    <3>2. pc' = [pc EXCEPT ![g] = "cancel"] /\ UNCHANGED <<paused, ctxDone>>
      BY <2>4, <3>1 DEF ForfeitCheck
    <3> QED
      BY <1>1, <3>2, WakerStays
  <2>5. CASE Cancel(g)
    BY <2>5 DEF Cancel, CancelContext, PausedHasWaker
  <2> QED
    BY <1>3, <2>1, <2>2, <2>3, <2>4, <2>5 DEF SpawnedStep
<1>4. CASE \/ \E c \in Conns : HandlerStep(c) \/ ClientStep(c)
           \/ UNCHANGED vars
  BY <1>4, WakerStays
  DEF HandlerStep, ClientStep, DisconnectLoad, DisconnectDetach, CloseSend,
      ReconnectLoad, ReconnectAttach, ReconnectStore, ReconnectSignal, threads, vars
<1> QED
  BY <1>2, <1>3, <1>4 DEF Next

\* While the loop is paused a goroutine or timer that will wake it or end the
\* match is alive, or the context is cancelled, where an empty slot stays empty:
\* what the liveness of the match rests on.
THEOREM PauseEnds == Spec /\ []NoSecondGuest => []PausedHasWaker
<1>1. Init => PausedHasWaker
  BY DEF Init, PausedHasWaker
<1> QED
  BY <1>1, WakerStep, InductiveInvariant, VerdictInvariant, PTL DEF Spec

-----------------------------------------------------------------------------
(* Who holds what to send *)

\* A slot has the Sender it started with or none.  A thread that has just begun
\* has nothing to send, and a Sender is only held for the next message: it is
\* the connection that message is for.
SendersOK ==
    /\ \A s \in Slots : sender[s] \in {None, Original[s]}
    /\ \A g \in Gs : pc[g] \in {"free", "rally", "timer"} => Sent(g)
    /\ \A t \in Threads : held[t] # None =>
          \/ t = "loop" /\ pc["loop"] = "unindex"
          \/ ~Sent(t) /\ held[t] = Original[Head(todo[t]).to]

\* A thread of the run that takes on new messages has nothing left to send and
\* holds no Sender; the others go on as they were.

LEMMA SendersTurn ==
  ASSUME SendersOK, NEW t \in Threads, Sent(t),
         t = "loop" => pc["loop"] # "unindex",
         t # "loop" => pc'["loop"] = pc["loop"],
         UNCHANGED <<sender, held>>,
         \A u \in Threads : u # t => todo'[u] = todo[u],
         \A g \in Gs : pc'[g] \in {"free", "rally", "timer"} => Sent(g)'
  PROVE  SendersOK'
<1>1. held[t] = None
  BY DEF SendersOK
<1>2. ASSUME NEW u \in Threads, held[u] # None
      PROVE  \/ u = "loop" /\ pc'["loop"] = "unindex"
             \/ ~Sent(u)' /\ held[u] = Original[Head(todo'[u]).to]
  BY <1>1, <1>2 DEF SendersOK, Sent
<1> QED
  BY <1>2 DEF SendersOK

\* The two halves of a send.
LEMMA SendersSend ==
  ASSUME IInv, SendersOK, NEW t \in Threads, PickSender(t) \/ SendBytes(t)
  PROVE  SendersOK'
<1>1. /\ todo \in [Threads -> Seq(Message)]
      /\ held \in [Threads -> Conns \cup {None}]
      /\ todo[t] # <<>>
      /\ UNCHANGED <<pc, sender>>
  BY DEF PickSender, SendBytes, Sent, IInv, TypeOK, players
<1>2. \/ todo' = [todo EXCEPT ![t] = Tail(@)] /\ held'[t] = None
      \/ todo' = todo /\ held'[t] \in {held[t], Original[Head(todo[t]).to]}
  <2>1. Head(todo[t]) \in Message
    BY <1>1, HeadTailProperties
  <2>2. Head(todo[t]).to \in Slots
    BY <2>1 DEF Message
  <2>3. sender[Head(todo[t]).to] \in {None, Original[Head(todo[t]).to]}
    BY <2>2 DEF SendersOK
  <2> QED
    BY <1>1, <2>3 DEF PickSender, SendBytes
<1>3. \A u \in Threads : u # t => todo'[u] = todo[u] /\ held'[u] = held[u]
  BY <1>1 DEF PickSender, SendBytes
<1>4. \A g \in Gs : pc'[g] \in {"free", "rally", "timer"} => Sent(g)'
  BY <1>1, <1>2, <1>3, LoopThread DEF SendersOK, Sent
<1>5. ASSUME NEW u \in Threads, held'[u] # None
      PROVE  \/ u = "loop" /\ pc'["loop"] = "unindex"
             \/ ~Sent(u)' /\ held'[u] = Original[Head(todo'[u]).to]
  <2>1. CASE u # t
    BY <1>1, <1>3, <1>5, <2>1 DEF SendersOK, Sent
  <2>2. CASE u = t
    BY <1>1, <1>2, <1>5, <2>2 DEF SendersOK, Sent
  <2> QED
    BY <2>1, <2>2
<1> QED
  BY <1>1, <1>4, <1>5 DEF SendersOK

\* While no match.reconnect is accepted.
LEMMA SendersStep == IInv /\ SendersOK /\ NoneAccepted' /\ [Next]_vars => SendersOK'
<1> SUFFICES ASSUME IInv, SendersOK, NoneAccepted', [Next]_vars PROVE SendersOK'
  OBVIOUS
<1> USE LoopThread
<1>1. /\ pc \in [Threads -> LoopStates \cup SpawnedStates]
      /\ todo \in [Threads -> Seq(Message)]
      /\ held \in [Threads -> Conns \cup {None}]
      /\ \A g \in Gs : g \in Threads /\ g # "loop"
  BY DEF IInv, TypeOK
<1>2. CASE LoopStep
  <2>1. CASE PickSender("loop") \/ SendBytes("loop")
    BY <2>1, SendersSend
  <2>2. CASE \/ Activate \/ LoopCancelled \/ LoopReconnect \/ TickPlay \/ EndByScore
             \/ DeleteRun \/ Persist \/ \E s \in Slots : TickDisconnect(s) \/ TickScore(s)
    <3>1. /\ Sent("loop") /\ pc["loop"] # "unindex"
          /\ UNCHANGED <<sender, held>>
          /\ \E l : pc' = [pc EXCEPT !["loop"] = l]
          /\ \E q : todo' = [todo EXCEPT !["loop"] = q]
      BY <2>2
      DEF Activate, LoopCancelled, LoopReconnect, TickPlay, EndByScore, DeleteRun,
          Persist, TickDisconnect, TickScore, TickGuard, LoopAt, LoopGoes, players
    <3>2. /\ \A g \in Gs : pc'[g] = pc[g]
          /\ \A u \in Threads : u # "loop" => todo'[u] = todo[u]
      BY <1>1, <3>1
    <3>3. \A g \in Gs : pc'[g] \in {"free", "rally", "timer"} => Sent(g)'
      BY <1>1, <3>2 DEF SendersOK, Sent
    <3> QED
      BY <3>1, <3>2, <3>3, SendersTurn
  <2>3. ASSUME NEW g \in Gs, ScheduleForfeit(g) \/ PauseRally(g) PROVE SendersOK'
    <3>1. /\ Sent("loop") /\ pc["loop"] # "unindex" /\ pc[g] = "free"
          /\ UNCHANGED <<sender, todo, held>>
          /\ \E l \in {"timer", "rally"} : pc' = [pc EXCEPT !["loop"] = "select", ![g] = l]
      BY <2>3 DEF ScheduleForfeit, PauseRally, LoopAt, players
    <3>2. \A h \in Gs : h # g => pc'[h] = pc[h]
      BY <1>1, <3>1
    <3>3. \A h \in Gs : pc'[h] \in {"free", "rally", "timer"} => Sent(h)'
      BY <3>1, <3>2 DEF SendersOK, Sent
    <3> QED
      BY <3>1, <3>3, SendersTurn
  <2>4. CASE ReadConnID
    <3>1. /\ pc["loop"] = "unindex" /\ UNCHANGED <<sender, pc, todo>>
          /\ held' = [held EXCEPT !["loop"] = connID[slot["loop"]]]
      BY <2>4 DEF ReadConnID, LoopAt, players
    <3> QED
      BY <1>1, <3>1 DEF SendersOK, Sent
  <2>5. CASE Unindex
    <3>1. /\ held' = [held EXCEPT !["loop"] = None] /\ UNCHANGED <<sender, todo>>
          /\ pc' = pc \/ pc' = [pc EXCEPT !["loop"] = "persist"]
      BY <2>5 DEF Unindex, players
    <3> QED
      BY <1>1, <3>1 DEF SendersOK, Sent
  <2> QED
    BY <1>2, <2>1, <2>2, <2>3, <2>4, <2>5 DEF LoopStep
<1>3. ASSUME NEW g \in Gs, SpawnedStep(g) PROVE SendersOK'
  <2>1. CASE PickSender(g) \/ SendBytes(g)
    BY <2>1, SendersSend
  <2>2. CASE RallyReset(g)
    <3>1. /\ Sent(g) /\ UNCHANGED <<sender, held>>
          /\ pc' = [pc EXCEPT ![g] = "unpause"]
          /\ \E q : todo' = [todo EXCEPT ![g] = q]
      BY <2>2 DEF RallyReset, SendersOK, players
    <3>2. \A h \in Gs : pc'[h] \in {"free", "rally", "timer"} => Sent(h)'
      BY <1>1, <3>1 DEF SendersOK, Sent
    <3> QED
      BY <1>1, <3>1, <3>2, SendersTurn
  <2>3. CASE Unpause(g) \/ Cancel(g)
    <3>1. /\ Sent(g) /\ UNCHANGED <<sender, todo, held>>
          /\ pc' = [pc EXCEPT ![g] = "free"]
      BY <2>3 DEF Unpause, Cancel, players
    <3>2. \A h \in Gs : pc'[h] \in {"free", "rally", "timer"} => Sent(h)'
      BY <1>1, <3>1 DEF SendersOK, Sent
    <3> QED
      BY <1>1, <3>1, <3>2, SendersTurn
  <2>4. CASE ForfeitCheck(g)
    <3>1. /\ Sent(g) /\ UNCHANGED <<sender, held>>
          /\ \/ /\ pc' = [pc EXCEPT ![g] = "cancel"]
                /\ \E q : todo' = [todo EXCEPT ![g] = q]
             \/ pc' = [pc EXCEPT ![g] = "free"] /\ UNCHANGED todo
      BY <2>4 DEF ForfeitCheck, SendersOK, players
    <3>2. \A h \in Gs : pc'[h] \in {"free", "rally", "timer"} => Sent(h)'
      BY <1>1, <3>1 DEF SendersOK, Sent
    <3> QED
      BY <1>1, <3>1, <3>2, SendersTurn
  <2> QED
    BY <1>3, <2>1, <2>2, <2>3, <2>4 DEF SpawnedStep
<1>4. CASE \/ \E c \in Conns : HandlerStep(c) \/ ClientStep(c)
           \/ UNCHANGED vars
  <2>1. UNCHANGED <<pc, todo, held>>
    BY <1>4
    DEF HandlerStep, ClientStep, DisconnectLoad, DisconnectDetach, CloseSend,
        ReconnectLoad, ReconnectAttach, ReconnectStore, ReconnectSignal, threads, vars
  <2>2. \A s \in Slots : sender'[s] \in {None, Original[s]}
    <3>1. \A s \in Slots : at'[Sessions[s]] # "attached"
      BY ConnAssumption DEF NoneAccepted
    <3> QED
      BY <3>1, SenderStep DEF IInv, SendersOK
  <2> QED
    BY <2>1, <2>2 DEF SendersOK, Sent
<1> QED
  BY <1>2, <1>3, <1>4 DEF Next

-----------------------------------------------------------------------------
(* The stages of a match in which no match.reconnect has found a slot *)

Notice == [to : Slots, kind : Notices, winner : {None}]

\* Nothing is decided, and nobody has been told anything else.
Before ==
    /\ announced = {}
    /\ ~ctxDone
    /\ \A c \in Conns : verdicts[c] = {}
    /\ \A t \in Threads : todo[t] \in Seq(Notice)

\* t is telling the players that w has won: slot 0 first, then slot 1.
LastWords(t, w) ==
    \/ todo[t] = ToBoth("match.ended", w) /\ \A c \in Conns : verdicts[c] = {}
    \/ todo[t] = <<Msg(1, "match.ended", w)>> /\ verdicts[Original[1]] = {}
    \/ Sent(t)

NobodyAway == \A s \in Slots : ~deadline[s]
Idle == \A g \in Gs : pc[g] = "free"
Only(g) == \A h \in Gs : h # g => pc[h] = "free"

\* The loop counts down or ticks.
InPlay ==
    /\ Before /\ NobodyAway /\ Idle /\ ~paused
    /\ pc["loop"] \in {"countdown", "select"}
    /\ out = None

\* It has seen a point, or the last one.
Scored ==
    /\ Before /\ NobodyAway /\ Idle /\ ~paused
    /\ pc["loop"] \in {"pauseRally", "matchEnded"}

BetweenRallies(g) ==
    /\ Before /\ NobodyAway /\ Only(g) /\ paused
    /\ LoopAt("select")
    /\ pc[g] \in {"rally", "unpause"}
    /\ pc[g] = "unpause" => out = None

\* It has seen that a player is away.
Noticed == Before /\ Idle /\ ~paused /\ pc["loop"] = "schedule"

Waiting(g) ==
    /\ Before /\ Only(g) /\ paused
    /\ LoopAt("select")
    /\ pc[g] = "timer"

Forfeiting(g) ==
    /\ Only(g) /\ paused /\ ~ctxDone
    /\ LoopAt("select")
    /\ pc[g] = "cancel"
    /\ \E w \in Slots : announced = {w} /\ LastWords(g, w)

\* The match is decided: the context is cancelled, or the loop has returned.
Over ==
    /\ Idle
    /\ \E w \in Slots :
        /\ announced = {w}
        /\ \/ paused /\ LoopAt("select")
           \/ pc["loop"] = "onEnd" /\ LastWords("loop", w)
           \/ pc["loop"] \in {"unindex", "persist", "done"} /\ Sent("loop")

Stage ==
    \/ InPlay \/ Scored \/ Noticed \/ Over
    \/ \E g \in Gs : BetweenRallies(g) \/ Waiting(g) \/ Forfeiting(g)

\* No HandleReconnect is past its lookup, and none has signalled the loop.
NoSignal ==
    /\ reconnectCh = <<>>
    /\ \A c \in Conns : at[c] \notin {"attached", "signalling"}

StageOK == NoSignal /\ Stage

\* What is known of such a match besides its stage.
Quiet == IInv /\ VerdictInv /\ SendersOK /\ NoSignal

\* The part of the state that tells the stages apart.
stageVars == <<announced, ctxDone, verdicts, todo, deadline, pc, paused, out>>

LEMMA StageStays == ASSUME Stage, UNCHANGED stageVars PROVE Stage'
  BY DEF Stage, stageVars, InPlay, Scored, Noticed, Over, BetweenRallies, Waiting, Forfeiting,
         Before, NobodyAway, Idle, Only, LoopAt, LastWords, Sent

\* Notices are messages, and broadcasts of them are.
LEMMA NoticeType ==
  /\ \A k \in Notices : ToBoth(k, None) \in Seq(Notice)
  /\ \A k \in Notices, s \in Slots : <<Msg(s, k, None)>> \in Seq(Notice)
  /\ \A n \in Notice : n.kind # "match.ended"
<1>1. \A k \in Notices, s \in Slots : Msg(s, k, None) \in Notice
  BY DEF Msg, Notice
<1>2. \A k \in Notices : ToBoth(k, None) \in Seq(Notice)
  BY <1>1 DEF ToBoth, Slots
<1>3. \A n \in Notice : n.kind # "match.ended"
  BY DEF Notice, Notices
<1> QED
  BY <1>1, <1>2, <1>3

\* In every stage but the last words, what is sent is no verdict.
LEMMA BeforeSends ==
  ASSUME Before, NEW t \in Threads, ~Sent(t),
         todo \in [Threads -> Seq(Message)],
         todo' = [todo EXCEPT ![t] = Tail(@)],
         UNCHANGED <<announced, ctxDone>>,
         UNCHANGED verdicts \/ Head(todo[t]).kind = "match.ended"
  PROVE  Before'
<1>1. todo[t] \in Seq(Notice) /\ todo[t] # <<>>
  BY DEF Before, Sent
<1>2. Head(todo[t]) \in Notice /\ Tail(todo[t]) \in Seq(Notice)
  BY <1>1, HeadTailProperties
<1>3. UNCHANGED verdicts
  BY <1>2, NoticeType
<1> QED
  BY <1>2, <1>3 DEF Before

\* The last words take their course: slot 0 is told, then slot 1, and nobody
\* is told twice.
LEMMA LastWordsSend ==
  ASSUME TypeOK, NEW t \in Threads, NEW w, LastWords(t, w), ~Sent(t),
         todo' = [todo EXCEPT ![t] = Tail(@)],
         \/ UNCHANGED verdicts
         \/ \E v : verdicts' = [verdicts EXCEPT ![Original[Head(todo[t]).to]] = @ \cup {v}]
  PROVE  LastWords(t, w)'
<1>1. todo' \in [Threads -> Seq(Message)] /\ todo'[t] = Tail(todo[t])
  <2>1. todo[t] \in Seq(Message) /\ todo[t] # <<>>
    BY DEF TypeOK, Sent
  <2>2. Tail(todo[t]) \in Seq(Message)
    BY <2>1, HeadTailProperties
  <2> QED
    BY <2>2 DEF TypeOK
<1>2. CASE todo[t] = ToBoth("match.ended", w) /\ \A c \in Conns : verdicts[c] = {}
  <2>1. /\ Head(todo[t]).to = 0
        /\ Tail(todo[t]) = <<Msg(1, "match.ended", w)>>
    BY <1>2 DEF ToBoth, Msg
  <2>2. /\ Original[0] \in Conns /\ Original[1] \in Conns
        /\ Original[0] # Original[1]
    BY ConnAssumption DEF Slots
  <2>3. verdicts'[Original[1]] = {}
    BY <1>2, <2>1, <2>2 DEF TypeOK
  <2> QED
    BY <1>1, <2>1, <2>3 DEF LastWords
<1>3. CASE todo[t] = <<Msg(1, "match.ended", w)>>
  <2>1. Tail(todo[t]) = <<>>
    BY <1>3
  <2> QED
    BY <1>1, <2>1 DEF LastWords, Sent
<1> QED
  BY <1>2, <1>3 DEF LastWords

LEMMA SendStage ==
  ASSUME Quiet, Stage, NEW t \in Threads, PickSender(t) \/ SendBytes(t)
  PROVE  Stage'
<1> USE LoopThread
<1>1. /\ TypeOK
      /\ todo \in [Threads -> Seq(Message)]
      /\ \A g \in Gs : pc[g] = "free" => Sent(g)
      /\ ~Sent(t)
  BY DEF Quiet, IInv, TypeOK, SendersOK, PickSender, SendBytes
<1>2. /\ UNCHANGED <<announced, ctxDone, deadline, pc, paused, out>>
      /\ \/ UNCHANGED <<todo, verdicts>>
         \/ /\ todo' = [todo EXCEPT ![t] = Tail(@)]
            /\ \/ UNCHANGED verdicts
               \/ /\ Head(todo[t]).kind = "match.ended"
                  /\ \E v : verdicts' = [verdicts EXCEPT
                                ![Original[Head(todo[t]).to]] = @ \cup {v}]
  <2>1. CASE PickSender(t)
    BY <2>1 DEF PickSender, players, state, outcome
  <2>2. CASE SendBytes(t)
    <3>1. \/ held[t] = Original[Head(todo[t]).to]
          \/ pc["loop"] = "unindex" /\ t = "loop"
      BY <2>2 DEF SendBytes, Quiet, SendersOK
    <3>2. ~(pc["loop"] = "unindex" /\ t = "loop")
      <4> SUFFICES ASSUME pc["loop"] = "unindex", t = "loop" PROVE FALSE
        OBVIOUS
      <4>1. Over
        BY DEF Stage, InPlay, Scored, Noticed, BetweenRallies, Waiting, Forfeiting, LoopAt
      <4> QED
        BY <1>1, <4>1 DEF Over, LoopAt
    <3> QED
      BY <2>2, <3>1, <3>2 DEF SendBytes, players, state
  <2> QED
    BY <2>1, <2>2
<1>3. CASE UNCHANGED <<todo, verdicts>>
  BY <1>2, <1>3, StageStays DEF stageVars
<1>4. CASE todo' = [todo EXCEPT ![t] = Tail(@)]
  <2>1. \A u \in Threads : u # t => todo'[u] = todo[u]
    BY <1>1, <1>4
  <2>2. Before => Before'
    BY <1>1, <1>2, <1>4, BeforeSends
  <2>3. \A w : LastWords(t, w) => LastWords(t, w)'
    BY <1>1, <1>2, <1>4, LastWordsSend
  <2>4. CASE InPlay
    BY <1>2, <2>2, <2>4 DEF InPlay, Stage, NobodyAway, Idle
  <2>5. CASE Scored
    BY <1>2, <2>2, <2>5 DEF Scored, Stage, NobodyAway, Idle
  <2>6. CASE Noticed
    BY <1>2, <2>2, <2>6 DEF Noticed, Stage, Idle
  <2>7. CASE Over
    <3>1. t = "loop" /\ pc["loop"] = "onEnd"
      BY <1>1, <2>7 DEF Over, Idle, LoopAt, Threads
    <3>2. PICK w \in Slots : announced = {w} /\ LastWords("loop", w)
      BY <2>7, <3>1 DEF Over, LoopAt
    <3>3. LastWords("loop", w)'
      BY <2>3, <3>1, <3>2
    <3> QED
      BY <1>2, <2>7, <3>1, <3>2, <3>3 DEF Over, Idle, Stage
  <2>8. ASSUME NEW g \in Gs, BetweenRallies(g) \/ Waiting(g) PROVE Stage'
    <3>1. LoopAt("select")' /\ Before'
      BY <1>1, <1>2, <2>1, <2>2, <2>8 DEF BetweenRallies, Waiting, LoopAt, Sent
    <3> QED
      BY <1>2, <2>8, <3>1 DEF BetweenRallies, Waiting, Stage, Only, NobodyAway
  <2>9. ASSUME NEW g \in Gs, Forfeiting(g) PROVE Stage'
    <3>1. t = g /\ t # "loop"
      BY <1>1, <2>9 DEF Forfeiting, Only, LoopAt, Threads
    <3>2. LoopAt("select")'
      BY <1>2, <2>1, <2>9, <3>1 DEF Forfeiting, LoopAt, Sent
    <3>3. PICK w \in Slots : announced = {w} /\ LastWords(g, w)
      BY <2>9 DEF Forfeiting
    <3>4. LastWords(g, w)'
      BY <2>3, <3>1, <3>3
    <3>5. Forfeiting(g)'
      BY <1>2, <2>9, <3>2, <3>3, <3>4 DEF Forfeiting, Only
    <3> QED
      BY <3>5 DEF Stage
  <2> QED
    BY <2>4, <2>5, <2>6, <2>7, <2>8, <2>9 DEF Stage
<1> QED
  BY <1>2, <1>3, <1>4

\* Which stage a loop that ticks is in, and a loop past a point or a disconnect.
LEMMA StageOfLoop ==
  ASSUME Stage
  PROVE  /\ pc["loop"] = "countdown" => InPlay
         /\ TickGuard => InPlay
         /\ pc["loop"] \in {"pauseRally", "matchEnded"} => Scored
         /\ pc["loop"] = "schedule" => Noticed
         /\ pc["loop"] \in {"onEnd", "unindex", "persist", "done"} => Over
         /\ ctxDone => Over
  BY DEF Stage, InPlay, Scored, Noticed, Over, BetweenRallies, Waiting, Forfeiting,
         Before, TickGuard, LoopAt

LEMMA LoopStage ==
  ASSUME Quiet, Stage, LoopStep
  PROVE  Stage'
<1> USE LoopThread
<1>1. /\ pc \in [Threads -> LoopStates \cup SpawnedStates]
      /\ todo \in [Threads -> Seq(Message)]
      /\ slot \in [Threads -> Slots]
      /\ deadline \in [Slots -> BOOLEAN]
      /\ announced \subseteq Slots
      /\ \A g \in Gs : g \in Threads /\ g # "loop"
  BY DEF Quiet, IInv, TypeOK
\* LoopGoes leaves the other threads alone.
<1>2. ASSUME NEW l, NEW q, LoopGoes(l, q)
      PROVE  /\ pc'["loop"] = l /\ todo'["loop"] = q
             /\ Idle => Idle'
             /\ \A u \in Threads : u # "loop" => todo'[u] = todo[u]
  BY <1>1, <1>2 DEF LoopGoes, Idle
<1>3. ASSUME NEW l, NEW q \in Seq(Notice), LoopGoes(l, q), Before,
             UNCHANGED <<announced, ctxDone, verdicts>>
      PROVE  Before'
  BY <1>2, <1>3 DEF Before
<1>4. CASE PickSender("loop") \/ SendBytes("loop")
  BY <1>4, SendStage
<1>5. CASE Activate
  <2>1. /\ InPlay
        /\ LoopGoes("select", ToBoth("match.started", None))
        /\ UNCHANGED <<announced, ctxDone, verdicts, deadline, paused, out>>
    BY <1>5, StageOfLoop DEF Activate, LoopAt, players, outcome
  <2>2. ToBoth("match.started", None) \in Seq(Notice)
    BY NoticeType DEF Notices
  <2>3. InPlay'
    BY <1>2, <1>3, <2>1, <2>2 DEF InPlay, NobodyAway
  <2> QED
    BY <2>3 DEF Stage
<1>6. CASE LoopCancelled
  <2>1. /\ Over /\ LoopGoes("onEnd", <<>>) /\ UNCHANGED announced
    BY <1>6, StageOfLoop DEF LoopCancelled, outcome
  <2>2. Over'
    BY <1>2, <2>1 DEF Over, LastWords, Sent
  <2> QED
    BY <2>2 DEF Stage
<1>7. ~LoopReconnect
  BY DEF LoopReconnect, Quiet, NoSignal
<1>8. CASE TickPlay
  <2>1. /\ InPlay
        /\ LoopGoes("select", ToBoth("match.snapshot", None))
        /\ UNCHANGED <<announced, ctxDone, verdicts, deadline, paused, out>>
    BY <1>8, StageOfLoop DEF TickPlay, players, outcome, state
  <2>2. ToBoth("match.snapshot", None) \in Seq(Notice)
    BY NoticeType DEF Notices
  <2>3. InPlay'
    BY <1>2, <1>3, <2>1, <2>2 DEF InPlay, NobodyAway
  <2> QED
    BY <2>3 DEF Stage
<1>9. ASSUME NEW s \in Slots, TickDisconnect(s) PROVE Stage'
  <2>1. /\ InPlay
        /\ LoopGoes("schedule", <<Msg(Other(s), "player.disconnected", None)>>)
        /\ UNCHANGED <<announced, ctxDone, verdicts, paused>>
    BY <1>9, StageOfLoop DEF TickDisconnect, outcome
  <2>2. <<Msg(Other(s), "player.disconnected", None)>> \in Seq(Notice)
    BY NoticeType, OtherSlot DEF Notices
  <2>3. Noticed'
    BY <1>2, <1>3, <2>1, <2>2 DEF InPlay, Noticed
  <2> QED
    BY <2>3 DEF Stage
<1>10. ASSUME NEW s \in Slots, TickScore(s) PROVE Stage'
  <2> DEFINE l == IF Won(score[s] + 1) THEN "matchEnded" ELSE "pauseRally"
  <2>1. /\ InPlay
        /\ LoopGoes(l, ToBoth("match.score", None))
        /\ UNCHANGED <<announced, ctxDone, verdicts, deadline, paused>>
    BY <1>10, StageOfLoop DEF TickScore, players, outcome
  <2>2. ToBoth("match.score", None) \in Seq(Notice)
    BY NoticeType DEF Notices
  <2>3. l \in {"pauseRally", "matchEnded"}
    OBVIOUS
  <2> HIDE DEF l
  <2>4. Scored'
    BY <1>2, <1>3, <2>1, <2>2, <2>3 DEF InPlay, Scored, NobodyAway
  <2> QED
    BY <2>4 DEF Stage
<1>11. ASSUME NEW g \in Gs, ScheduleForfeit(g) PROVE Stage'
  <2>1. /\ Noticed /\ Sent("loop") /\ paused'
        /\ pc' = [pc EXCEPT !["loop"] = "select", ![g] = "timer"]
        /\ UNCHANGED <<announced, ctxDone, verdicts, todo>>
    BY <1>11, StageOfLoop DEF ScheduleForfeit, LoopAt, PauseForReconnect, outcome
  <2>2. /\ pc'["loop"] = "select" /\ pc'[g] = "timer"
        /\ \A h \in Gs : h # g => pc'[h] = pc[h]
    BY <1>1, <2>1
  <2>3. Waiting(g)'
    BY <2>1, <2>2 DEF Noticed, Waiting, Before, Idle, Only, LoopAt, Sent
  <2> QED
    BY <2>3 DEF Stage
<1>12. ASSUME NEW g \in Gs, PauseRally(g) PROVE Stage'
  <2>1. /\ Scored /\ Sent("loop") /\ paused'
        /\ pc' = [pc EXCEPT !["loop"] = "select", ![g] = "rally"]
        /\ UNCHANGED <<announced, ctxDone, verdicts, todo, deadline>>
    BY <1>12, StageOfLoop DEF PauseRally, LoopAt, PauseForRally, outcome, players
  <2>2. /\ pc'["loop"] = "select" /\ pc'[g] = "rally"
        /\ \A h \in Gs : h # g => pc'[h] = pc[h]
    BY <1>1, <2>1
  <2>3. BetweenRallies(g)'
    BY <2>1, <2>2 DEF Scored, BetweenRallies, Before, Idle, Only, LoopAt, Sent, NobodyAway
  <2> QED
    BY <2>3 DEF Stage
<1>13. CASE EndByScore
  <2>1. /\ Scored
        /\ LoopGoes("onEnd", ToBoth("match.ended", slot["loop"]))
        /\ announced' = announced \cup {slot["loop"]}
        /\ UNCHANGED verdicts
    BY <1>13, StageOfLoop DEF EndByScore, LoopAt
  <2>2. PICK w \in Slots : w = slot["loop"]
    BY <1>1
  <2>3. announced' = {w} /\ todo'["loop"] = ToBoth("match.ended", w)
    BY <1>2, <2>1, <2>2 DEF Scored, Before
  <2>4. LastWords("loop", w)'
    BY <2>1, <2>3 DEF LastWords, Scored, Before
  <2> QED
    BY <1>2, <2>1, <2>3, <2>4 DEF Over, Stage, Scored
<1>14. CASE DeleteRun
  <2>1. /\ Over /\ LoopGoes("unindex", <<>>) /\ UNCHANGED announced
    BY <1>14, StageOfLoop DEF DeleteRun, LoopAt, outcome
  <2>2. Over'
    BY <1>2, <2>1 DEF Over, Sent
  <2> QED
    BY <2>2 DEF Stage
<1>15. CASE ReadConnID
  BY <1>15, StageStays DEF ReadConnID, stageVars, state, players, outcome
<1>16. CASE Unindex
  <2>1. /\ Over /\ pc["loop"] = "unindex" /\ Sent("loop")
        /\ UNCHANGED <<announced, todo>>
        /\ pc' = pc \/ pc' = [pc EXCEPT !["loop"] = "persist"]
    BY <1>16, StageOfLoop DEF Unindex, LoopAt, outcome
  <2>2. Over'
    BY <1>1, <2>1 DEF Over, Sent, Idle, LoopAt
  <2> QED
    BY <2>2 DEF Stage
<1>17. CASE Persist
  <2>1. /\ Over /\ LoopGoes("done", <<>>) /\ UNCHANGED announced
    BY <1>17, StageOfLoop DEF Persist, LoopAt
  <2>2. Over'
    BY <1>2, <2>1 DEF Over, Sent
  <2> QED
    BY <2>2 DEF Stage
<1> QED
  BY <1>4, <1>5, <1>6, <1>7, <1>8, <1>9, <1>10, <1>11, <1>12, <1>13, <1>14, <1>15,
     <1>16, <1>17
  DEF LoopStep

LEMMA SpawnedStage ==
  ASSUME Quiet, Stage, NEW g \in Gs, SpawnedStep(g)
  PROVE  Stage'
<1> USE LoopThread
<1>1. /\ pc \in [Threads -> LoopStates \cup SpawnedStates]
      /\ todo \in [Threads -> Seq(Message)]
      /\ slot \in [Threads -> Slots]
      /\ \A h \in Gs : h \in Threads /\ h # "loop"
      /\ pc[g] = "timer" => sender[slot[g]] = None
  BY DEF Quiet, IInv, TypeOK, VerdictInv, GroundsOK
\* The only goroutine alive is g, and its stage is the one for its state.
<1>2. /\ pc[g] \in {"rally", "unpause"} => BetweenRallies(g)
      /\ pc[g] = "timer" => Waiting(g)
      /\ pc[g] = "cancel" => Forfeiting(g)
  BY DEF Stage, InPlay, Scored, Noticed, Over, BetweenRallies, Waiting, Forfeiting, Idle,
         Only
<1>3. ASSUME NEW l, pc' = [pc EXCEPT ![g] = l]
      PROVE  /\ pc'[g] = l /\ pc'["loop"] = pc["loop"]
             /\ Only(g) => Only(g)'
             /\ Only(g) /\ l = "free" => Idle'
  BY <1>1, <1>3 DEF Only, Idle
<1>4. ASSUME NEW q, todo' = [todo EXCEPT ![g] = q]
      PROVE  /\ todo'[g] = q
             /\ Sent("loop") => Sent("loop")'
             /\ q \in Seq(Notice) /\ Before /\ UNCHANGED <<announced, ctxDone, verdicts>>
                  => Before'
  BY <1>1, <1>4 DEF Sent, Before
<1>5. CASE PickSender(g) \/ SendBytes(g)
  BY <1>5, SendStage
<1>6. CASE RallyReset(g)
  <2>1. /\ BetweenRallies(g)
        /\ pc' = [pc EXCEPT ![g] = "unpause"]
        /\ todo' = [todo EXCEPT ![g] = ToBoth("match.rally_reset", None)]
        /\ out' = None
        /\ UNCHANGED <<announced, ctxDone, verdicts, deadline, paused>>
    BY <1>2, <1>6 DEF RallyReset, players, outcome
  <2>2. ToBoth("match.rally_reset", None) \in Seq(Notice)
    BY NoticeType DEF Notices
  <2>3. BetweenRallies(g)'
    BY <1>3, <1>4, <2>1, <2>2 DEF BetweenRallies, NobodyAway, LoopAt
  <2> QED
    BY <2>3 DEF Stage
<1>7. CASE Unpause(g)
  <2>1. /\ BetweenRallies(g) /\ out = None /\ ~paused'
        /\ pc' = [pc EXCEPT ![g] = "free"]
        /\ UNCHANGED <<announced, ctxDone, verdicts, deadline, todo, out>>
    BY <1>2, <1>7 DEF Unpause, BetweenRallies, players, outcome, state
  <2>2. InPlay'
    BY <1>3, <2>1 DEF BetweenRallies, InPlay, Before, NobodyAway, LoopAt
  <2> QED
    BY <2>2 DEF Stage
<1>8. CASE ForfeitCheck(g)
  <2>1. PICK w \in Slots : w = Other(slot[g])
    BY <1>1, OtherSlot
  <2>2. /\ Waiting(g)
        /\ pc' = [pc EXCEPT ![g] = "cancel"]
        /\ todo' = [todo EXCEPT ![g] = ToBoth("match.ended", w)]
        /\ announced' = announced \cup {w}
        /\ UNCHANGED <<ctxDone, verdicts, paused>>
    BY <1>1, <1>2, <1>8, <2>1 DEF ForfeitCheck
  <2>3. announced' = {w}
    BY <2>2 DEF Waiting, Before
  <2>4. LastWords(g, w)'
    BY <1>4, <2>2 DEF LastWords, Waiting, Before
  <2>5. Forfeiting(g)'
    BY <1>3, <1>4, <2>2, <2>3, <2>4 DEF Waiting, Forfeiting, Before, LoopAt
  <2> QED
    BY <2>5 DEF Stage
<1>9. CASE Cancel(g)
  <2>1. /\ Forfeiting(g)
        /\ pc' = [pc EXCEPT ![g] = "free"]
        /\ UNCHANGED <<announced, paused, todo>>
    BY <1>2, <1>9 DEF Cancel, outcome
  <2>2. Over'
    BY <1>3, <2>1 DEF Forfeiting, Over, LoopAt, Sent
  <2> QED
    BY <2>2 DEF Stage
<1> QED
  BY <1>5, <1>6, <1>7, <1>8, <1>9 DEF SpawnedStep

\* A step after which nobody is attached is no HandleReconnect past its lookup.
LEMMA StageStep ==
  IInv /\ VerdictInv /\ SendersOK /\ StageOK /\ [Next]_vars /\ NoneAccepted' => StageOK'
<1> SUFFICES ASSUME IInv, VerdictInv, SendersOK, StageOK, [Next]_vars, NoneAccepted'
             PROVE  StageOK'
  OBVIOUS
<1> USE LoopThread
<1>1. Quiet /\ Stage
  BY DEF StageOK, Quiet
<1>2. at \in [Conns -> HandlerStates]
  BY DEF IInv, TypeOK
<1>3. CASE LoopStep
  <2>1. UNCHANGED <<at, reconnectCh>>
    BY <1>1, <1>3
    DEF LoopStep, PickSender, SendBytes, Activate, LoopCancelled, LoopReconnect,
        TickPlay, TickDisconnect, TickScore, ScheduleForfeit, PauseRally, EndByScore,
        DeleteRun, ReadConnID, Unindex, Persist, handlers, Quiet, NoSignal
  <2> QED
    BY <1>1, <1>3, <2>1, LoopStage DEF Quiet, NoSignal, StageOK
<1>4. ASSUME NEW g \in Gs, SpawnedStep(g) PROVE StageOK'
  <2>1. UNCHANGED <<at, reconnectCh>>
    BY <1>4 DEF SpawnedStep, PickSender, SendBytes, RallyReset, Unpause, ForfeitCheck,
                Cancel, handlers
  <2> QED
    BY <1>1, <1>4, <2>1, SpawnedStage DEF Quiet, NoSignal, StageOK
<1>5. ASSUME NEW c \in Conns, HandlerStep(c) \/ ClientStep(c) PROVE StageOK'
  <2>1. ~ReconnectStore(c) /\ ~ReconnectSignal(c)
    BY <1>1 DEF ReconnectStore, ReconnectSignal, Quiet, NoSignal
  <2>2. CASE ReconnectAttach(c)
    <3>1. at'[c] # "attached"
      BY <2>2 DEF NoneAccepted
    <3>2. at' = [at EXCEPT ![c] = "open"] /\ UNCHANGED players
      BY <1>2, <2>2, <3>1 DEF ReconnectAttach
    <3>3. UNCHANGED stageVars /\ UNCHANGED reconnectCh
      BY <2>2, <3>2 DEF ReconnectAttach, stageVars, state, players, threads, outcome
    <3>4. NoSignal'
      BY <1>1, <1>2, <3>2, <3>3 DEF Quiet, NoSignal
    <3> QED
      BY <1>1, <3>3, <3>4, StageStays DEF StageOK
  <2>3. CASE DisconnectLoad(c) \/ DisconnectDetach(c) \/ CloseSend(c) \/ ReconnectLoad(c)
    <3>1. UNCHANGED stageVars /\ UNCHANGED reconnectCh
      BY <2>3 DEF DisconnectLoad, DisconnectDetach, CloseSend, ReconnectLoad, stageVars,
                  state, players, threads, outcome
    <3>2. \E l \in {"disconnecting", "detached", "closed", "reconnecting"} :
              at' = [at EXCEPT ![c] = l]
      BY <2>3 DEF DisconnectLoad, DisconnectDetach, CloseSend, ReconnectLoad
    <3>3. NoSignal'
      BY <1>1, <1>2, <3>1, <3>2 DEF Quiet, NoSignal
    <3> QED
      BY <1>1, <3>1, <3>3, StageStays DEF StageOK
  <2> QED
    BY <1>5, <2>1, <2>2, <2>3 DEF HandlerStep, ClientStep
<1>6. CASE UNCHANGED vars
  BY <1>1, <1>6, StageStays
  DEF vars, stageVars, state, players, threads, handlers, outcome, Quiet, NoSignal,
      StageOK
<1> QED
  BY <1>3, <1>4, <1>5, <1>6 DEF Next

\* In a match in which no reconnect is accepted every message goes to the
\* connection its slot started with, and a Sender is held for one message only.
THEOREM SendersInvariant == Spec /\ []NoneAccepted => []SendersOK
<1>1. Init => SendersOK
  BY NameAssumption DEF Init, SendersOK, Threads, Sent
<1> QED
  BY <1>1, SendersStep, InductiveInvariant, PTL DEF Spec

LEMMA VerdictOfUnaccepted == Spec /\ []NoneAccepted => []VerdictInv
<1>1. NoneAccepted => NoSecondGuest
  BY DEF NoSecondGuest
<1> QED
  BY <1>1, VerdictInvariant, PTL

\* A match in which no reconnect is accepted goes through the stages above.
THEOREM MatchStages == Spec /\ []NoneAccepted => []StageOK
<1>1. Init => StageOK
  <2> SUFFICES ASSUME Init PROVE NoSignal /\ Stage
    BY DEF StageOK
  <2>1. ToBoth("match.countdown", None) \in Seq(Notice) /\ <<>> \in Seq(Notice)
    BY NoticeType DEF Notices
  <2>2. Before
    BY <2>1 DEF Init, Before
  <2>3. InPlay
    BY <2>2, LoopThread DEF Init, InPlay, NobodyAway, Idle
  <2> QED
    BY <2>3 DEF Init, Stage, NoSignal
<1> QED
  BY <1>1, StageStep, InductiveInvariant, VerdictOfUnaccepted, SendersInvariant, PTL
  DEF Spec

-----------------------------------------------------------------------------
(* What the stages show *)

\* Two verdicts are never announced, by the score and by a timer or by two
\* timers, and no thread has anything on its way to a player who has been told
\* the winner, as long as no match.reconnect finds a slot.
THEOREM VerdictIsFinal == Spec /\ []NoneAccepted => []VerdictStands
<1>1. StageOK => \A v, w \in announced : v = w
  BY DEF StageOK, Stage, InPlay, Scored, Noticed, Over, BetweenRallies, Waiting,
         Forfeiting, Before
<1>2. IInv /\ SendersOK /\ StageOK =>
        \A t \in Threads : ~Sent(t) /\ held[t] # None => verdicts[held[t]] = {}
  <2> SUFFICES ASSUME IInv, SendersOK, Stage,
                      NEW t \in Threads, ~Sent(t), held[t] # None
               PROVE  verdicts[held[t]] = {}
    BY DEF StageOK
  <2>1. /\ held[t] \in Conns
        /\ held[t] = Original[Head(todo[t]).to] \/ pc["loop"] = "unindex"
        /\ t \in Gs => pc[t] # "free"
    BY LoopThread DEF IInv, TypeOK, SendersOK
  <2>2. CASE Before
    BY <2>1, <2>2 DEF Before
  <2>3. ASSUME NEW w, LastWords(t, w), pc["loop"] # "unindex"
        PROVE  verdicts[held[t]] = {}
    <3>1. CASE \A c \in Conns : verdicts[c] = {}
      BY <2>1, <3>1
    <3>2. CASE todo[t] = <<Msg(1, "match.ended", w)>> /\ verdicts[Original[1]] = {}
      <4>1. Head(todo[t]).to = 1
        BY <3>2 DEF Msg
      <4> QED
        BY <2>1, <2>3, <3>2, <4>1
    <3> QED
      BY <2>3, <3>1, <3>2 DEF LastWords
  <2>4. ASSUME NEW g \in Gs, Forfeiting(g) PROVE verdicts[held[t]] = {}
    <3>1. t = g
      BY <2>1, <2>4 DEF Forfeiting, Only, LoopAt, Threads
    <3> QED
      BY <2>3, <2>4, <3>1 DEF Forfeiting, LoopAt
  <2>5. CASE Over
    <3>1. t = "loop" /\ pc["loop"] = "onEnd"
      BY <2>1, <2>5 DEF Over, Idle, LoopAt, Threads
    <3> QED
      BY <2>3, <2>5, <3>1 DEF Over, LoopAt
  <2> QED
    BY <2>2, <2>4, <2>5 DEF Stage, InPlay, Scored, Noticed, BetweenRallies, Waiting
<1>3. IInv /\ SendersOK /\ StageOK => VerdictStands
  BY <1>1, <1>2 DEF VerdictStands
<1> QED
  BY <1>3, MatchStages, InductiveInvariant, SendersInvariant, PTL

\* Points are scored by ticks alone, and a tick is taken in play: nobody is
\* away, and the ball is not beyond a line.
LEMMA PointsInPlay ==
  ASSUME [Next]_vars, score' # score
  PROVE  \E s \in Slots : TickScore(s)
<1>1. CASE LoopStep
  BY <1>1
  DEF LoopStep, PickSender, SendBytes, Activate, LoopCancelled, LoopReconnect, TickPlay,
      TickDisconnect, ScheduleForfeit, PauseRally, EndByScore, DeleteRun, ReadConnID,
      Unindex, Persist, state
<1>2. ~(\E g \in Gs : SpawnedStep(g))
  BY DEF SpawnedStep, PickSender, SendBytes, RallyReset, Unpause, ForfeitCheck, Cancel,
         state
<1>3. ~(\E c \in Conns : HandlerStep(c) \/ ClientStep(c))
  BY DEF HandlerStep, ClientStep, DisconnectLoad, DisconnectDetach, CloseSend,
         ReconnectLoad, ReconnectAttach, ReconnectStore, ReconnectSignal, state
<1>4. ~UNCHANGED vars
  BY DEF vars, state
<1> QED
  BY <1>1, <1>2, <1>3, <1>4 DEF Next

LEMMA PointsStep ==
  ASSUME StageOK, [Next]_vars, score' # score
  PROVE  (\A s \in Slots : ~deadline[s]) /\ out = None
<1>1. TickGuard
  BY PointsInPlay DEF TickScore
<1> QED
  BY <1>1, StageOfLoop DEF StageOK, InPlay, NobodyAway

\* From the moment a disconnect is noticed no point is scored, as long as no
\* match.reconnect is accepted: nothing but one clears the flag then.
THEOREM NoPointWhileAway == Spec /\ []NoneAccepted => NoPlayWhileAway
<1>1. StageOK /\ [Next]_vars =>
        [(\E s \in Slots : deadline[s]) => score' = score]_vars
  BY PointsStep
<1> QED
  BY <1>1, MatchStages, PTL DEF Spec, NoPlayWhileAway

\* A ball that has scored scores no second time before it has been reset, as
\* long as no match.reconnect ends the pause early.
THEOREM OnePointPerRallyOnly == Spec /\ []NoneAccepted => OnePointPerRally
<1>1. StageOK /\ [Next]_vars => [out # None => score' = score]_vars
  BY PointsStep
<1> QED
  BY <1>1, MatchStages, PTL DEF Spec, OnePointPerRally

-----------------------------------------------------------------------------
(* The refinement of MatchContract *)

\* The verdict of the contract: the winner announced, if there is one.
Verdict == IF announced = {} THEN None ELSE CHOOSE w \in announced : TRUE

LEMMA VerdictOf ==
  /\ announced = {} => Verdict = None
  /\ \A w : announced = {w} => Verdict = w
  BY DEF Verdict

LEMMA VerdictOfNext ==
  /\ announced' = {} => Verdict' = None
  /\ \A w : announced' = {w} => Verdict' = w
  BY DEF Verdict

\* A step that leaves score, verdict and record alone is a stutter there.
LEMMA ContractStutter ==
  ASSUME UNCHANGED <<score, announced, result>>
  PROVE  UNCHANGED Contract!vars
  BY DEF Contract!vars

LEMMA PointOfContract ==
  ASSUME IInv, StageOK, NEW s \in Slots, TickScore(s)
  PROVE  Contract!Point(s)
<1>1. TickGuard /\ phase = "active"
  BY DEF TickScore
<1>2. announced = {}
  BY <1>1, StageOfLoop DEF StageOK, InPlay, Before
<1>3. Verdict = None /\ Verdict' = None
  BY <1>2, VerdictOf DEF TickScore, outcome, Verdict
<1>4. Contract!NobodyHasWon
  BY <1>1 DEF Contract!NobodyHasWon, Contract!HasWon, Contract!Players, IInv, ScoreDecides,
              Slots
<1>5. score' = [score EXCEPT ![s] = @ + 1] /\ UNCHANGED result
  BY DEF TickScore, outcome
<1> QED
  BY <1>3, <1>4, <1>5 DEF Contract!Point, Verdict

LEMMA WinOfContract ==
  ASSUME IInv, VerdictInv, StageOK, EndByScore
  PROVE  \E w \in Slots : Contract!Win(w)
<1>1. PICK w \in Slots : w = slot["loop"]
  BY LoopThread DEF IInv, TypeOK
<1>2. /\ pc["loop"] = "matchEnded"
      /\ announced' = announced \cup {w}
      /\ UNCHANGED <<score, result>>
  BY <1>1 DEF EndByScore, LoopAt, state
<1>3. announced = {} /\ announced' = {w}
  BY <1>2, StageOfLoop DEF StageOK, Scored, Before
<1>4. Verdict = None /\ Verdict' = w
  BY <1>3, VerdictOf, VerdictOfNext
<1>5. score[w] = PointsToWin
  BY <1>1, <1>2 DEF VerdictInv, GroundsOK
<1> QED
  BY <1>2, <1>4, <1>5 DEF Contract!Win, Contract!HasWon, Verdict

LEMMA ForfeitOfContract ==
  ASSUME IInv, VerdictInv, StageOK, NEW g \in Gs, ForfeitCheck(g)
  PROVE  \E w \in Slots : Contract!WinByForfeit(w)
<1>1. slot[g] \in Slots /\ pc[g] = "timer" /\ sender[slot[g]] = None
  BY LoopThread DEF IInv, TypeOK, ForfeitCheck, VerdictInv, GroundsOK
<1>2. PICK w \in Slots : w = Other(slot[g])
  BY <1>1, OtherSlot
<1>3. announced' = announced \cup {w} /\ UNCHANGED <<score, result>>
  BY <1>1, <1>2 DEF ForfeitCheck, state
<1>4. Waiting(g)
  BY <1>1 DEF StageOK, Stage, InPlay, Scored, Noticed, Over, BetweenRallies, Waiting,
              Forfeiting, Idle, Only
<1>5. announced = {} /\ announced' = {w} /\ pc["loop"] = "select"
  BY <1>3, <1>4 DEF Waiting, Before, LoopAt
<1>6. Verdict = None /\ Verdict' = w
  BY <1>5, VerdictOf, VerdictOfNext
<1>7. Contract!NobodyHasWon
  BY <1>5 DEF Contract!NobodyHasWon, Contract!HasWon, Contract!Players, IInv, ScoreDecides,
              Slots
<1> QED
  BY <1>3, <1>6, <1>7 DEF Contract!WinByForfeit, Verdict

LEMMA RecordOfContract ==
  ASSUME StageOK, VerdictInv, TypeOK, Persist
  PROVE  Contract!Record \/ UNCHANGED Contract!vars
<1>1. pc["loop"] = "persist" /\ UNCHANGED <<score, announced>>
  BY DEF Persist, LoopAt, state
<1>2. result = None
  BY <1>1 DEF VerdictInv, RecordOK
<1>3. PICK w \in Slots : announced = {w}
  BY <1>1, StageOfLoop DEF StageOK, Over
<1>4. Verdict = w /\ w # None
  BY <1>3, VerdictOf, NameAssumption
<1>5. CASE result' = None
  BY <1>1, <1>2, <1>5, ContractStutter
<1>6. CASE result' # None
  <2>1. (result' # None) = TRUE
    BY <1>6
  <2>2. UNCHANGED Verdict
    BY <1>1 DEF Verdict
  <2> QED
    BY <1>1, <1>4, <2>1, <2>2, Zenon DEF Contract!Record, Verdict
<1> QED
  BY <1>5, <1>6

LEMMA ContractStep ==
  IInv /\ VerdictInv /\ StageOK /\ [Next]_vars =>
      [Contract!Next]_(Contract!vars)
<1> SUFFICES ASSUME IInv, VerdictInv, StageOK, [Next]_vars
             PROVE  Contract!Next \/ UNCHANGED Contract!vars
  OBVIOUS
<1>1. Calm => UNCHANGED Contract!vars
  BY ContractStutter DEF Calm
<1>2. TypeOK
  BY DEF IInv
<1>3. ASSUME NEW s \in Slots, Contract!Point(s) \/ Contract!Win(s) \/ Contract!WinByForfeit(s)
      PROVE  Contract!Next
  BY <1>3 DEF Contract!Next, Contract!Players, Slots
<1>4. CASE LoopStep
  <2>1. ASSUME NEW s \in Slots, TickDisconnect(s) PROVE UNCHANGED Contract!vars
    BY <2>1, ContractStutter DEF TickDisconnect, state, outcome
  <2>2. ASSUME NEW g \in Gs, ScheduleForfeit(g) PROVE UNCHANGED Contract!vars
    BY <2>2, ContractStutter DEF ScheduleForfeit, state, outcome
  <2>3. ASSUME NEW s \in Slots, TickScore(s) PROVE Contract!Next
    BY <1>3, <2>3, PointOfContract
  <2>4. CASE EndByScore
    BY <1>3, <2>4, WinOfContract
  <2>5. CASE Persist
    BY <1>2, <2>5, RecordOfContract DEF Contract!Next
  <2> QED
    BY <1>1, <1>2, <1>4, <2>1, <2>2, <2>3, <2>4, <2>5, CalmSteps, LoopThread DEF LoopStep
<1>5. ASSUME NEW g \in Gs, SpawnedStep(g) PROVE Contract!Next \/ UNCHANGED Contract!vars
  BY <1>1, <1>2, <1>3, <1>5, CalmSteps, ForfeitOfContract, LoopThread DEF SpawnedStep
<1>6. CASE \/ \E c \in Conns : HandlerStep(c) \/ ClientStep(c)
           \/ UNCHANGED vars
  BY <1>1, <1>2, <1>6, CalmSteps
<1> QED
  BY <1>4, <1>5, <1>6 DEF Next

\* A match in which no match.reconnect is accepted keeps the contract: points one at a
\* time until a player has won, one verdict with its reason, and a record only
\* of a verdict.
THEOREM ImplementsContract == Spec /\ []NoneAccepted => ContractKept
<1>1. Init => Contract!Init
  BY DEF Init, Contract!Init, Contract!Players, Slots
<1> QED
  BY <1>1, ContractStep, InductiveInvariant, VerdictOfUnaccepted, MatchStages, PTL
  DEF Spec, ContractKept, Contract!Spec

=============================================================================
