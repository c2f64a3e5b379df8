--------------------------- MODULE InputQueueProofs ---------------------------
(***************************************************************************)
(* Proofs about InputQueue, for any capacity and any number of inputs.      *)
(*                                                                         *)
(* No input in the channel is newer than the latest one of its player, so   *)
(* what a handler appends is the newest of its slot.  And the place that a   *)
(* handler has made is still there when it tries again, unless the other    *)
(* handler has come between (PlaceKept): then the retry cannot fail.        *)
(***************************************************************************)
EXTENDS InputQueue, SequenceTheorems, TLAPS

Bounded ==
    /\ \A s \in Slots : LastInputSeq[s] <= sent[s]
    /\ \A s \in Slots : at[s] # "idle" => sent[s] > 0
    /\ \A i \in 1 .. Len(InputCh) : InputCh[i].seq <= sent[InputCh[i].slot]

PlaceKept == \A s \in Slots : at[s] = "retrying" /\ ~crossed[s] => ~Full

IInv == TypeOK /\ Bounded /\ InOrder /\ PlaceKept /\ NewestKept

LEMMA Constants == Cap \in Nat /\ Cap > 0 /\ MaxSeq \in Nat
  BY InputAssumption

LEMMA SlotsTwo == \A s \in Slots : Other(s) \in Slots /\ Other(s) # s
  BY DEF Slots, Other

\* What Add and Tail do to the channel.
LEMMA Added ==
  ASSUME TypeOK, Bounded, NEW s \in Slots, at[s] # "idle", Add(s)
  PROVE  /\ InputCh' \in Seq(Inputs) /\ Len(InputCh') = Len(InputCh) + 1 /\ Len(InputCh) \in Nat
         /\ Input(s) \in Inputs /\ InputCh'[Len(InputCh) + 1] = Input(s)
         /\ \A i \in 1 .. Len(InputCh) : InputCh'[i] = InputCh[i] /\ InputCh[i] \in Inputs
<1>1. Input(s) \in Inputs
  BY Constants DEF Input, Inputs, TypeOK, Bounded
<1>2. InputCh \in Seq(Inputs)
  BY DEF TypeOK
<1> QED
  BY <1>1, <1>2, AppendProperties DEF Add

LEMMA Taken ==
  ASSUME TypeOK, InputCh # <<>>, InputCh' = Tail(InputCh)
  PROVE  /\ InputCh' \in Seq(Inputs) /\ Len(InputCh') = Len(InputCh) - 1
         /\ Len(InputCh) \in Nat /\ Len(InputCh) > 0
         /\ Head(InputCh) = InputCh[1] /\ InputCh[1] \in Inputs
         /\ \A i \in 1 .. Len(InputCh') : i + 1 \in 1 .. Len(InputCh) /\ InputCh'[i] = InputCh[i + 1]
         /\ \A i \in 1 .. Len(InputCh) : InputCh[i] \in Inputs
<1>1. InputCh \in Seq(Inputs) /\ Len(InputCh) \in Nat /\ Len(InputCh) > 0
  BY EmptySeq, LenProperties DEF TypeOK
<1>2. \A i \in 1 .. Len(InputCh) : InputCh[i] \in Inputs
  BY <1>1, ElementOfSeq
<1> QED
  BY <1>1, <1>2, HeadTailProperties

LEMMA InitIInv == Init => IInv
<1> SUFFICES ASSUME Init PROVE IInv
  OBVIOUS
<1>1. <<>> \in Seq(Inputs) /\ Len(<<>>) = 0 /\ Len(InputCh) = 0
  BY DEF Init
<1>2. TypeOK
  BY <1>1, Constants DEF Init, TypeOK
<1>3. Bounded /\ InOrder /\ PlaceKept /\ NewestKept
  BY <1>1 DEF Init, Bounded, InOrder, PlaceKept, NewestKept
<1> QED
  BY <1>2, <1>3 DEF IInv

-----------------------------------------------------------------------------
(* What the steps do, by their effect on the channel *)

\* An input arrives.
LEMMA FindSlotStep == ASSUME IInv, NEW s \in Slots, FindSlot(s) PROVE IInv'
<1> USE DEF IInv
<1>1. PICK n \in {sent[s], sent[s] + 1} \ {0} :
        /\ n <= MaxSeq /\ sent' = [sent EXCEPT ![s] = n]
        /\ at[s] = "idle" /\ at' = [at EXCEPT ![s] = "sending"]
        /\ crossed' = [crossed EXCEPT ![s] = FALSE]
        /\ UNCHANGED <<InputCh, LastInputSeq, loop, paused>>
  BY DEF FindSlot
<1>2. sent[s] \in 0 .. MaxSeq /\ n \in 1 .. MaxSeq /\ sent[s] <= n
  BY <1>1, Constants DEF TypeOK
<1>3. TypeOK'
  BY <1>1, <1>2 DEF TypeOK
<1>4. /\ at'[s] = "sending" /\ sent'[s] = n
      /\ \A t \in Slots \ {s} : at'[t] = at[t] /\ sent'[t] = sent[t] /\ crossed'[t] = crossed[t]
  BY <1>1 DEF TypeOK
<1>5. \A t \in Slots : sent[t] <= sent'[t] /\ sent[t] \in Nat /\ sent'[t] \in Nat /\ LastInputSeq[t] \in Nat
  <2>1. \A t \in Slots : sent[t] \in Nat /\ LastInputSeq[t] \in Nat
    BY Constants DEF TypeOK
  <2>2. sent[s] <= sent'[s] /\ sent'[s] \in Nat
    BY <1>2, <1>4, Constants
  <2>3. ASSUME NEW t \in Slots, t # s PROVE sent[t] <= sent'[t] /\ sent'[t] \in Nat
    <3>1. sent[t] \in Nat /\ sent'[t] = sent[t]
      BY <2>1, <2>3, <1>4
    <3> QED
      BY <3>1
  <2> QED
    BY <2>1, <2>2, <2>3
<1>6. Bounded'
  <2>1. \A t \in Slots : LastInputSeq'[t] <= sent'[t] /\ (at'[t] # "idle" => sent'[t] > 0)
    BY <1>1, <1>2, <1>4, <1>5 DEF Bounded
  <2>2. ASSUME NEW i \in 1 .. Len(InputCh) PROVE InputCh'[i].seq <= sent'[InputCh'[i].slot]
    <3>1. InputCh[i] \in Inputs /\ InputCh[i].seq <= sent[InputCh[i].slot]
      BY <2>2, ElementOfSeq DEF TypeOK, Bounded
    <3>2. InputCh[i].slot \in Slots /\ InputCh[i].seq \in Nat
      BY <3>1 DEF Inputs
    <3> QED
      BY <3>1, <3>2, <1>1, <1>5
  <2> QED
    BY <2>1, <2>2, <1>1 DEF Bounded
<1>7. InOrder'
  BY <1>1 DEF InOrder
<1>8. PlaceKept'
  <2> SUFFICES ASSUME NEW t \in Slots, at'[t] = "retrying", ~crossed'[t] PROVE ~Full'
    BY DEF PlaceKept
  <2>1. t # s
    BY <1>4
  <2>2. ~Full
    BY <2>1, <1>4 DEF PlaceKept
  <2> QED
    BY <2>2, <1>1 DEF Full
<1>9. NewestKept'
  <2> SUFFICES ASSUME NEW t \in Slots, at'[t] = "idle", sent'[t] > 0, ~crossed'[t]
               PROVE  \/ LastInputSeq[t] = sent'[t]
                      \/ \E i \in 1 .. Len(InputCh) : InputCh[i] = [slot |-> t, seq |-> sent'[t]]
    BY <1>1 DEF NewestKept, Input
  <2>1. t # s
    BY <1>4
  <2> QED
    BY <2>1, <1>4 DEF NewestKept, Input
<1> QED
  BY <1>3, <1>6, <1>7, <1>8, <1>9

\* A handler adds its input: at its first try or at its second.
LEMMA AddStep ==
  ASSUME IInv, NEW s \in Slots, at[s] # "idle", ~Full, Add(s), Crosses(s),
         at' = [at EXCEPT ![s] = "idle"], UNCHANGED <<LastInputSeq, sent, loop, paused>>
  PROVE  IInv'
<1> USE DEF IInv
<1> DEFINE n == Len(InputCh)
<1>1. /\ InputCh' \in Seq(Inputs) /\ Len(InputCh') = n + 1 /\ n \in Nat
      /\ Input(s) \in Inputs /\ InputCh'[n + 1] = Input(s)
      /\ \A i \in 1 .. n : InputCh'[i] = InputCh[i] /\ InputCh[i] \in Inputs
  BY Added
<1> HIDE DEF n
<1>2. n < Cap
  BY <1>1, Constants DEF Full, n
<1>3. /\ at'[s] = "idle"
      /\ \A t \in Slots \ {s} : at'[t] = at[t]
      /\ \A t \in Slots : /\ crossed[t] => crossed'[t]
                          /\ t # s /\ at[t] = "retrying" => crossed'[t]
      /\ crossed' \in [Slots -> BOOLEAN]
  BY SlotsTwo DEF TypeOK, Crosses, Slots, Other
<1>4. TypeOK'
  <2>1. Len(InputCh') <= Cap
    BY <1>1, <1>2, Constants
  <2>2. at' \in [Slots -> {"idle", "sending", "full", "retrying"}]
    BY DEF TypeOK
  <2>3. UNCHANGED <<LastInputSeq, sent, loop, paused>>
    OBVIOUS
  <2> QED
    BY <1>1, <1>3, <2>1, <2>2, <2>3 DEF TypeOK
<1>5. /\ Input(s).slot = s /\ Input(s).seq = sent[s]
      /\ \A t \in Slots : sent[t] \in Nat /\ LastInputSeq[t] \in Nat
  BY Constants DEF TypeOK, Input
<1>6. \A i \in 1 .. n + 1 : i = n + 1 \/ i \in 1 .. n
  BY <1>1
<1>7. \A i \in 1 .. n : InputCh[i].slot \in Slots /\ InputCh[i].seq \in Nat
  BY <1>1 DEF Inputs
<1>8. Bounded'
  <2>1. \A i \in 1 .. n + 1 : InputCh'[i].seq <= sent[InputCh'[i].slot]
    BY <1>1, <1>5, <1>6, <1>7 DEF Bounded, n
  <2>2. \A t \in Slots : at'[t] # "idle" => sent[t] > 0
    BY <1>3 DEF Bounded
  <2> QED
    BY <2>1, <2>2, <1>1 DEF Bounded
<1>9. InOrder'
  <2>1. ASSUME NEW i \in 1 .. n + 1
        PROVE  /\ InputCh'[i].seq >= LastInputSeq[InputCh'[i].slot]
               /\ \A j \in 1 .. i : InputCh'[j].slot = InputCh'[i].slot =>
                      InputCh'[j].seq <= InputCh'[i].seq
    <3>1. CASE i = n + 1
      <4>1. InputCh'[i].slot = s /\ InputCh'[i].seq = sent[s] /\ sent[s] >= LastInputSeq[s]
        BY <3>1, <1>1, <1>5 DEF Bounded
      <4>2. ASSUME NEW j \in 1 .. n, InputCh[j].slot = s PROVE InputCh[j].seq <= sent[s]
        BY <4>2 DEF Bounded, n
      <4>3. ASSUME NEW j \in 1 .. i, InputCh'[j].slot = s PROVE InputCh'[j].seq <= sent[s]
        BY <4>1, <4>2, <4>3, <3>1, <1>1, <1>5, <1>6
      <4> QED
        BY <4>1, <4>3
    <3>2. CASE i \in 1 .. n
      <4>1. \A j \in 1 .. i : j \in 1 .. n
        BY <3>2, <1>1
      <4> QED
        BY <3>2, <4>1, <1>1 DEF InOrder, n
    <3> QED
      BY <3>1, <3>2, <1>6
  <2> QED
    BY <2>1, <1>1 DEF InOrder
<1>10. PlaceKept'
  <2> SUFFICES ASSUME NEW t \in Slots, at'[t] = "retrying", ~crossed'[t] PROVE FALSE
    BY DEF PlaceKept
  <2>1. t # s
    BY <1>3
  <2> QED
    BY <2>1, <1>3
<1>11. NewestKept'
  <2> SUFFICES ASSUME NEW t \in Slots, at'[t] = "idle", sent[t] > 0, ~crossed'[t]
               PROVE  LastInputSeq[t] = sent[t] \/ \E i \in 1 .. n + 1 : InputCh'[i] = Input(t)
    BY <1>1 DEF NewestKept, Input
  <2>1. CASE t = s
    BY <2>1, <1>1
  <2>2. CASE t # s
    <3>1. \/ LastInputSeq[t] = sent[t]
          \/ \E i \in 1 .. n : InputCh[i] = Input(t)
      BY <2>2, <1>3 DEF NewestKept, n
    <3>2. \A i \in 1 .. n : i \in 1 .. n + 1
      BY <1>1
    <3> QED
      BY <3>1, <3>2, <1>1
  <2> QED
    BY <2>1, <2>2
<1> QED
  BY <1>4, <1>8, <1>9, <1>10, <1>11


\* The oldest input is taken off, by a handler or by the loop: the rest stays
\* in order, and nothing in it is newer than before.
LEMMA Shifted ==
  ASSUME IInv, InputCh # <<>>, InputCh' = Tail(InputCh)
  PROVE  /\ \A i \in 1 .. Len(InputCh') : InputCh'[i].seq <= sent[InputCh'[i].slot]
         /\ \A i \in 1 .. Len(InputCh') :
              /\ InputCh'[i].seq >= LastInputSeq[InputCh'[i].slot]
              /\ InputCh[1].slot = InputCh'[i].slot => InputCh'[i].seq >= InputCh[1].seq
              /\ \A j \in 1 .. i : InputCh'[j].slot = InputCh'[i].slot =>
                     InputCh'[j].seq <= InputCh'[i].seq
         /\ \A s \in Slots : (\E i \in 1 .. Len(InputCh) : InputCh[i] = Input(s)) =>
              \/ InputCh[1] = Input(s)
              \/ \E i \in 1 .. Len(InputCh') : InputCh'[i] = Input(s)
<1> USE DEF IInv
<1>1. /\ Len(InputCh') = Len(InputCh) - 1 /\ Len(InputCh) \in Nat /\ Len(InputCh) > 0
      /\ \A i \in 1 .. Len(InputCh') : i + 1 \in 1 .. Len(InputCh) /\ InputCh'[i] = InputCh[i + 1]
      /\ \A i \in 1 .. Len(InputCh) : InputCh[i] \in Inputs
  BY Taken
<1>2. \A i \in 1 .. Len(InputCh') : InputCh'[i].seq <= sent[InputCh'[i].slot]
  BY <1>1 DEF Bounded
<1>3. ASSUME NEW i \in 1 .. Len(InputCh')
      PROVE  /\ InputCh'[i].seq >= LastInputSeq[InputCh'[i].slot]
             /\ InputCh[1].slot = InputCh'[i].slot => InputCh'[i].seq >= InputCh[1].seq
             /\ \A j \in 1 .. i : InputCh'[j].slot = InputCh'[i].slot =>
                    InputCh'[j].seq <= InputCh'[i].seq
  <2>1. i + 1 \in 1 .. Len(InputCh) /\ InputCh'[i] = InputCh[i + 1] /\ 1 \in 1 .. i + 1
    BY <1>1
  <2>2. /\ InputCh[i + 1].seq >= LastInputSeq[InputCh[i + 1].slot]
        /\ \A j \in 1 .. i + 1 : InputCh[j].slot = InputCh[i + 1].slot =>
               InputCh[j].seq <= InputCh[i + 1].seq
    BY <2>1 DEF InOrder
  <2>3. InputCh[1].seq \in Nat /\ InputCh[i + 1].seq \in Nat
    BY <1>1, <2>1 DEF Inputs
  <2>4. InputCh[1].slot = InputCh'[i].slot => InputCh'[i].seq >= InputCh[1].seq
    BY <2>1, <2>2, <2>3
  <2>5. ASSUME NEW j \in 1 .. i, InputCh'[j].slot = InputCh'[i].slot
        PROVE  InputCh'[j].seq <= InputCh'[i].seq
    <3>1. j \in 1 .. Len(InputCh') /\ j + 1 \in 1 .. i + 1
      BY <1>1
    <3>2. InputCh'[j] = InputCh[j + 1]
      BY <3>1, <1>1
    <3> QED
      BY <3>1, <3>2, <2>1, <2>2, <2>5
  <2> QED
    BY <2>1, <2>2, <2>4, <2>5
<1>4. ASSUME NEW s \in Slots, NEW i \in 1 .. Len(InputCh), InputCh[i] = Input(s), i # 1
      PROVE  \E j \in 1 .. Len(InputCh') : InputCh'[j] = Input(s)
  <2>1. i - 1 \in 1 .. Len(InputCh') /\ (i - 1) + 1 = i
    BY <1>1, <1>4
  <2>2. InputCh'[i - 1] = InputCh[i]
    BY <2>1, <1>1
  <2> QED
    BY <2>1, <2>2, <1>4
<1> QED
  BY <1>2, <1>3, <1>4

\* A handler drops the oldest input.
LEMMA DropStep ==
  ASSUME IInv, NEW s \in Slots, at[s] = "full", at' = [at EXCEPT ![s] = "retrying"],
         InputCh # <<>>, InputCh' = Tail(InputCh),
         crossed' = [crossed EXCEPT ![Other(s)] = @ \/ Head(InputCh).slot # s],
         UNCHANGED <<LastInputSeq, sent, loop, paused>>
  PROVE  IInv'
<1> USE DEF IInv
<1>1. /\ InputCh' \in Seq(Inputs) /\ Len(InputCh') = Len(InputCh) - 1
      /\ Len(InputCh) \in Nat /\ Len(InputCh) > 0
      /\ Head(InputCh) = InputCh[1] /\ InputCh[1] \in Inputs
  BY Taken
<1>2. /\ at'[s] = "retrying" /\ at' \in [Slots -> {"idle", "sending", "full", "retrying"}]
      /\ \A t \in Slots \ {s} : at'[t] = at[t]
  BY DEF TypeOK
<1>3. /\ crossed' \in [Slots -> BOOLEAN]
      /\ \A t \in Slots : /\ crossed[t] => crossed'[t]
                          /\ t # s /\ InputCh[1].slot = t => crossed'[t]
  BY <1>1, SlotsTwo DEF TypeOK, Slots, Other
<1>4. Len(InputCh) <= Cap /\ Len(InputCh') < Cap /\ Len(InputCh') \in Nat
  BY <1>1, Constants DEF TypeOK
<1>5. TypeOK'
  BY <1>1, <1>2, <1>3, <1>4, Constants DEF TypeOK
<1>6. Bounded'
  <2>1. \A t \in Slots : at'[t] # "idle" => sent[t] > 0
    BY <1>2 DEF Bounded
  <2> QED
    BY <2>1, Shifted DEF Bounded
<1>7. InOrder'
  BY Shifted DEF InOrder
<1>8. PlaceKept'
  BY <1>4, Constants DEF PlaceKept, Full
<1>9. NewestKept'
  <2> SUFFICES ASSUME NEW t \in Slots, at'[t] = "idle", sent[t] > 0, ~crossed'[t]
               PROVE  LastInputSeq[t] = sent[t]
                      \/ \E i \in 1 .. Len(InputCh') : InputCh'[i] = Input(t)
    BY DEF NewestKept, Input
  <2>1. t # s /\ at[t] = "idle" /\ ~crossed[t] /\ InputCh[1].slot # t
    BY <1>2, <1>3
  <2>2. InputCh[1] # Input(t)
    BY <2>1 DEF Input
  <2>3. LastInputSeq[t] = sent[t] \/ \E i \in 1 .. Len(InputCh) : InputCh[i] = Input(t)
    BY <2>1 DEF NewestKept
  <2> QED
    BY <2>2, <2>3, Shifted
<1> QED
  BY <1>5, <1>6, <1>7, <1>8, <1>9

\* The loop applies the oldest input.
LEMMA DrainStep == ASSUME IInv, DrainOne PROVE IInv'
<1> USE DEF IInv
<1> DEFINE m == InputCh[1]
<1>1. /\ InputCh # <<>> /\ InputCh' = Tail(InputCh)
      /\ UNCHANGED <<sent, at, loop, paused, crossed>>
  BY DEF DrainOne, handlers
<1>2. /\ InputCh' \in Seq(Inputs) /\ Len(InputCh') = Len(InputCh) - 1
      /\ Len(InputCh) \in Nat /\ Len(InputCh) > 0
      /\ Head(InputCh) = m /\ m \in Inputs
      /\ \A i \in 1 .. Len(InputCh) : InputCh[i] \in Inputs
      /\ \A i \in 1 .. Len(InputCh') : i + 1 \in 1 .. Len(InputCh) /\ InputCh'[i] = InputCh[i + 1]
  BY <1>1, Taken
<1>3. m.slot \in Slots /\ m.seq \in 1 .. MaxSeq /\ m.seq <= sent[m.slot]
      /\ m.seq >= LastInputSeq[m.slot]
  <2>1. 1 \in 1 .. Len(InputCh)
    BY <1>2
  <2> QED
    BY <2>1, <1>2 DEF Inputs, Bounded, InOrder
<1>4. LastInputSeq' = [LastInputSeq EXCEPT ![m.slot] = IF m.seq <= @ THEN @ ELSE m.seq]
  BY <1>2 DEF DrainOne
<1> HIDE DEF m
<1>5. /\ LastInputSeq \in [Slots -> 0 .. MaxSeq] /\ sent \in [Slots -> 0 .. MaxSeq]
      /\ \A s \in Slots : LastInputSeq[s] \in Nat /\ sent[s] \in Nat /\ LastInputSeq[s] <= sent[s]
  BY Constants DEF TypeOK, Bounded
<1>6. /\ LastInputSeq'[m.slot] = m.seq
      /\ \A s \in Slots : s # m.slot => LastInputSeq'[s] = LastInputSeq[s]
  <2>1. LastInputSeq'[m.slot] = IF m.seq <= LastInputSeq[m.slot] THEN LastInputSeq[m.slot] ELSE m.seq
    BY <1>3, <1>4, <1>5
  <2>2. LastInputSeq'[m.slot] = m.seq
    BY <2>1, <1>3, <1>5, Constants
  <2> QED
    BY <2>2, <1>4, <1>5
<1>7. TypeOK'
  <2>1. LastInputSeq' \in [Slots -> 0 .. MaxSeq]
    BY <1>3, <1>4, <1>5, Constants
  <2>2. Len(InputCh') <= Cap
    BY <1>2, Constants DEF TypeOK
  <2> QED
    BY <2>1, <2>2, <1>1, <1>2 DEF TypeOK
<1>8. Bounded'
  <2>1. \A s \in Slots : LastInputSeq'[s] <= sent[s]
    BY <1>3, <1>5, <1>6
  <2> QED
    BY <2>1, <1>1, Shifted DEF Bounded
<1>9. InOrder'
  <2>1. ASSUME NEW i \in 1 .. Len(InputCh') PROVE InputCh'[i].seq >= LastInputSeq'[InputCh'[i].slot]
    <3>1. /\ InputCh'[i].seq >= LastInputSeq[InputCh'[i].slot]
          /\ m.slot = InputCh'[i].slot => InputCh'[i].seq >= m.seq
      BY <1>1, Shifted DEF m
    <3>2. InputCh'[i].slot \in Slots
      BY <1>2 DEF Inputs
    <3> QED
      BY <3>1, <3>2, <1>6
  <2> QED
    BY <2>1, <1>1, Shifted DEF InOrder
<1>10. PlaceKept'
  BY <1>1, <1>2, Constants DEF PlaceKept, Full
<1>11. NewestKept'
  <2> SUFFICES ASSUME NEW t \in Slots, at[t] = "idle", sent[t] > 0, ~crossed[t]
               PROVE  LastInputSeq'[t] = sent[t]
                      \/ \E i \in 1 .. Len(InputCh') : InputCh'[i] = Input(t)
    BY <1>1 DEF NewestKept, Input
  <2>1. LastInputSeq[t] = sent[t] \/ \E i \in 1 .. Len(InputCh) : InputCh[i] = Input(t)
    BY DEF NewestKept
  <2>2. CASE LastInputSeq[t] = sent[t]
    <3>1. t = m.slot => m.seq = sent[t]
      BY <2>2, <1>3, <1>5, Constants
    <3> QED
      BY <3>1, <2>2, <1>6
  <2>3. CASE m = Input(t)
    BY <2>3, <1>6 DEF Input
  <2>4. CASE (\E i \in 1 .. Len(InputCh) : InputCh[i] = Input(t)) /\ m # Input(t)
    BY <2>4, <1>1, Shifted DEF m
  <2> QED
    BY <2>1, <2>2, <2>3, <2>4
<1> QED
  BY <1>7, <1>8, <1>9, <1>10, <1>11

\* The other steps leave the channel and the targets alone.
LEMMA QuietStep ==
  ASSUME IInv, TypeOK', UNCHANGED <<InputCh, LastInputSeq, sent, crossed>>,
         \/ at' = at
         \/ \E s \in Slots : at[s] = "sending" /\ at' = [at EXCEPT ![s] = "full"]
         \/ \E s \in Slots : ~Full /\ at[s] = "full" /\ at' = [at EXCEPT ![s] = "retrying"]
         \/ \E s \in Slots : Full /\ at[s] = "retrying" /\ at' = [at EXCEPT ![s] = "idle"]
  PROVE  IInv'
<1> USE DEF IInv
<1>1. at \in [Slots -> {"idle", "sending", "full", "retrying"}]
  BY DEF TypeOK
<1>2. \A t \in Slots : /\ at'[t] # "idle" => at[t] # "idle"
                       /\ at'[t] = "retrying" => at[t] = "retrying" \/ ~Full
                       /\ at'[t] = "idle" => at[t] = "idle" \/ (at[t] = "retrying" /\ Full)
  BY <1>1
<1>3. Bounded' /\ InOrder'
  BY <1>2 DEF Bounded, InOrder
<1>4. PlaceKept'
  BY <1>2 DEF PlaceKept, Full
<1>5. NewestKept'
  BY <1>2 DEF NewestKept, PlaceKept, Input
<1> QED
  BY <1>3, <1>4, <1>5

-----------------------------------------------------------------------------
(* The theorems *)

\* The invariant is inductive.
THEOREM InductiveInvariant == Spec => []IInv
<1>1. ASSUME IInv, [Next]_vars PROVE IInv'
  <2> USE DEF handlers
  <2>0. TypeOK
    BY <1>1 DEF IInv
  <2>1. CASE \E s \in Slots : FindSlot(s)
    BY <2>1, <1>1, FindSlotStep
  <2>2. ASSUME NEW s \in Slots, TrySend(s) PROVE IInv'
    <3>1. CASE ~Full /\ Add(s) /\ Crosses(s) /\ at' = [at EXCEPT ![s] = "idle"]
      BY <3>1, <2>2, <1>1, AddStep DEF TrySend
    <3>2. CASE Full /\ at' = [at EXCEPT ![s] = "full"] /\ UNCHANGED <<InputCh, crossed>>
      <4>1. TypeOK' /\ at[s] = "sending" /\ UNCHANGED <<LastInputSeq, sent, loop, paused>>
        BY <3>2, <2>2, <2>0 DEF TrySend, TypeOK
      <4> QED
        BY <3>2, <4>1, <1>1, QuietStep
    <3> QED
      BY <2>2, <3>1, <3>2 DEF TrySend
  <2>3. ASSUME NEW s \in Slots, DropOldest(s) PROVE IInv'
    <3>1. CASE InputCh # <<>>
      BY <3>1, <2>3, <1>1, DropStep DEF DropOldest
    <3>2. CASE InputCh = <<>>
      <4>1. /\ UNCHANGED <<InputCh, crossed, LastInputSeq, sent, loop, paused>>
            /\ at[s] = "full" /\ at' = [at EXCEPT ![s] = "retrying"]
        BY <3>2, <2>3 DEF DropOldest
      <4>2. TypeOK' /\ ~Full
        BY <3>2, <4>1, <2>0, Constants DEF TypeOK, Full
      <4> QED
        BY <4>1, <4>2, <1>1, QuietStep
    <3> QED
      BY <3>1, <3>2
  <2>4. ASSUME NEW s \in Slots, RetrySend(s) PROVE IInv'
    <3>1. CASE ~Full /\ Add(s) /\ Crosses(s)
      BY <3>1, <2>4, <1>1, AddStep DEF RetrySend
    <3>2. CASE Discard(s)
      <4>1. /\ UNCHANGED <<InputCh, crossed, LastInputSeq, sent, loop, paused>> /\ Full
            /\ at[s] = "retrying" /\ at' = [at EXCEPT ![s] = "idle"]
        BY <3>2, <2>4 DEF RetrySend, Discard
      <4>2. TypeOK'
        BY <4>1, <2>0 DEF TypeOK
      <4> QED
        BY <4>1, <4>2, <1>1, QuietStep
    <3> QED
      BY <2>4, <3>1, <3>2 DEF RetrySend
  <2>5. CASE DrainOne
    BY <2>5, <1>1, DrainStep
  <2>6. CASE TickStarts \/ DrainDone \/ Unpause \/ Cancelled \/ UNCHANGED vars
    <3>1. UNCHANGED <<InputCh, crossed, LastInputSeq, sent, at>>
      BY <2>6 DEF TickStarts, DrainDone, Unpause, Cancelled, vars
    <3>2. loop' \in {"waiting", "draining", "ended"} /\ paused' \in BOOLEAN
      BY <2>6, <2>0 DEF TickStarts, DrainDone, Unpause, Cancelled, vars, TypeOK
    <3>3. TypeOK'
      BY <3>1, <3>2, <2>0 DEF TypeOK
    <3> QED
      BY <3>1, <3>3, <1>1, QuietStep
  <2> QED
    BY <1>1, <2>1, <2>2, <2>3, <2>4, <2>5, <2>6 DEF Next, Handler, Drain
<1> QED
  BY InitIInv, <1>1, PTL DEF Spec

\* InputCh never holds more than its capacity, whatever its size and however
\* many inputs arrive.
THEOREM TypeCorrect == Spec => []TypeOK
<1>1. IInv => TypeOK
  BY DEF IInv
<1> QED
  BY <1>1, InductiveInvariant, PTL

\* Dropping the oldest input never lets an older one of a player overtake.
THEOREM InputsInOrder == Spec => []InOrder
<1>1. IInv => InOrder
  BY DEF IInv
<1> QED
  BY <1>1, InductiveInvariant, PTL

\* The newest input of a player is lost only when the other player's handler
\* has come between the two operations of a handler.
THEOREM NewestIsKept == Spec => []NewestKept
<1>1. IInv => NewestKept
  BY DEF IInv
<1> QED
  BY <1>1, InductiveInvariant, PTL


=============================================================================
