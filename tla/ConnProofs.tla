----------------------------- MODULE ConnProofs -----------------------------
(***************************************************************************)
(* Proofs about Conn, for any capacities and any lengths of time that       *)
(* satisfy ConnAssumption.                                                 *)
(***************************************************************************)
EXTENDS Conn, SequenceTheorems, TLAPS

-----------------------------------------------------------------------------
(* Types *)

\* TypeOK with what makes it inductive: the ticker is reset when it fires, and
\* a reply that is due has its number.
TInv ==
    /\ TypeOK
    /\ sinceTick < PingInterval
    /\ reader = "replying" => sent < MaxSent

LEMMA Constants ==
  /\ Buffer \in Nat /\ Buffer > 0 /\ Flight \in Nat /\ Flight > 0 /\ MaxSent \in Nat
  /\ PingInterval \in Nat /\ PingInterval > 0 /\ PongWait \in Nat
  /\ WriteWait \in Nat /\ WriteWait > 0 /\ Delay \in Nat
  /\ PingInterval + Delay < PongWait
  /\ Ping = 0 /\ Ping \in Messages
  BY ConnAssumption DEF Messages, Ping

LEMMA InitTInv == Init => TInv
<1> SUFFICES ASSUME Init PROVE TInv
  OBVIOUS
<1> USE DEF Init
<1>1. <<>> \in Seq(Messages) /\ Len(<<>>) = 0
  OBVIOUS
<1>2. /\ send \in Seq(Messages) /\ Len(send) <= Buffer
      /\ net \in Seq(Messages) /\ Len(net) <= Flight /\ got \in Seq(Messages)
  BY <1>1, Constants
<1>3. /\ sinceTick \in 0 .. PingInterval /\ sinceRead \in 0 .. PongWait
      /\ sinceWrite \in 0 .. WriteWait /\ sinceOwed \in 0 .. Delay /\ sent \in 0 .. MaxSent
      /\ message \in Messages /\ sinceTick < PingInterval
  BY Constants
<1> QED
  BY <1>2, <1>3 DEF TInv, TypeOK

\* The send buffer after a message was offered to it.
LEMMA EnqueueType ==
  ASSUME TypeOK, sent < MaxSent, Enqueue
  PROVE  send' \in Seq(Messages) /\ Len(send') <= Buffer
<1>1. sent + 1 \in Messages
  BY Constants DEF TypeOK, Messages, Ping
<1>2. CASE HasRoom
  <2>1. send' = Append(send, sent + 1) /\ Len(send) < Buffer
    BY <1>2 DEF Enqueue, HasRoom
  <2> QED
    BY <2>1, <1>1, Constants DEF TypeOK
<1>3. CASE ~HasRoom
  BY <1>3 DEF Enqueue, TypeOK
<1> QED
  BY <1>2, <1>3

LEMMA TimeType == ASSUME TInv, Time PROVE TInv'
<1> USE DEF Time, TimeMayPass, Running
<1>1. UNCHANGED <<send, closed, net, sent, got, wsOpen, writer, message, reader, client, owes, steady>>
  BY DEF buffers, loops, peer
<1>2. sinceTick' \in 0 .. PingInterval /\ sinceTick' < PingInterval /\ tick' \in BOOLEAN
  BY Constants DEF TInv, TypeOK
<1>3. sinceRead' \in 0 .. PongWait
  BY Constants DEF TInv, TypeOK
<1>4. sinceWrite' \in 0 .. WriteWait
  BY Constants DEF TInv, TypeOK
<1>5. sinceOwed' \in 0 .. Delay
  BY Constants DEF TInv, TypeOK
<1> QED
  BY <1>1, <1>2, <1>3, <1>4, <1>5 DEF TInv, TypeOK

LEMMA StepTInv == TInv /\ [Next]_vars => TInv'
<1> SUFFICES ASSUME TInv, [Next]_vars PROVE TInv'
  OBVIOUS
<1> USE DEF buffers, loops, peer, clocks
<1>1. CASE SendBytes
  <2>1. sent < MaxSent /\ (reader = "replying" => sent + 1 < MaxSent)
    BY <1>1, Constants DEF SendBytes, MoreToSend, TInv, TypeOK
  <2>2. send' \in Seq(Messages) /\ Len(send') <= Buffer
    BY <1>1, <2>1, EnqueueType DEF SendBytes, TInv
  <2>3. sent' \in 0 .. MaxSent /\ (reader' = "replying" => sent' < MaxSent)
    BY <1>1, <2>1, Constants DEF SendBytes, TInv, TypeOK
  <2> QED
    BY <1>1, <2>2, <2>3 DEF SendBytes, TInv, TypeOK
<1>2. CASE TakeMessage
  <2>1. /\ Head(send) \in Messages /\ Tail(send) \in Seq(Messages)
        /\ Len(Tail(send)) <= Buffer
    BY <1>2, Constants DEF TakeMessage, TInv, TypeOK
  <2>2. sinceWrite' \in 0 .. WriteWait
    BY <1>2, Constants DEF TakeMessage
  <2> QED
    BY <1>2, <2>1, <2>2 DEF TakeMessage, Taken, TInv, TypeOK
<1>3. CASE TakeTick
  <2>1. sinceWrite' \in 0 .. WriteWait
    BY <1>3, Constants DEF TakeTick
  <2> QED
    BY <1>3, <2>1, Constants DEF TakeTick, TInv, TypeOK
<1>4. CASE Write
  <2>1. Append(net, message) \in Seq(Messages) /\ Len(Append(net, message)) <= Flight
    BY <1>4, Constants DEF Write, TInv, TypeOK
  <2> QED
    BY <1>4, <2>1 DEF Write, TInv, TypeOK
<1>5. CASE WriteError \/ SendClosed
  BY <1>5 DEF WriteError, SendClosed, TInv, TypeOK
<1>6. CASE ReadMessage
  <2>1. reader' \in {"handling", "replying"} /\ (reader' = "replying" => sent < MaxSent)
    BY <1>6 DEF ReadMessage, MoreToSend
  <2>2. sinceRead' \in 0 .. PongWait
    BY <1>6, Constants DEF ReadMessage, DeadlineMoved
  <2> QED
    BY <1>6, <2>1, <2>2 DEF ReadMessage, TInv, TypeOK
<1>7. CASE Handled
  <2>1. CASE reader = "handling" /\ UNCHANGED <<send, sent>>
    BY <1>7, <2>1 DEF Handled, TInv, TypeOK
  <2>2. CASE reader = "replying" /\ Enqueue /\ sent' = sent + 1
    <3>1. send' \in Seq(Messages) /\ Len(send') <= Buffer
      BY <2>2, EnqueueType DEF TInv
    <3>2. sent' \in 0 .. MaxSent
      BY <2>2, Constants DEF TInv, TypeOK
    <3> QED
      BY <1>7, <3>1, <3>2 DEF Handled, TInv, TypeOK
  <2> QED
    BY <1>7, <2>1, <2>2 DEF Handled
<1>8. CASE ReadError \/ CloseSend \/ CloseSocket
  <2>1. reader' \in {"onClose", "closing", "done"} /\ closed' \in BOOLEAN /\ wsOpen' \in BOOLEAN
    BY <1>8 DEF ReadError, CloseSend, CloseSocket, TInv, TypeOK
  <2>2. UNCHANGED <<send, net, sent, got, writer, message, client, owes, steady, clocks>>
    BY <1>8 DEF ReadError, CloseSend, CloseSocket
  <2> QED
    BY <2>1, <2>2 DEF TInv, TypeOK
<1>9. CASE ClientReads
  <2>1. Head(net) \in Messages /\ Tail(net) \in Seq(Messages) /\ Len(Tail(net)) <= Flight
    <3>1. net \in Seq(Messages) /\ net # <<>> /\ Len(net) <= Flight
      BY <1>9 DEF ClientReads, TInv, TypeOK
    <3> QED
      BY <3>1, Constants
  <2>2. got' \in Seq(Messages) /\ owes' \in BOOLEAN /\ sinceOwed' \in 0 .. Delay
    <3>1. CASE Head(net) = Ping
      <4>1. owes' = TRUE /\ got' = got /\ sinceOwed' = (IF owes THEN sinceOwed ELSE 0)
        BY <1>9, <3>1 DEF ClientReads
      <4>2. sinceOwed \in 0 .. Delay /\ 0 \in 0 .. Delay
        BY Constants DEF TInv, TypeOK
      <4>3. sinceOwed' \in 0 .. Delay
        BY <4>1, <4>2
      <4> QED
        BY <4>1, <4>3 DEF TInv, TypeOK
    <3>2. CASE Head(net) # Ping
      <4>1. got' = Append(got, Head(net)) /\ owes' = owes /\ sinceOwed' = sinceOwed
        BY <1>9, <3>2 DEF ClientReads
      <4>2. got' \in Seq(Messages)
        BY <4>1, <2>1 DEF TInv, TypeOK
      <4> QED
        BY <4>1, <4>2 DEF TInv, TypeOK
    <3> QED
      BY <3>1, <3>2
  <2> QED
    BY <1>9, <2>1, <2>2 DEF ClientReads, TInv, TypeOK
<1>10. CASE ClientChanges
  BY <1>10 DEF ClientChanges, TInv, TypeOK
<1>11. CASE Time
  BY <1>11, TimeType
<1>12. CASE UNCHANGED vars
  BY <1>12 DEF vars, TInv, TypeOK
<1> QED
  BY <1>1, <1>2, <1>3, <1>4, <1>5, <1>6, <1>7, <1>8, <1>9, <1>10, <1>11, <1>12
     DEF Next, WriterStep, ReaderStep, ClientStep

-----------------------------------------------------------------------------
(* A client that answers is kept *)

\* A ping the client has not read: a tick, a write, or one in the network.
PingPending ==
    \/ tick
    \/ writer = "writing" /\ message = Ping
    \/ \E i \in 1 .. Len(net) : net[i] = Ping

\* While the client has been there all the time, nothing fails, no time passes
\* during a write, and what has gone since the last read is accounted for: up
\* to PingInterval before the client reads a ping, and then its delay.
SteadyOK == steady =>
    /\ client = "there" /\ wsOpen /\ ~closed
    /\ reader \in {"reading", "handling", "replying"} /\ writer # "done"
    /\ writer = "writing" => sinceWrite = 0
    /\ owes => sinceRead <= PingInterval + sinceOwed
    /\ ~owes => sinceRead <= PingInterval
    /\ ~owes /\ ~PingPending => sinceRead <= sinceTick

LEMMA InitSteady == Init => SteadyOK
  BY Constants DEF Init, SteadyOK

\* Time passes for such a client only while nothing is on its way to it.
LEMMA SteadyTime ==
  ASSUME TInv, SteadyOK, Time, steady'
  PROVE  /\ UNCHANGED <<closed, wsOpen, writer, message, reader, net, client, owes, steady>>
         /\ writer = "waiting" /\ ~tick /\ net = <<>> /\ sinceTick' \in Nat
         /\ sinceRead' <= sinceRead + 1
         /\ owes => sinceOwed' = sinceOwed + 1
         /\ IF sinceTick + 1 = PingInterval THEN tick' ELSE sinceTick' = sinceTick + 1
<1>1. UNCHANGED <<closed, wsOpen, writer, message, reader, net, client, owes, steady>>
  BY DEF Time, buffers, loops, peer
<1>2. client = "there" /\ wsOpen /\ ~closed /\ writer # "done"
  BY <1>1 DEF SteadyOK
<1>3. net = <<>>
  BY <1>2 DEF Time, TimeMayPass
<1>4. Len(net) # Flight
  BY <1>3, Constants
<1>5. writer = "waiting" /\ ~tick
  BY <1>2, <1>4 DEF Time, TimeMayPass
<1>6. IF sinceTick + 1 = PingInterval THEN tick' /\ sinceTick' = 0 ELSE sinceTick' = sinceTick + 1
  BY <1>2 DEF Time
<1>7. sinceTick' \in Nat
  BY <1>6, Constants DEF TInv, TypeOK
<1>8. sinceRead' <= sinceRead + 1
  BY Constants DEF Time, Running, TInv, TypeOK
<1>9. owes => sinceOwed' = sinceOwed + 1
  BY <1>2 DEF Time, Running
<1> QED
  BY <1>1, <1>3, <1>5, <1>6, <1>7, <1>8, <1>9

LEMMA StepSteady ==
  ASSUME TInv, TInv', SteadyOK, [Next]_vars, steady'
  PROVE  SteadyOK'
<1> USE DEF buffers, loops, peer, clocks
<1>1. ~ClientChanges /\ steady
  BY DEF ClientChanges, Next, SendBytes, WriterStep, TakeMessage, TakeTick, Write, WriteError,
         SendClosed, ReaderStep, Handled, ReadError, CloseSend, CloseSocket, ClientStep,
         ReadMessage, ClientReads, Time, vars
<1>2. /\ client = "there" /\ wsOpen /\ ~closed
      /\ reader \in {"reading", "handling", "replying"} /\ writer # "done"
      /\ writer = "writing" => sinceWrite = 0
      /\ owes => sinceRead <= PingInterval + sinceOwed
      /\ ~owes => sinceRead <= PingInterval
      /\ ~owes /\ ~PingPending => sinceRead <= sinceTick
  BY <1>1 DEF SteadyOK
<1>3. /\ sinceRead \in Nat /\ sinceTick \in Nat /\ sinceOwed \in Nat /\ sinceOwed <= Delay
      /\ sinceRead' \in Nat /\ sinceTick < PingInterval /\ sinceTick' < PingInterval
      /\ net \in Seq(Messages) /\ net' \in Seq(Messages)
  BY Constants DEF TInv, TypeOK
<1>4. ~WriteError /\ ~ReadError /\ ~SendClosed /\ ~CloseSend /\ ~CloseSocket
  <2>1. ASSUME WriteError PROVE FALSE
    <3>1. writer = "writing" /\ (~wsOpen \/ client = "gone" \/ sinceWrite >= WriteWait)
      BY <2>1 DEF WriteError
    <3>2. sinceWrite = 0
      BY <3>1, <1>2
    <3>3. ~(sinceWrite >= WriteWait)
      BY <3>2, Constants
    <3> QED
      BY <3>1, <3>3, <1>2
  <2>2. ASSUME ReadError PROVE FALSE
    <3>1. ~wsOpen \/ client = "gone" \/ sinceRead >= PongWait
      BY <2>2 DEF ReadError
    <3>2. sinceRead < PongWait
      BY <1>2, <1>3, Constants
    <3> QED
      BY <3>1, <3>2, <1>2, <1>3, Constants
  <2> QED
    BY <1>2, <2>1, <2>2 DEF SendClosed, CloseSend, CloseSocket
<1>5. CASE SendBytes \/ UNCHANGED vars
  <2>1. UNCHANGED <<closed, net, wsOpen, writer, message, reader, client, owes, steady,
                    tick, sinceTick, sinceRead, sinceWrite, sinceOwed>>
    BY <1>5 DEF SendBytes, vars
  <2> QED
    BY <2>1, <1>2 DEF SteadyOK, PingPending
<1>6. CASE TakeMessage
  <2>1. /\ UNCHANGED <<closed, net, wsOpen, reader, client, owes, steady, tick, sinceTick,
                       sinceRead, sinceOwed>>
        /\ writer = "waiting" /\ writer' = "writing" /\ sinceWrite' = 0
    BY <1>6 DEF TakeMessage
  <2>2. PingPending => PingPending'
    BY <2>1 DEF PingPending
  <2> QED
    BY <2>1, <2>2, <1>2 DEF SteadyOK
<1>7. CASE TakeTick
  <2>1. /\ UNCHANGED <<closed, wsOpen, reader, client, owes, steady, sinceTick, sinceRead, sinceOwed>>
        /\ writer' = "writing" /\ message' = Ping /\ sinceWrite' = 0
    BY <1>7 DEF TakeTick
  <2> QED
    BY <2>1, <1>2 DEF SteadyOK, PingPending
<1>8. CASE Write
  <2>1. /\ UNCHANGED <<closed, wsOpen, reader, client, owes, steady, tick, sinceTick, sinceRead, sinceOwed>>
        /\ writer = "writing" /\ writer' = "waiting" /\ net' = Append(net, message)
    BY <1>8 DEF Write
  <2>2. /\ Len(net') = Len(net) + 1 /\ net'[Len(net) + 1] = message
        /\ \A i \in 1 .. Len(net) : net'[i] = net[i]
        /\ Len(net) \in Nat
    BY <2>1, <1>3 DEF TInv, TypeOK
  <2>3. PingPending => PingPending'
    <3>1. CASE message = Ping
      <4>1. Len(net) + 1 \in 1 .. Len(net') /\ net'[Len(net) + 1] = Ping
        BY <2>2, <3>1
      <4> QED
        BY <4>1 DEF PingPending
    <3>2. ASSUME NEW i \in 1 .. Len(net), net[i] = Ping PROVE PingPending'
      <4>1. i \in 1 .. Len(net') /\ net'[i] = Ping
        BY <2>2, <3>2
      <4> QED
        BY <4>1 DEF PingPending
    <3> QED
      BY <2>1, <3>1, <3>2 DEF PingPending
  <2> QED
    BY <2>1, <2>3, <1>2 DEF SteadyOK
<1>9. CASE ReadMessage
  <2>1. /\ UNCHANGED <<closed, wsOpen, writer, client, steady, sinceTick, sinceWrite>>
        /\ reader' \in {"handling", "replying"} /\ owes' = FALSE /\ sinceRead' = 0
    BY <1>9 DEF ReadMessage, DeadlineMoved
  <2> QED
    BY <2>1, <1>2, <1>3, Constants DEF SteadyOK
<1>10. CASE Handled
  <2>1. /\ UNCHANGED <<closed, net, wsOpen, writer, message, client, owes, steady,
                       tick, sinceTick, sinceRead, sinceWrite, sinceOwed>>
        /\ reader' = "reading"
    BY <1>10 DEF Handled
  <2> QED
    BY <2>1, <1>2 DEF SteadyOK, PingPending
<1>11. CASE ClientReads
  <2>1. /\ UNCHANGED <<closed, wsOpen, writer, message, reader, client, steady,
                       tick, sinceTick, sinceRead, sinceWrite>>
        /\ net # <<>> /\ net' = Tail(net)
    BY <1>11 DEF ClientReads
  <2>2. CASE Head(net) = Ping
    <3>1. owes' = TRUE /\ sinceOwed' = IF owes THEN sinceOwed ELSE 0
      BY <1>11, <2>2 DEF ClientReads
    <3>2. sinceRead' <= PingInterval + sinceOwed'
      BY <2>1, <3>1, <1>2, <1>3, Constants
    <3> QED
      BY <2>1, <3>1, <3>2, <1>2 DEF SteadyOK
  <2>3. CASE Head(net) # Ping
    <3>1. UNCHANGED <<owes, sinceOwed>>
      BY <1>11, <2>3 DEF ClientReads
    <3>2. /\ Len(net) \in Nat /\ Len(net') = Len(net) - 1 /\ net[1] # Ping
          /\ \A i \in 1 .. Len(net') : net'[i] = net[i + 1]
      BY <2>1, <2>3, <1>3
    <3>3. PingPending => PingPending'
      <4>1. ASSUME NEW i \in 1 .. Len(net), net[i] = Ping PROVE PingPending'
        <5>1. i - 1 \in 1 .. Len(net') /\ net'[i - 1] = Ping
          BY <3>2, <4>1
        <5> QED
          BY <5>1 DEF PingPending
      <4> QED
        BY <4>1, <2>1 DEF PingPending
    <3> QED
      BY <2>1, <3>1, <3>3, <1>2 DEF SteadyOK
  <2> QED
    BY <2>2, <2>3
<1>12. CASE Time
  <2>1. /\ UNCHANGED <<closed, wsOpen, writer, message, reader, net, client, owes, steady>>
        /\ writer = "waiting" /\ ~tick /\ net = <<>> /\ sinceTick' \in Nat
        /\ sinceRead' <= sinceRead + 1
        /\ owes => sinceOwed' = sinceOwed + 1
        /\ IF sinceTick + 1 = PingInterval THEN tick' ELSE sinceTick' = sinceTick + 1
    BY <1>12, SteadyTime
  <2>2. ~PingPending
    BY <2>1 DEF PingPending
  <2>3. owes' => sinceRead' <= PingInterval + sinceOwed'
    BY <2>1, <1>2, <1>3, Constants
  <2>4. ~owes' => sinceRead' <= PingInterval
    BY <2>1, <2>2, <1>2, <1>3, Constants
  <2>5. ~owes' /\ ~PingPending' => sinceRead' <= sinceTick'
    <3>1. tick' => PingPending'
      BY DEF PingPending
    <3> QED
      BY <2>1, <2>2, <3>1, <1>2, <1>3
  <2> QED
    BY <2>1, <2>3, <2>4, <2>5, <1>2 DEF SteadyOK
<1> QED
  BY <1>1, <1>4, <1>5, <1>6, <1>7, <1>8, <1>9, <1>10, <1>11, <1>12
     DEF Next, WriterStep, ReaderStep, ClientStep

\* The clocks of a client that has been there all the time, with the types.
THEOREM SteadyInvariant == Spec => [](TInv /\ SteadyOK)
<1>1. Init => TInv /\ SteadyOK
  BY InitTInv, InitSteady
<1>2. TInv /\ SteadyOK /\ [Next]_vars => (TInv /\ SteadyOK)'
  <2> SUFFICES ASSUME TInv, SteadyOK, [Next]_vars PROVE TInv' /\ SteadyOK'
    OBVIOUS
  <2>1. TInv'
    BY StepTInv
  <2>2. CASE steady'
    BY <2>1, <2>2, StepSteady
  <2>3. CASE ~steady'
    BY <2>1, <2>3 DEF SteadyOK
  <2> QED
    BY <2>1, <2>2, <2>3
<1> QED
  BY <1>1, <1>2, PTL DEF Spec

\* Every variable keeps its type: no buffer is ever more than full, and no
\* clock passes its deadline.
THEOREM TypeCorrect == Spec => []TypeOK
<1>1. TInv => TypeOK
  BY DEF TInv
<1> QED
  BY <1>1, SteadyInvariant, PTL

\* Neither deadline of conn.go ever passes for a client that reads and answers
\* each ping within Delay, for any lengths of time with
\* PingInterval + Delay < PongWait.
THEOREM AnsweringClientKept == Spec => []AnsweringKept
<1>1. SteadyOK => AnsweringKept
  BY DEF SteadyOK, AnsweringKept
<1> QED
  BY <1>1, SteadyInvariant, PTL

-----------------------------------------------------------------------------
(* The connection is a lossy channel *)

Numbers(s) == {s[i] : i \in 1 .. Len(s)} \ {Ping}

Ascending(s) ==
    \A i, j \in 1 .. Len(s) : i < j /\ s[i] # Ping /\ s[j] # Ping => s[i] < s[j]

Held == IF writer = "writing" THEN {message} \ {Ping} ELSE {}

\* Numbers grow from the client back to the sender: what it has read, what is
\* in the network, what is being written, what is in the buffer.
OrderOK ==
    /\ Ascending(net) /\ Ascending(send)
    /\ Channel!Newest <= sent
    /\ \A m \in Numbers(net) \cup Held \cup Numbers(send) : Channel!Newest < m /\ m <= sent
    /\ \A a \in Numbers(net), b \in Held \cup Numbers(send) : a < b
    /\ \A a \in Held, b \in Numbers(send) : a < b

LEMMA NumbersAreNats ==
  ASSUME NEW s \in Seq(Messages)
  PROVE  Numbers(s) \subseteq Nat
  BY Constants DEF Numbers, Messages

LEMMA AppendNumbers ==
  ASSUME NEW s \in Seq(Messages), NEW m \in Messages
  PROVE  /\ Numbers(Append(s, m)) = Numbers(s) \cup ({m} \ {Ping})
         /\ Ascending(s) /\ (m # Ping => \A a \in Numbers(s) : a < m) => Ascending(Append(s, m))
<1> DEFINE t == Append(s, m)
<1>1. /\ Len(t) = Len(s) + 1 /\ Len(s) \in Nat /\ t[Len(s) + 1] = m
      /\ \A i \in 1 .. Len(s) : t[i] = s[i]
  OBVIOUS
<1> HIDE DEF t
<1>2. 1 .. Len(t) = 1 .. Len(s) \cup {Len(s) + 1}
  BY <1>1
<1>3. Numbers(t) = Numbers(s) \cup ({m} \ {Ping})
  BY <1>1, <1>2 DEF Numbers
<1>4. ASSUME Ascending(s), m # Ping => \A a \in Numbers(s) : a < m,
             NEW i \in 1 .. Len(t), NEW j \in 1 .. Len(t), i < j, t[i] # Ping, t[j] # Ping
      PROVE  t[i] < t[j]
  <2>1. i \in 1 .. Len(s) /\ t[i] = s[i]
    BY <1>1, <1>4
  <2>2. CASE j \in 1 .. Len(s)
    BY <2>1, <2>2, <1>1, <1>4 DEF Ascending
  <2>3. CASE j = Len(s) + 1
    <3>1. s[i] \in Numbers(s)
      BY <2>1, <1>4 DEF Numbers
    <3> QED
      BY <2>1, <2>3, <3>1, <1>1, <1>4
  <2> QED
    BY <2>2, <2>3, <1>2
<1> QED
  BY <1>3, <1>4 DEF t, Ascending

LEMMA TailNumbers ==
  ASSUME NEW s \in Seq(Messages), s # <<>>
  PROVE  /\ Numbers(Tail(s)) \subseteq Numbers(s)
         /\ Ascending(s) => Ascending(Tail(s))
         /\ Head(s) # Ping => Head(s) \in Numbers(s)
         /\ Ascending(s) /\ Head(s) # Ping => \A a \in Numbers(Tail(s)) : Head(s) < a
<1> DEFINE t == Tail(s)
<1>1. /\ Len(s) \in Nat /\ Len(s) >= 1 /\ Len(t) = Len(s) - 1 /\ Head(s) = s[1]
      /\ \A i \in 1 .. Len(t) : t[i] = s[i + 1] /\ i + 1 \in 1 .. Len(s)
  OBVIOUS
<1> HIDE DEF t
<1>2. Numbers(t) \subseteq Numbers(s)
  BY <1>1 DEF Numbers
<1>3. Head(s) # Ping => Head(s) \in Numbers(s)
  BY <1>1 DEF Numbers
<1>4. ASSUME Ascending(s) PROVE Ascending(t)
  <2> SUFFICES ASSUME NEW i \in 1 .. Len(t), NEW j \in 1 .. Len(t), i < j, t[i] # Ping, t[j] # Ping
               PROVE  t[i] < t[j]
    BY DEF Ascending
  <2>1. i + 1 < j + 1
    BY <1>1
  <2> QED
    BY <2>1, <1>1, <1>4 DEF Ascending
<1>5. ASSUME Ascending(s), Head(s) # Ping, NEW a \in Numbers(t) PROVE Head(s) < a
  <2>1. PICK i \in 1 .. Len(t) : a = t[i] /\ t[i] # Ping
    BY DEF Numbers
  <2>2. 1 \in 1 .. Len(s) /\ i + 1 \in 1 .. Len(s) /\ 1 < i + 1 /\ a = s[i + 1]
    BY <2>1, <1>1
  <2> QED
    BY <2>1, <2>2, <1>1, <1>5 DEF Ascending
<1> QED
  BY <1>2, <1>3, <1>4, <1>5 DEF t


LEMMA InitOrder == Init => OrderOK
<1> SUFFICES ASSUME Init PROVE OrderOK
  OBVIOUS
<1>1. net = <<>> /\ send = <<>> /\ got = <<>> /\ sent = 0 /\ writer = "waiting"
  BY DEF Init
<1>2. Numbers(net) = {} /\ Numbers(send) = {} /\ Held = {}
  BY <1>1 DEF Numbers, Held
<1>3. Ascending(net) /\ Ascending(send)
  BY <1>1 DEF Ascending
<1>4. Channel!Newest = 0
  BY <1>1 DEF Channel!Newest
<1> QED
  BY <1>1, <1>2, <1>3, <1>4 DEF OrderOK

LEMMA NewestType == ASSUME TypeOK PROVE Channel!Newest \in Nat /\ sent \in Nat
<1>1. got \in Seq(Messages) /\ Messages \subseteq Nat /\ sent \in Nat
  BY Constants DEF TypeOK, Messages
<1>2. CASE got = <<>>
  BY <1>1, <1>2 DEF Channel!Newest
<1>3. CASE got # <<>>
  <2>1. got[Len(got)] \in Messages
    BY <1>1, <1>3
  <2> QED
    BY <2>1, <1>1, <1>3 DEF Channel!Newest
<1> QED
  BY <1>1, <1>2, <1>3

\* A message offered to the buffer is newer than all there are.
LEMMA EnqueueKeepsOrder ==
  ASSUME TypeOK, OrderOK, sent < MaxSent, Enqueue, sent' = sent + 1,
         UNCHANGED <<net, got, writer, message>>
  PROVE  OrderOK'
<1>1. /\ sent \in Nat /\ sent + 1 \in Messages /\ sent + 1 # Ping
      /\ send \in Seq(Messages) /\ net \in Seq(Messages) /\ message \in Messages
  BY Constants DEF TypeOK, Messages
<1>2. Numbers(send) \subseteq Nat /\ Numbers(net) \subseteq Nat /\ Held \subseteq Nat
  BY <1>1, NumbersAreNats, Constants DEF Held, Messages
<1>3. Channel!Newest \in Nat /\ Channel!Newest' = Channel!Newest
  BY NewestType DEF Channel!Newest
<1>4. Numbers(net)' = Numbers(net) /\ Held' = Held /\ Ascending(net)'
  BY DEF OrderOK, Numbers, Held, Ascending
<1>5. \A a \in Numbers(send) : a < sent + 1
  BY <1>1, <1>2 DEF OrderOK
<1>6. Numbers(send') \subseteq Numbers(send) \cup {sent + 1} /\ Ascending(send')
  <2>1. CASE HasRoom
    <3>1. send' = Append(send, sent + 1)
      BY <2>1 DEF Enqueue
    <3> QED
      BY <3>1, <1>1, <1>5, AppendNumbers DEF OrderOK
  <2>2. CASE ~HasRoom
    <3>1. send' = send
      BY <2>2 DEF Enqueue
    <3> QED
      BY <3>1 DEF OrderOK
  <2> QED
    BY <2>1, <2>2
<1> DEFINE All == Numbers(net) \cup Held \cup Numbers(send)
<1>7. \A m \in All : m < sent + 1 /\ m <= sent + 1 /\ Channel!Newest < m
  <2>1. \A m \in All : m \in Nat /\ m <= sent /\ Channel!Newest < m
    BY <1>2 DEF OrderOK
  <2> QED
    BY <2>1, <1>1
<1>8. \A m \in Numbers(net) \cup Held \cup Numbers(send') :
          Channel!Newest < m /\ m <= sent + 1
  <2>1. Channel!Newest < sent + 1 /\ sent + 1 <= sent + 1
    BY <1>1, <1>3 DEF OrderOK
  <2>2. \A m \in Numbers(net) \cup Held \cup Numbers(send') : m \in All \/ m = sent + 1
    BY <1>6
  <2> QED
    BY <2>1, <2>2, <1>7
<1>9. /\ \A a \in Numbers(net), b \in Held \cup Numbers(send') : a < b
      /\ \A a \in Held, b \in Numbers(send') : a < b
  BY <1>6, <1>7 DEF OrderOK
<1>10. Channel!Newest' <= sent'
  BY <1>1, <1>3 DEF OrderOK
<1>11. Numbers(send)' = Numbers(send') /\ Ascending(send)' 
  BY <1>6 DEF Numbers, Ascending
<1> QED
  BY <1>3, <1>4, <1>8, <1>9, <1>10, <1>11 DEF OrderOK

\* A step that reads nothing keeps the order if the numbers in each place come
\* from there or from the place before.
LEMMA MovesKeepOrder ==
  ASSUME TypeOK, OrderOK, UNCHANGED <<got, sent>>,
         NEW N, NEW H, NEW Q,
         Numbers(net)' = N, Held' = H, Numbers(send)' = Q,
         Ascending(net)', Ascending(send)',
         Q \subseteq Numbers(send),
         \/ N \subseteq Numbers(net) /\ H \subseteq Held
         \/ N \subseteq Numbers(net) \cup Held /\ H = {}
         \/ /\ N \subseteq Numbers(net) /\ H \subseteq Numbers(send)
            /\ \A a \in H, b \in Q : a < b
  PROVE  OrderOK'
<1>1. Channel!Newest' = Channel!Newest
  BY DEF Channel!Newest
<1>2. \A m \in N \cup H \cup Q : Channel!Newest < m /\ m <= sent
  BY DEF OrderOK
<1> DEFINE Apart(S, T) == \A a \in S, b \in T : a < b
<1>3. Apart(Numbers(net), Held) /\ Apart(Numbers(net), Numbers(send)) /\ Apart(Held, Numbers(send))
  BY DEF OrderOK
<1>4. Apart(N, H) /\ Apart(N, Q) /\ Apart(H, Q)
  <2>1. CASE N \subseteq Numbers(net) /\ H \subseteq Held
    BY <2>1, <1>3
  <2>2. CASE N \subseteq Numbers(net) \cup Held /\ H = {}
    BY <2>2, <1>3
  <2>3. CASE /\ N \subseteq Numbers(net) /\ H \subseteq Numbers(send)
             /\ \A a \in H, b \in Q : a < b
    BY <2>3, <1>3
  <2> QED
    BY <2>1, <2>2, <2>3
<1> QED
  BY <1>1, <1>2, <1>3, <1>4 DEF OrderOK


LEMMA StepOrder ==
  ASSUME TInv, OrderOK, [Next]_vars
  PROVE  OrderOK' /\ [Channel!Next]_<<sent, got>>
<1> USE DEF buffers, loops, peer, clocks
<1>1. /\ TypeOK /\ sent \in Nat
      /\ send \in Seq(Messages) /\ net \in Seq(Messages) /\ message \in Messages
  BY Constants DEF TInv, TypeOK
<1>2. Ascending(net) /\ Ascending(send)
  BY DEF OrderOK
<1>3. ASSUME Enqueue, sent' = sent + 1, sent < MaxSent, UNCHANGED <<net, got, writer, message>>
      PROVE  OrderOK' /\ [Channel!Next]_<<sent, got>>
  <2>1. OrderOK'
    BY <1>1, <1>3, EnqueueKeepsOrder
  <2>2. Channel!Send
    BY <1>3 DEF Channel!Send
  <2> QED
    BY <2>1, <2>2 DEF Channel!Next
<1>4. ASSUME UNCHANGED <<send, net, writer, message, sent, got>>
      PROVE  OrderOK' /\ [Channel!Next]_<<sent, got>>
  BY <1>4 DEF OrderOK, Numbers, Held, Ascending, Channel!Newest
<1>5. CASE SendBytes
  <2>1. sent < MaxSent
    BY <1>5, <1>1, Constants DEF SendBytes, MoreToSend
  <2> QED
    BY <2>1, <1>3, <1>5 DEF SendBytes
<1>6. CASE TakeMessage
  <2>1. /\ writer = "waiting" /\ send # <<>> /\ writer' = "writing" /\ message' = Head(send)
        /\ send' = Tail(send) /\ UNCHANGED <<net, sent, got>>
    BY <1>6 DEF TakeMessage, Taken
  <2>2. /\ Numbers(Tail(send)) \subseteq Numbers(send) /\ Ascending(Tail(send))
        /\ Head(send) # Ping => /\ Head(send) \in Numbers(send)
                                /\ \A a \in Numbers(Tail(send)) : Head(send) < a
    BY <2>1, <1>1, <1>2, TailNumbers
  <2>3. Held' = {Head(send)} \ {Ping}
    BY <2>1 DEF Held, Ping
  <2>4. Held' \subseteq Numbers(send) /\ \A a \in Held', b \in Numbers(Tail(send)) : a < b
    BY <2>2, <2>3
  <2>5. /\ Numbers(net)' = Numbers(net) /\ Numbers(send)' = Numbers(Tail(send))
        /\ Ascending(net)' /\ Ascending(send)'
    BY <2>1, <2>2, <1>2 DEF Numbers, Ascending
  <2>6. OrderOK'
    BY <2>1, <2>2, <2>4, <2>5, <1>1, MovesKeepOrder
  <2> QED
    BY <2>1, <2>6
<1>7. CASE TakeTick
  <2>1. writer' = "writing" /\ message' = Ping /\ UNCHANGED <<send, net, sent, got>>
    BY <1>7 DEF TakeTick
  <2>2. Held' = {}
    BY <2>1 DEF Held, Ping
  <2>3. /\ Numbers(net)' = Numbers(net) /\ Numbers(send)' = Numbers(send)
        /\ Ascending(net)' /\ Ascending(send)'
    BY <2>1, <1>2 DEF Numbers, Ascending
  <2>4. OrderOK'
    BY <2>1, <2>2, <2>3, <1>1, MovesKeepOrder
  <2> QED
    BY <2>1, <2>4
<1>8. CASE Write
  <2>1. /\ writer = "writing" /\ writer' = "waiting" /\ net' = Append(net, message)
        /\ UNCHANGED <<send, sent, got>>
    BY <1>8 DEF Write
  <2>2. Held = {message} \ {Ping} /\ Held' = {}
    BY <2>1 DEF Held
  <2>3. message # Ping => \A a \in Numbers(net) : a < message
    BY <2>2 DEF OrderOK
  <2>4. /\ Numbers(Append(net, message)) = Numbers(net) \cup Held
        /\ Ascending(Append(net, message))
    BY <2>2, <2>3, <1>1, <1>2, AppendNumbers
  <2>5. /\ Numbers(net)' = Numbers(net) \cup Held /\ Numbers(send)' = Numbers(send)
        /\ Ascending(net)' /\ Ascending(send)'
    BY <2>1, <2>4, <1>2 DEF Numbers, Ascending
  <2>6. OrderOK'
    BY <2>1, <2>2, <2>5, <1>1, MovesKeepOrder
  <2> QED
    BY <2>1, <2>6
<1>9. CASE WriteError \/ SendClosed
  <2>1. writer' = "done" /\ UNCHANGED <<send, net, sent, got>>
    BY <1>9 DEF WriteError, SendClosed
  <2>2. Held' = {}
    BY <2>1 DEF Held
  <2>3. /\ Numbers(net)' = Numbers(net) /\ Numbers(send)' = Numbers(send)
        /\ Ascending(net)' /\ Ascending(send)'
    BY <2>1, <1>2 DEF Numbers, Ascending
  <2>4. OrderOK'
    BY <2>1, <2>2, <2>3, <1>1, MovesKeepOrder
  <2> QED
    BY <2>1, <2>4
<1>10. CASE Handled
  <2>1. CASE UNCHANGED <<send, sent>>
    BY <2>1, <1>4, <1>10 DEF Handled
  <2>2. CASE reader = "replying" /\ Enqueue /\ sent' = sent + 1
    BY <2>2, <1>3, <1>10 DEF Handled, TInv
  <2> QED
    BY <2>1, <2>2, <1>10 DEF Handled
<1>11. CASE ClientReads
  <2>1. /\ net # <<>> /\ net' = Tail(net) /\ UNCHANGED <<send, sent, writer, message>>
        /\ IF Head(net) = Ping THEN got' = got ELSE got' = Append(got, Head(net))
    BY <1>11 DEF ClientReads
  <2>2. /\ Numbers(Tail(net)) \subseteq Numbers(net) /\ Ascending(Tail(net))
        /\ Head(net) # Ping => /\ Head(net) \in Numbers(net)
                               /\ \A a \in Numbers(Tail(net)) : Head(net) < a
    BY <2>1, <1>1, <1>2, TailNumbers
  <2>3. /\ Numbers(net)' = Numbers(Tail(net)) /\ Numbers(send)' = Numbers(send)
        /\ Held' = Held /\ Ascending(net)' /\ Ascending(send)'
    BY <2>1, <2>2, <1>2 DEF Numbers, Ascending, Held
  <2>4. CASE Head(net) = Ping
    <3>1. UNCHANGED <<got, sent>>
      BY <2>1, <2>4
    <3>2. OrderOK'
      BY <3>1, <2>2, <2>3, <1>1, MovesKeepOrder
    <3> QED
      BY <3>1, <3>2
  <2>5. CASE Head(net) # Ping
    <3>1. got' = Append(got, Head(net)) /\ Head(net) \in Messages /\ got \in Seq(Messages)
      BY <2>1, <2>5, <1>1 DEF TypeOK
    <3>2. got' # <<>> /\ got'[Len(got')] = Head(net)
      BY <3>1
    <3>3. Channel!Newest' = Head(net)
      BY <3>2 DEF Channel!Newest
    <3>4. Channel!Newest < Head(net) /\ Head(net) <= sent
      BY <2>2, <2>5 DEF OrderOK
    <3>5. \A m \in Held \cup Numbers(send) : Head(net) < m
      BY <2>2, <2>5 DEF OrderOK
    <3>6. OrderOK'
      <4>1. \A m \in Numbers(Tail(net)) \cup Held \cup Numbers(send) : Head(net) < m /\ m <= sent
        BY <2>2, <2>5, <3>5 DEF OrderOK
      <4>2. \A a \in Numbers(Tail(net)), b \in Held \cup Numbers(send) : a < b
        BY <2>2 DEF OrderOK
      <4>3. \A a \in Held, b \in Numbers(send) : a < b
        BY DEF OrderOK
      <4> QED
        BY <2>1, <2>3, <3>3, <3>4, <4>1, <4>2, <4>3 DEF OrderOK
    <3>7. Channel!Receive
      <4>1. Channel!Newest \in Nat /\ Head(net) \in Nat
        BY <3>1, <1>1, NewestType, Constants DEF Messages
      <4>2. Head(net) \in Channel!Newest + 1 .. sent
        BY <3>4, <4>1, <1>1
      <4> QED
        BY <4>2, <3>1, <2>1 DEF Channel!Receive
    <3> QED
      BY <3>6, <3>7 DEF Channel!Next
  <2> QED
    BY <2>4, <2>5
<1>12. CASE \/ ReadMessage \/ ReadError \/ CloseSend \/ CloseSocket
            \/ ClientChanges \/ Time \/ UNCHANGED vars
  BY <1>4, <1>12
     DEF ReadMessage, ReadError, CloseSend, CloseSocket, ClientChanges, Time, vars
<1> QED
  BY <1>5, <1>6, <1>7, <1>8, <1>9, <1>10, <1>11, <1>12
     DEF Next, WriterStep, ReaderStep, ClientStep

\* What a connection sends arrives in order and at most once, with any of it
\* lost: conn.go implements LossyChannel.
THEOREM ImplementsLossyChannel == Spec => LosesOnly
<1>1. Init => TInv /\ OrderOK
  BY InitTInv, InitOrder
<1>2. TInv /\ OrderOK /\ [Next]_vars => (TInv /\ OrderOK)' /\ [Channel!Next]_<<sent, got>>
  <2> SUFFICES ASSUME TInv, OrderOK, [Next]_vars
               PROVE  TInv' /\ OrderOK' /\ [Channel!Next]_<<sent, got>>
    OBVIOUS
  <2>1. TInv'
    BY StepTInv
  <2> QED
    BY <2>1, StepOrder
<1>3. Init => Channel!Init
  BY DEF Init, Channel!Init
<1> QED
  BY <1>1, <1>2, <1>3, PTL DEF Spec, LosesOnly, Channel!Spec

=============================================================================
