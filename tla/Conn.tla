-------------------------------- MODULE Conn --------------------------------
(***************************************************************************)
(* One connection of backend/internal/wsconn/conn.go: its send buffer, the   *)
(* goroutine of writeLoop, the goroutine of readLoop (which runs the        *)
(* handlers and, when a read fails, onClose), the ping ticker and the two   *)
(* deadlines of the socket.  The network and the client are modelled as far *)
(* as the server can see them: a bounded number of bytes is in flight, a    *)
(* client that is there reads and answers a ping within Delay, one that has *)
(* fallen silent neither reads nor sends, and may come back.                *)
(*                                                                         *)
(* Time is discrete.  It does not pass while a goroutine of the server can  *)
(* go on, nor beyond a deadline that has not been acted on.                 *)
(*                                                                         *)
(* Abstracted: what the messages say.  Messages are numbered as they are    *)
(* sent; 0 is a server.ping, which is written without passing the buffer.   *)
(* Those who send stop before onClose is through (Lobby, RecipientsOpen; for *)
(* the match loop see NoSendOnClosed of MatchRun).                          *)
(***************************************************************************)
EXTENDS Naturals, Sequences

CONSTANTS
    Buffer,         \* capacity of c.send (64 in the code)
    PingInterval,   \* 10 s
    PongWait,       \* 15 s
    WriteWait,      \* 10 s
    Delay,          \* how long a client takes to answer a ping
    Flight,         \* how many messages the network holds before a write blocks
    MaxSent         \* how many messages are sent (bound)

ASSUME ConnAssumption ==
    /\ Buffer \in Nat \ {0}
    /\ PingInterval \in Nat \ {0} /\ PongWait \in Nat /\ WriteWait \in Nat \ {0}
    /\ Delay \in Nat
    /\ PingInterval + Delay < PongWait
    /\ Flight \in Nat \ {0}
    /\ MaxSent \in Nat

Ping == 0

VARIABLES
    send,       \* c.send: the numbers of the messages in it
    closed,     \* close(c.send) has been called
    wsOpen,     \* c.ws has not been closed by the server
    writer,     \* writeLoop: "waiting", "writing" or "done"
    message,    \* what it is writing
    reader,     \* readLoop: "reading", "handling", "replying", "onClose", "closing", "done"
    net,        \* written and not yet read by the client
    client,     \* "there", "silent" or "gone" (its end is closed)
    owes,       \* a ping the client has read and not answered
    tick,       \* a tick of the ping ticker nobody has taken
    sinceTick, sinceRead, sinceWrite, sinceOwed,    \* clocks
    sent,       \* number of the latest message
    got,        \* the messages the client has read, in that order
    steady      \* history: the client has been there all the time

buffers == <<send, closed, net, sent, got>>
loops == <<writer, message, reader>>
peer == <<client, owes, steady>>
clocks == <<tick, sinceTick, sinceRead, sinceWrite, sinceOwed>>
vars == <<buffers, wsOpen, loops, peer, clocks>>

Init ==
    /\ send = <<>> /\ net = <<>> /\ closed = FALSE /\ wsOpen = TRUE
    /\ writer = "waiting" /\ message = Ping /\ reader = "reading"
    /\ client = "there" /\ owes = FALSE /\ steady = TRUE
    /\ tick = FALSE
    /\ sinceTick = 0 /\ sinceRead = 0 /\ sinceWrite = 0 /\ sinceOwed = 0
    /\ sent = 0 /\ got = <<>>

-----------------------------------------------------------------------------
(* sendBytes *)

\* The bound; a reply that is due has its number.
MoreToSend == IF reader = "replying" THEN sent + 1 < MaxSent ELSE sent < MaxSent

HasRoomAtCapacity == Len(send) <= Buffer

HasRoom == Len(send) < Buffer

BlockWhenFull == HasRoom /\ send' = Append(send, sent + 1)

\* A message finds room in the buffer, or is dropped: the sender never waits.
Enqueue ==
    IF HasRoom THEN send' = Append(send, sent + 1) ELSE UNCHANGED send

\* A broadcast of the lobby or of a match.
SendBytes ==
    /\ ~closed
    /\ MoreToSend
    /\ Enqueue
    /\ sent' = sent + 1
    /\ UNCHANGED <<closed, net, got, wsOpen, loops, peer, clocks>>

-----------------------------------------------------------------------------
(* writeLoop *)

LeftThere == send

Taken == Tail(send)

\* A channel that is closed is still emptied first.
TakeMessage ==
    /\ writer = "waiting"
    /\ send # <<>>
    /\ writer' = "writing" /\ message' = Head(send)
    /\ send' = Taken
    /\ sinceWrite' = 0
    /\ UNCHANGED <<closed, net, sent, got, wsOpen, reader, peer,
                   tick, sinceTick, sinceRead, sinceOwed>>

TakeTick ==
    /\ writer = "waiting"
    /\ tick
    /\ tick' = FALSE
    /\ writer' = "writing" /\ message' = Ping
    /\ sinceWrite' = 0
    /\ UNCHANGED <<buffers, wsOpen, reader, peer, sinceTick, sinceRead, sinceOwed>>

Write ==
    /\ writer = "writing"
    /\ wsOpen
    /\ Len(net) < Flight
    /\ net' = Append(net, message)
    /\ writer' = "waiting"
    /\ UNCHANGED <<send, closed, sent, got, wsOpen, message, reader, peer, clocks>>

\* The deadline of the write, or a socket that is closed at either end: the
\* deferred ws.Close makes readLoop fail too.
WriteError ==
    /\ writer = "writing"
    /\ ~wsOpen \/ client = "gone" \/ sinceWrite >= WriteWait
    /\ writer' = "done" /\ wsOpen' = FALSE
    /\ UNCHANGED <<buffers, message, reader, peer, clocks>>

\* c.send is closed and empty; the close frame may or may not be written.
SendClosed ==
    /\ writer = "waiting"
    /\ closed /\ send = <<>>
    /\ writer' = "done" /\ wsOpen' = FALSE
    /\ UNCHANGED <<buffers, message, reader, peer, clocks>>

-----------------------------------------------------------------------------
(* readLoop *)

DeadlineKept == sinceRead

\* SetReadDeadline, after each message.
DeadlineMoved == 0

\* A message of the client: the answer to a ping or anything else, which the
\* handler may answer.
ReadMessage ==
    /\ reader = "reading"
    /\ wsOpen
    /\ client = "there"
    /\ reader' \in {"handling"} \cup IF MoreToSend THEN {"replying"} ELSE {}
    /\ owes' = FALSE
    /\ sinceRead' = DeadlineMoved
    /\ UNCHANGED <<buffers, wsOpen, writer, message, client, steady,
                   tick, sinceTick, sinceWrite, sinceOwed>>

Handled ==
    /\ \/ reader = "handling" /\ UNCHANGED <<send, sent>>
       \/ reader = "replying" /\ Enqueue /\ sent' = sent + 1
    /\ reader' = "reading"
    /\ UNCHANGED <<closed, net, got, wsOpen, writer, message, peer, clocks>>

ReadError ==
    /\ reader = "reading"
    /\ ~wsOpen \/ client = "gone" \/ sinceRead >= PongWait
    /\ reader' = "onClose"
    /\ UNCHANGED <<buffers, wsOpen, writer, message, peer, clocks>>

\* onClose is through: nobody sends on the connection any more.
CloseSend ==
    /\ reader = "onClose"
    /\ reader' = "closing" /\ closed' = TRUE
    /\ UNCHANGED <<send, net, sent, got, wsOpen, writer, message, peer, clocks>>

CloseSocket ==
    /\ reader = "closing"
    /\ reader' = "done" /\ wsOpen' = FALSE
    /\ UNCHANGED <<buffers, writer, message, peer, clocks>>

-----------------------------------------------------------------------------
(* The client, the network and the time *)

ClientReads ==
    /\ client = "there"
    /\ net # <<>>
    /\ net' = Tail(net)
    /\ IF Head(net) = Ping
       THEN /\ owes' = TRUE /\ sinceOwed' = IF owes THEN sinceOwed ELSE 0
            /\ UNCHANGED got
       ELSE got' = Append(got, Head(net)) /\ UNCHANGED <<owes, sinceOwed>>
    /\ UNCHANGED <<send, closed, sent, wsOpen, loops, client, steady,
                   tick, sinceTick, sinceRead, sinceWrite>>

ClientChanges ==
    /\ client # "gone"
    /\ client' \in {"there", "silent", "gone"} \ {client}
    /\ steady' = FALSE
    /\ UNCHANGED <<buffers, wsOpen, loops, owes, clocks>>

Running(clock, on) == clock' = IF on THEN clock + 1 ELSE clock

\* Nothing is left that takes no time.
TimeMayPass ==
    /\ \/ reader = "done"
       \/ reader = "reading" /\ wsOpen /\ client # "gone" /\ sinceRead < PongWait
    /\ \/ writer = "done"
       \/ writer = "waiting" /\ send = <<>> /\ ~tick /\ ~closed
       \/ writer = "writing" /\ wsOpen /\ client # "gone" /\ Len(net) = Flight
             /\ sinceWrite < WriteWait
    /\ client = "there" /\ wsOpen => net = <<>> /\ (owes => sinceOwed < Delay)

\* The ticker fires each PingInterval; a tick that was not taken is lost.
Time ==
    /\ TimeMayPass
    /\ reader # "done" \/ writer # "done"
    /\ LET fires == writer # "done" /\ sinceTick + 1 = PingInterval
       IN  /\ tick' = (tick \/ fires)
           /\ sinceTick' = IF fires THEN 0
                           ELSE IF writer = "done" THEN sinceTick ELSE sinceTick + 1
    /\ Running(sinceRead, reader = "reading")
    /\ Running(sinceWrite, writer = "writing")
    /\ Running(sinceOwed, client = "there" /\ wsOpen /\ owes)
    /\ UNCHANGED <<buffers, wsOpen, loops, peer>>

-----------------------------------------------------------------------------

WriterStep == TakeMessage \/ TakeTick \/ Write \/ WriteError \/ SendClosed
ReaderStep == Handled \/ ReadError \/ CloseSend \/ CloseSocket
ClientStep == ReadMessage \/ ClientReads \/ ClientChanges

Next == SendBytes \/ WriterStep \/ ReaderStep \/ ClientStep \/ Time

Spec == Init /\ [][Next]_vars

\* The goroutines of the server run, and time passes.
Fairness ==
    /\ WF_vars(WriterStep) /\ WF_vars(ReaderStep) /\ WF_vars(Time)

FairSpec == Spec /\ Fairness

-----------------------------------------------------------------------------
(* Properties *)

Messages == Ping .. MaxSent

TypeOK ==
    /\ send \in Seq(Messages) /\ Len(send) <= Buffer
    /\ net \in Seq(Messages) /\ Len(net) <= Flight
    /\ closed \in BOOLEAN /\ wsOpen \in BOOLEAN
    /\ writer \in {"waiting", "writing", "done"} /\ message \in Messages
    /\ reader \in {"reading", "handling", "replying", "onClose", "closing", "done"}
    /\ client \in {"there", "silent", "gone"} /\ owes \in BOOLEAN /\ steady \in BOOLEAN
    /\ tick \in BOOLEAN
    /\ sinceTick \in 0 .. PingInterval /\ sinceRead \in 0 .. PongWait
    /\ sinceWrite \in 0 .. WriteWait /\ sinceOwed \in 0 .. Delay
    /\ sent \in 0 .. MaxSent /\ got \in Seq(Messages)

\* The connection is a lossy channel: nothing reaches the client twice or out
\* of order, across a full buffer, blocked writes and the closing.
Channel == INSTANCE LossyChannel
LosesOnly == Channel!Spec

\* A client that reads, and answers each ping within Delay, is never cut off:
\* neither deadline ever passes for it.
AnsweringKept == steady => wsOpen /\ reader \in {"reading", "handling", "replying"}

\* A client that stays silent or goes is noticed, and both goroutines of the
\* connection end, the one after the other, so that its onClose runs.
GoroutinesEnd ==
    /\ <>[](client # "there") => <>(reader = "done")
    /\ reader = "done" ~> writer = "done"
    /\ writer = "done" ~> reader = "done"

=============================================================================
