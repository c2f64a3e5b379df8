------------------------------ MODULE InputQueue ------------------------------
(***************************************************************************)
(* The paddle inputs of one match: HandleInput of backend/internal/matchmgr *)
(* runs in the goroutine of each player's connection and puts them on the   *)
(* match's InputCh; the match loop drains the channel at the start of a     *)
(* tick and applies them with SetPlayerTarget of backend/internal/match.    *)
(*                                                                         *)
(* The two players share one bounded channel.  A send to it never blocks:   *)
(* when it is full the handler takes one input off it and tries again, in   *)
(* three separate channel operations.  HandleInput takes the run's mutex to *)
(* find the slot, before the first of them; the loop holds it while it      *)
(* drains.                                                                  *)
(*                                                                         *)
(* Abstracted: the target, which goes with the sequence number.  A client   *)
(* numbers its inputs 1, 2, ...; it may send a number again.                *)
(***************************************************************************)
EXTENDS Naturals, Sequences

Slots == {0, 1}
Other(s) == 1 - s

CONSTANTS
    Cap,        \* capacity of InputCh (64 in the code)
    MaxSeq      \* the highest sequence number (bound)

ASSUME InputAssumption == Cap \in Nat \ {0} /\ MaxSeq \in Nat

VARIABLES
    InputCh,        \* a sequence of [slot, seq]
    LastInputSeq,   \* PlayerState.LastInputSeq of each slot
    sent,           \* the number of the client's latest input, 0 before the first
    at,             \* where the handler of each slot is
    loop,           \* "waiting" for a tick, "draining" or "ended"
    paused,         \* the loop's flag; also set during the countdown
    crossed         \* history: since the latest input of a slot, the handler of
                    \* the other has taken an input of the slot off the channel,
                    \* or has filled the place the slot's handler had made

handlers == <<sent, at>>
vars == <<InputCh, LastInputSeq, handlers, loop, paused, crossed>>

Init ==
    /\ InputCh = <<>>
    /\ LastInputSeq = [s \in Slots |-> 0]
    /\ sent = [s \in Slots |-> 0]
    /\ at = [s \in Slots |-> "idle"]
    /\ loop = "waiting"
    /\ paused = TRUE
    /\ crossed = [s \in Slots |-> FALSE]

FullAbove == Len(InputCh) > Cap

Full == Len(InputCh) >= Cap

Input(s) == [slot |-> s, seq |-> sent[s]]

-----------------------------------------------------------------------------
(* HandleInput *)

NoMutex == TRUE

\* run.mu, which the loop holds while it drains.
MutexFree == loop # "draining"

\* An input arrives and its slot is found.
FindSlot(s) ==
    /\ at[s] = "idle"
    /\ MutexFree
    /\ \E n \in {sent[s], sent[s] + 1} \ {0} :
           n <= MaxSeq /\ sent' = [sent EXCEPT ![s] = n]
    /\ at' = [at EXCEPT ![s] = "sending"]
    /\ crossed' = [crossed EXCEPT ![s] = FALSE]
    /\ UNCHANGED <<InputCh, LastInputSeq, loop, paused>>

AddInFront(s) == InputCh' = <<Input(s)>> \o InputCh

Add(s) == InputCh' = Append(InputCh, Input(s))

\* The other handler, if it has just made a place, may find it taken.
Crosses(s) ==
    crossed' = [crossed EXCEPT ![Other(s)] = @ \/ at[Other(s)] = "retrying"]

\* case run.InputCh <- msg, or default
TrySend(s) ==
    /\ at[s] = "sending"
    /\ \/ ~Full /\ Add(s) /\ Crosses(s) /\ at' = [at EXCEPT ![s] = "idle"]
       \/ Full /\ at' = [at EXCEPT ![s] = "full"] /\ UNCHANGED <<InputCh, crossed>>
    /\ UNCHANGED <<LastInputSeq, sent, loop, paused>>

\* case <-run.InputCh, or default: the channel may be anything but full by now,
\* and the input any player's.
DropOldest(s) ==
    /\ at[s] = "full"
    /\ at' = [at EXCEPT ![s] = "retrying"]
    /\ \/ InputCh = <<>> /\ UNCHANGED <<InputCh, crossed>>
       \/ /\ InputCh # <<>>
          /\ InputCh' = Tail(InputCh)
          /\ crossed' = [crossed EXCEPT ![Other(s)] = @ \/ Head(InputCh).slot # s]
    /\ UNCHANGED <<LastInputSeq, sent, loop, paused>>

WaitsForRoom(s) == FALSE

DiscardAnyway(s) == UNCHANGED <<InputCh, crossed>>

\* default: the place is gone again, and so is the new input.
Discard(s) == Full /\ UNCHANGED <<InputCh, crossed>>

RetrySend(s) ==
    /\ at[s] = "retrying"
    /\ \/ ~Full /\ Add(s) /\ Crosses(s)
       \/ Discard(s)
    /\ at' = [at EXCEPT ![s] = "idle"]
    /\ UNCHANGED <<LastInputSeq, sent, loop, paused>>

-----------------------------------------------------------------------------
(* The match loop *)

TickStarts ==
    /\ loop = "waiting" /\ ~paused
    /\ loop' = "draining"
    /\ UNCHANGED <<InputCh, LastInputSeq, handlers, paused, crossed>>

\* SetPlayerTarget: an input that is not newer changes nothing.
DrainOne ==
    /\ loop = "draining"
    /\ InputCh # <<>>
    /\ InputCh' = Tail(InputCh)
    /\ LET m == Head(InputCh) IN
           LastInputSeq' = [LastInputSeq EXCEPT ![m.slot] = IF m.seq <= @ THEN @ ELSE m.seq]
    /\ UNCHANGED <<handlers, loop, paused, crossed>>

\* The rest of the tick: it may pause the match or end it.
DrainDone ==
    /\ loop = "draining"
    /\ InputCh = <<>>
    /\ \/ loop' = "waiting" /\ paused' \in BOOLEAN
       \/ loop' = "ended" /\ UNCHANGED paused
    /\ UNCHANGED <<InputCh, LastInputSeq, handlers, crossed>>

\* The countdown, a rally reset or a reconnect.
Unpause ==
    /\ paused
    /\ paused' = FALSE
    /\ UNCHANGED <<InputCh, LastInputSeq, handlers, loop, crossed>>

\* The context is cancelled between two ticks.
Cancelled ==
    /\ loop = "waiting"
    /\ loop' = "ended"
    /\ UNCHANGED <<InputCh, LastInputSeq, handlers, paused, crossed>>

-----------------------------------------------------------------------------

Handler(s) == TrySend(s) \/ DropOldest(s) \/ RetrySend(s)

Drain == DrainOne \/ DrainDone

Next ==
    \/ \E s \in Slots : FindSlot(s) \/ Handler(s)
    \/ TickStarts \/ Drain \/ Unpause \/ Cancelled

Spec == Init /\ [][Next]_vars

\* A goroutine that can go on does; nobody has to send or to unpause.
Fairness == WF_vars(Drain) /\ \A s \in Slots : WF_vars(Handler(s))

FairSpec == Spec /\ Fairness

-----------------------------------------------------------------------------
(* Properties *)

Inputs == [slot : Slots, seq : 1 .. MaxSeq]

TypeOK ==
    /\ InputCh \in Seq(Inputs) /\ Len(InputCh) <= Cap
    /\ LastInputSeq \in [Slots -> 0 .. MaxSeq]
    /\ sent \in [Slots -> 0 .. MaxSeq]
    /\ at \in [Slots -> {"idle", "sending", "full", "retrying"}]
    /\ loop \in {"waiting", "draining", "ended"}
    /\ paused \in BOOLEAN
    /\ crossed \in [Slots -> BOOLEAN]

\* A player's inputs reach the simulation in the order he sent them, whatever
\* is dropped: none is behind a newer one of his, or older than his target.
InOrder ==
    \A i \in 1 .. Len(InputCh) :
        /\ InputCh[i].seq >= LastInputSeq[InputCh[i].slot]
        /\ \A j \in 1 .. i : InputCh[j].slot = InputCh[i].slot =>
               InputCh[j].seq <= InputCh[i].seq

\* The newest input of a player is applied or on its way, however many he sends
\* while the loop does not drain, unless the other player's handler came between.
NewestKept ==
    \A s \in Slots : at[s] = "idle" /\ sent[s] > 0 /\ ~crossed[s] =>
        \/ LastInputSeq[s] = sent[s]
        \/ \E i \in 1 .. Len(InputCh) : InputCh[i] = Input(s)

\* A handler returns to its connection's read loop whether or not anyone drains
\* the channel: during a pause, and after the match.
HandlerReturns == \A s \in Slots : at[s] # "idle" ~> at[s] = "idle"

\* However fast the clients send, a tick gets past its inputs: it drains with
\* the lock that a handler needs before it can send.
DrainEnds == loop = "draining" ~> loop # "draining"

=============================================================================
