---------------------------- MODULE LossyChannel ----------------------------
(***************************************************************************)
(* What a connection promises to those who send on it: messages, numbered   *)
(* as they are sent, arrive at the client in that order and at most once;   *)
(* any of them may be lost.                                                 *)
(***************************************************************************)
EXTENDS Naturals, Sequences

VARIABLES
    sent,       \* the number of the latest message sent, 0 before the first
    got         \* the messages received

Init == sent = 0 /\ got = <<>>

Send == sent' = sent + 1 /\ UNCHANGED got

Newest == IF got = <<>> THEN 0 ELSE got[Len(got)]

Receive ==
    /\ \E m \in Newest + 1 .. sent : got' = Append(got, m)
    /\ UNCHANGED sent

Next == Send \/ Receive

Spec == Init /\ [][Next]_<<sent, got>>

=============================================================================
