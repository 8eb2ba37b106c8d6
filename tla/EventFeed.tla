----------------------------- MODULE EventFeed -----------------------------
(***************************************************************************)
(* What a subscription promises its stream (and OpenCode.tla assumes of    *)
(* it): events come whole, once and in the order in which they were sent,  *)
(* until the subscription fails; then nothing comes any more.              *)
(***************************************************************************)
EXTENDS Naturals, Sequences

VARIABLES sent, \* the events sent to the subscription
          got,  \* the events Next has returned
          over  \* Next has returned an error

Init == sent = <<>> /\ got = <<>> /\ over = FALSE

Send == /\ Len(sent') = Len(sent) + 1
        /\ SubSeq(sent', 1, Len(sent)) = sent
        /\ UNCHANGED <<got, over>>

Deliver == /\ ~over
           /\ Len(got) < Len(sent)
           /\ got' = Append(got, sent[Len(got) + 1])
           /\ UNCHANGED <<sent, over>>

Fail == /\ ~over
        /\ over' = TRUE
        /\ UNCHANGED <<sent, got>>

Spec == Init /\ [][Send \/ Deliver \/ Fail]_<<sent, got, over>>
=============================================================================
