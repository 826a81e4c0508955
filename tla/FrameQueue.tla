----------------------------- MODULE FrameQueue -----------------------------
(***************************************************************************)
(* What one direction of a connection promises to the session protocol:    *)
(* a queue of frames that may come to an end at any time, and then loses   *)
(* what is in it, but never reorders, repeats, merges or splits frames.    *)
(***************************************************************************)
EXTENDS Integers, Sequences

CONSTANT Sizes

VARIABLES sent, received, ended

queueVars == <<sent, received, ended>>

Init == sent = <<>> /\ received = <<>> /\ ended = FALSE

Send(f) ==
  /\ sent' = Append(sent, f)
  /\ UNCHANGED <<received, ended>>

Receive ==
  /\ ~ended /\ Len(received) < Len(sent)
  /\ received' = Append(received, sent[Len(received) + 1])
  /\ UNCHANGED <<sent, ended>>

End ==
  /\ ended' = TRUE
  /\ UNCHANGED <<sent, received>>

Next == (\E f \in Sizes : Send(f)) \/ Receive \/ End

Spec == Init /\ [][Next]_queueVars
=============================================================================
