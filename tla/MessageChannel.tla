--------------------------- MODULE MessageChannel ---------------------------
(***************************************************************************)
(* What a connection promises in one direction: the receiver gets the      *)
(* sender's messages whole, in order, none twice, none made up.            *)
(***************************************************************************)
EXTENDS Naturals, Sequences

VARIABLES sent, delivered

(* The sender adds one message, whichever, after those it sent before. *)
Send ==
  /\ Len(sent') = Len(sent) + 1
  /\ SubSeq(sent', 1, Len(sent)) = sent
  /\ UNCHANGED delivered

Deliver ==
  /\ Len(delivered) < Len(sent)
  /\ delivered' = Append(delivered, sent[Len(delivered) + 1])
  /\ UNCHANGED sent

Init == sent = <<>> /\ delivered = <<>>
Next == Send \/ Deliver
Spec == Init /\ [][Next]_<<sent, delivered>>
=============================================================================
