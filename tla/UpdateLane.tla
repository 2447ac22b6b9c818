----------------------------- MODULE UpdateLane -----------------------------
(***************************************************************************)
(* What a product connection promises to the callers of its control lane:  *)
(* updates are handed over whole, in the order they were sent, none twice, *)
(* and once an end has closed it neither sends nor is handed anything.     *)
(***************************************************************************)
EXTENDS Naturals, Sequences

VARIABLES sent, delivered, sending, receiving

vars == <<sent, delivered, sending, receiving>>

Init ==
  /\ sent = <<>> /\ delivered = <<>>
  /\ sending = TRUE /\ receiving = TRUE

\* Updates of one kind count up from one, so the receiver can tell a gap.
Follows(update) ==
  update.generation # 0 =>
    /\ \A i \in 1..Len(sent) :
         sent[i].what # update.what => sent[i].generation = 0
    /\ update.generation =
         1 + Len(SelectSeq(sent, LAMBDA u : u.what = update.what))

Send ==
  /\ sending
  /\ Len(sent') = Len(sent) + 1
  /\ SubSeq(sent', 1, Len(sent)) = sent
  /\ Follows(sent'[Len(sent')])
  /\ UNCHANGED <<delivered, sending, receiving>>

Deliver ==
  /\ receiving
  /\ Len(delivered) < Len(sent)
  /\ delivered' = Append(delivered, sent[Len(delivered) + 1])
  /\ UNCHANGED <<sent, sending, receiving>>

Close ==
  /\ sending' => sending
  /\ receiving' => receiving
  /\ UNCHANGED <<sent, delivered>>

Next == Send \/ Deliver \/ Close

Spec == Init /\ [][Next]_vars

=============================================================================
