-------------------------------- MODULE Feed --------------------------------
(***************************************************************************)
(* What a subscription promises: ABB numbers the changes of a datapoint, and *)
(* the value Eliona shows moves only forward along them. A change may be      *)
(* skipped; none is repeated, reordered or invented.                          *)
(***************************************************************************)
EXTENDS Naturals

VARIABLES
  sent,  \* the changes so far
  seen   \* the change whose value Eliona shows

Init == sent = 0 /\ seen = 0

Emit == sent' = sent + 1 /\ UNCHANGED seen

Show == seen' \in (seen + 1)..sent /\ UNCHANGED sent

Next == Emit \/ Show

Spec == Init /\ [][Next]_<<sent, seen>>
=============================================================================
