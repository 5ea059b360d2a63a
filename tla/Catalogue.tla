------------------------------ MODULE Catalogue ------------------------------
(***************************************************************************)
(* What the continuous asset creation promises Eliona and its users: an asset *)
(* enters the app's table only after a pass has created it in Eliona, it never *)
(* leaves the table, and users are told of it once at most and only when the    *)
(* table has it. Users may delete it in Eliona at any time.                   *)
(***************************************************************************)
EXTENDS Naturals

CONSTANTS
  Assets,   \* all assets
  Counted   \* those users are told of

VARIABLES
  inEliona,  \* the assets that exist in Eliona
  pending,   \* those a pass has created there and not recorded yet
  known,     \* those in the app's table
  told       \* how often users were told of each

catalogue == <<inEliona, pending, known, told>>

Init ==
  /\ inEliona = {} /\ pending = {} /\ known = {}
  /\ told = [a \in Assets |-> 0]

Create(a) ==
  /\ inEliona' = inEliona \union {a}
  /\ pending' = pending \union {a}
  /\ UNCHANGED <<known, told>>

\* Another pass may have the same asset pending.
Record(a) ==
  /\ a \in pending
  /\ known' = known \union {a}
  /\ pending' \in {pending, pending \ {a}}
  /\ UNCHANGED <<inEliona, told>>

\* A pass is cut short.
Forget(a) ==
  /\ pending' = pending \ {a}
  /\ UNCHANGED <<inEliona, known, told>>

Tell(new) ==
  /\ new \subseteq known \intersect Counted
  /\ \A a \in new : told[a] = 0
  /\ told' = [a \in Assets |-> told[a] + (IF a \in new THEN 1 ELSE 0)]
  /\ UNCHANGED <<inEliona, pending, known>>

Delete(a) ==
  /\ inEliona' = inEliona \ {a}
  /\ UNCHANGED <<pending, known, told>>

Next ==
  \/ \E a \in Assets : Create(a) \/ Record(a) \/ Forget(a) \/ Delete(a)
  \/ \E new \in SUBSET Assets : Tell(new)

Spec == Init /\ [][Next]_catalogue
=============================================================================
