---------------------------- MODULE LatestResult ----------------------------
(***************************************************************************)
(* What the frame pipeline promises its readers: a mailbox that keeps the  *)
(* newest result ever published.  Results are published in any order, a    *)
(* read returns the newest one, and nothing is ever taken back.            *)
(***************************************************************************)
EXTENDS Integers

CONSTANT Readers

VARIABLES latest, seen

None == -1  \* nothing published yet, nothing read yet

Init ==
  /\ latest = None
  /\ seen = [r \in Readers |-> None]

\* A result that is older than the newest one changes nothing.
Publish ==
  /\ latest' \in Nat
  /\ latest' > latest
  /\ UNCHANGED seen

Read(r) ==
  /\ latest # None
  /\ seen' = [seen EXCEPT ![r] = latest]
  /\ UNCHANGED latest

Next == Publish \/ \E r \in Readers : Read(r)

Spec == Init /\ [][Next]_<<latest, seen>>
=============================================================================
