---------------------------- MODULE OneShotWrites ----------------------------
(***************************************************************************)
(* What confirmed writes promise: a write happens only for an approval     *)
(* that is on record, exactly as approved, and at most once per approval.  *)
(***************************************************************************)
EXTENDS Naturals, Sequences

CONSTANT Approvals   \* what can be approved: records with a token

VARIABLES
  approved,    \* the approvals given so far
  performed    \* the approvals acted on, in order

vars == <<approved, performed>>

Init == approved = {} /\ performed = <<>>

\* Approvals are given, never withdrawn.
Approve ==
  /\ approved \subseteq approved'
  /\ approved' \subseteq Approvals
  /\ UNCHANGED performed

\* An approval is spent by the first write it authorizes.
Perform(a) ==
  /\ \A i \in 1..Len(performed) : performed[i].token # a.token
  /\ performed' = Append(performed, a)
  /\ UNCHANGED approved

Next == Approve \/ \E a \in approved : Perform(a)

Spec == Init /\ [][Next]_vars
=============================================================================
