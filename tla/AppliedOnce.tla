---------------------------- MODULE AppliedOnce ----------------------------
(***************************************************************************)
(* What the AI pipeline promises about a ticket event: at most one result   *)
(* is ever applied to it, it is the result for good, and the audit trail    *)
(* tells of it exactly once.  How often the work is queued, retried or      *)
(* computed is left to the implementation.                                  *)
(***************************************************************************)
EXTENDS Naturals

CONSTANT Events

VARIABLES result,     \* what was applied to an event, or "none"
          told        \* how many audit rows tell of it

appliedVars == <<result, told>>

AppliedInit ==
  /\ result = [e \in Events |-> "none"]
  /\ told = [e \in Events |-> 0]

Apply(e, r) ==
  /\ result[e] = "none"
  /\ result' = [result EXCEPT ![e] = r]
  /\ told' = [told EXCEPT ![e] = 1]

AppliedNext == \E e \in Events, r \in {"succeeded", "failed"} : Apply(e, r)

AppliedSpec == AppliedInit /\ [][AppliedNext]_appliedVars
=============================================================================
