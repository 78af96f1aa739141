-------------------------- MODULE MCRecoveryDecision --------------------------
(***************************************************************************)
(* The classifier over every consistent observation, and over the          *)
(* observation that follows when the host carries out a planned stop.      *)
(***************************************************************************)
EXTENDS RecoveryDecision

VARIABLES
  seen,      \* the observation that is classified
  planned    \* its decision

classified == <<seen, planned>>

Undecided == [disposition |-> "none"]

\* Every consistent observation.  The order of the three effects is of no
\* consequence until the run is otherwise clear, so the effects vary only
\* for an idle runtime under a matching approval.
ObservationInit ==
  /\ \E o \in [request : {"reconcile", "cancel"}, approval : ApprovalStatuses,
               lease : LeaseStatuses, ownership : Ownerships,
               process : RuntimeStates, container : RuntimeStates,
               phase : Phases, idempotent : BOOLEAN] :
       \E a, d, r \in EffectStates :
         LET full == [request |-> o.request, approval |-> o.approval,
                      lease |-> o.lease, ownership |-> o.ownership,
                      process |-> o.process, container |-> o.container,
                      phase |-> o.phase, idempotent |-> o.idempotent,
                      artifact |-> a, database |-> d, receipt |-> r]
         IN  /\ o.lease # "expired" \/ o.approval # "MATCH" => a = "absent" /\ d = a /\ r = a
             /\ Consistent(full)
             /\ seen = full
  /\ planned = Undecided

Classify ==
  /\ planned = Undecided
  /\ planned' = DecideRecovery(seen)
  /\ UNCHANGED seen

(* The host has stopped and removed the runtime and observes again.        *)
ObserveAgain ==
  /\ planned # Undecided
  /\ planned.disposition = "stop_then_reconcile"
  /\ seen' = [seen EXCEPT !.process = "absent", !.container = "absent"]
  /\ planned' = DecideRecovery(seen')

ClassifierNext == Classify \/ ObserveAgain

ClassifierSpec == ObservationInit /\ [][ClassifierNext]_classified

Decided == planned # Undecided

-----------------------------------------------------------------------------
(* Properties. *)

\* One stop is enough: after it, the second classification settles the run.
OneStopSettles ==
  [][Decided /\ seen' # seen => planned'.disposition # "stop_then_reconcile"]_classified

-----------------------------------------------------------------------------
(* The contract's own order of precedence, from its ten numbered rules      *)
(* (docs/interruption-recovery-contract.md, "Deterministic decisions").     *)

Applies(o) == <<
  o.lease # "expired",
  RuntimeOf(o) # {"absent"} /\ o.ownership # "exact",
  o.approval # "MATCH",
  o.request = "cancel",
  "exited_nonzero" \in RuntimeOf(o),
  Active(o),
  Unclear(o) \/ "unknown" \in EffectsOf(o),
  "conflicting" \in EffectsOf(o),
  Undispatched(o) /\ Nothing(o) /\ o.idempotent,
  Committed(o) >>

\* What the rule says that is the first to apply; without any, the effects are
\* ambiguous or in conflict.
ClauseOutcome(o, n) ==
  CASE n \in {1, 2, 7} -> {"defer"}
    [] n = 3 -> IF o.approval # "MISMATCH" THEN {"defer"}
                ELSE IF Active(o) THEN {"stop_then_reconcile"} ELSE {"stale"}
    [] n = 4 -> IF Active(o) THEN {"stop_then_reconcile"}
                ELSE IF Unclear(o) THEN {"defer"} ELSE {"cancel"}
    [] n \in {5, 8} -> {"fail"}
    [] n = 6 -> {"stop_then_reconcile"}
    [] n = 9 -> {"resume"}
    [] n = 10 -> {"continue"}

ContractOutcome(o) ==
  LET holds == {n \in 1..10 : Applies(o)[n]}
  IN  IF holds = {} THEN {"defer", "fail"}
      ELSE ClauseOutcome(o, CHOOSE n \in holds : \A m \in holds : n <= m)

\* The contract defers for unknown effects before it fails for conflicting ones
\* (its rules 7 and 8); the code asks for the conflict first.  Where both hold,
\* and nothing before them does, the code overrules the contract.
Overruled(o) ==
  /\ {"conflicting", "unknown"} \subseteq EffectsOf(o)
  /\ ~Unclear(o)
  /\ \A n \in 1..6 : ~Applies(o)[n]

\* Every observation gets what the first rule of the contract that applies says,
\* and the one place where the code overrules the contract fails the run.
FollowsContract ==
  Decided =>
    planned.disposition \in IF Overruled(seen) THEN {"fail"} ELSE ContractOutcome(seen)
=============================================================================
