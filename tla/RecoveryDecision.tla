--------------------------- MODULE RecoveryDecision ---------------------------
(***************************************************************************)
(* The recovery classifier: decide_recovery and the observations that      *)
(* validate_observation lets through (recovery.py).  The classifier is a   *)
(* list of rules; the first one that applies decides.                      *)
(***************************************************************************)
EXTENDS RunEvents, Naturals, Sequences

ApprovalStatuses == {"MATCH", "MISMATCH", "MISSING", "EXPIRED", "INVALID"}
LeaseStatuses == {"active", "expired", "missing", "invalid"}
Ownerships == {"exact", "unowned", "ambiguous"}
RuntimeStates == {"absent", "running", "exited_zero", "exited_nonzero", "unknown"}
Phases == {"before_dispatch", "dispatched", "result_committed", "evidence_committed"}
EffectStates == {"absent", "matching", "conflicting", "unknown"}

\* The two runtime states, and the three effects, of an observation.
RuntimeOf(o) == {o.process, o.container}
EffectsOf(o) == {o.artifact, o.database, o.receipt}

\* The cross-field rules of validate_observation.
Consistent(o) ==
  /\ RuntimeOf(o) = {"absent"} => o.ownership = "exact"
  /\ o.phase = "before_dispatch" => EffectsOf(o) = {"absent"}

Observation ==
  {o \in [request   : {"reconcile", "cancel"},
          approval  : ApprovalStatuses,
          lease     : LeaseStatuses,
          ownership : Ownerships,
          process   : RuntimeStates,
          container : RuntimeStates,
          phase     : Phases,
          idempotent : BOOLEAN,
          artifact  : EffectStates,
          database  : EffectStates,
          receipt   : EffectStates] : Consistent(o)}

-----------------------------------------------------------------------------
(* What a decision plans: which process action, whether the step is         *)
(* replayed, whether evidence is appended, and which terminal lifecycle.    *)

Plan(verdict, disposition, reason) ==
  [verdict |-> verdict, disposition |-> disposition, reason |-> reason,
   stop |-> FALSE, replay |-> FALSE, evidence |-> TRUE, terminal |-> "none",
   next |-> "none"]

\* Mutant of Defer: ambiguity fails the run.
AmbiguityFails(reason) == Plan("FAIL", "fail", reason)

Defer(reason) == Plan("INCONCLUSIVE", "defer", reason)
DeferSilently(reason) == [Defer(reason) EXCEPT !.evidence = FALSE]

\* Mutant of Stop: the run is closed without waiting for its runtime.
CloseAtOnce(reason) ==
  [Plan("PASS", "cancel", reason) EXCEPT !.terminal = "cancelled"]

Stop(reason) ==
  [Plan("PASS", "stop_then_reconcile", reason) EXCEPT !.stop = TRUE, !.next = "reobserve"]
Terminate(verdict, disposition, lifecycle, reason) ==
  [Plan(verdict, disposition, reason) EXCEPT !.terminal = lifecycle]

Resume ==
  [Plan("PASS", "resume", "SAFE_REPLAY") EXCEPT !.replay = TRUE, !.next = "dispatch"]
Continue(o) ==
  [Plan("PASS", "continue", "EFFECTS_COMMITTED") EXCEPT
     !.next = IF o.receipt = "absent" THEN "record_evidence" ELSE "continue_run"]

\* Mutant of Active: whatever has not exited counts as running.
NotExited(o) == RuntimeOf(o) # {"exited_zero"}

Active(o)  == "running" \in RuntimeOf(o)
Unclear(o) == "unknown" \in RuntimeOf(o)

Nothing(o) == EffectsOf(o) = {"absent"}
Undispatched(o) == o.phase \in {"before_dispatch", "dispatched"}
Committed(o) ==
  o.artifact = "matching" /\ o.database = "matching" /\ o.receipt \in {"absent", "matching"}

\* The rules of decide_recovery, in its order.
Rules(o) == <<
  [when |-> o.lease = "active",              plan |-> DeferSilently("ACTIVE_OWNER")],
  [when |-> o.lease \in {"missing", "invalid"},
                                             plan |-> DeferSilently("LEASE_UNAVAILABLE")],
  [when |-> RuntimeOf(o) # {"absent"} /\ o.ownership # "exact",
                                             plan |-> DeferSilently("UNOWNED_RUNTIME")],
  [when |-> o.approval = "MISMATCH" /\ Active(o), plan |-> Stop("AUTHORITY_STALE")],
  [when |-> o.approval = "MISMATCH",
              plan |-> Terminate("PASS", "stale", "stale", "AUTHORITY_STALE")],
  [when |-> o.approval # "MATCH",            plan |-> DeferSilently("AUTHORITY_UNAVAILABLE")],
  [when |-> o.request = "cancel" /\ Active(o),  plan |-> Stop("CANCEL_PENDING")],
  [when |-> o.request = "cancel" /\ Unclear(o), plan |-> Defer("RUNTIME_AMBIGUOUS")],
  [when |-> o.request = "cancel",
              plan |-> Terminate("PASS", "cancel", "cancelled", "CANCEL_CONFIRMED")],
  [when |-> "exited_nonzero" \in RuntimeOf(o),
              plan |-> Terminate("PASS", "fail", "failed", "PROCESS_FAILED")],
  [when |-> Active(o),                       plan |-> Stop("ORPHAN_RUNNING")],
  [when |-> Unclear(o),                      plan |-> Defer("RUNTIME_AMBIGUOUS")],
  [when |-> "conflicting" \in EffectsOf(o),
              plan |-> Terminate("FAIL", "fail", "failed", "EFFECTS_CONFLICT")],
  [when |-> "unknown" \in EffectsOf(o),      plan |-> Defer("EFFECTS_AMBIGUOUS")],
  [when |-> Undispatched(o) /\ Nothing(o) /\ o.idempotent,  plan |-> Resume],
  [when |-> Undispatched(o) /\ Nothing(o),   plan |-> Defer("REPLAY_UNSAFE")],
  [when |-> Committed(o),                    plan |-> Continue(o)],
  [when |-> TRUE,
              plan |-> Terminate("FAIL", "fail", "failed", "EFFECTS_CONFLICT")] >>

DecideRecovery(o) ==
  LET rules == Rules(o)
      first == CHOOSE n \in DOMAIN rules :
                 rules[n].when /\ \A m \in 1..(n - 1) : ~rules[m].when
  IN  rules[first].plan

\* The executor takes the fence only for a decision that changes something.
NeedsFence(d) == d.stop \/ d.replay \/ d.evidence \/ d.terminal # "none"
=============================================================================
