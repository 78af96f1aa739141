------------------------- MODULE MCRecoveryExecutor -------------------------
(* Small instances of RecoveryExecutor for TLC. *)
EXTENDS RecoveryExecutor, TLC

Effects(a, d, r) == [artifact |-> a, database |-> d, receipt |-> r]

Request(request, approval, phase, e) ==
  [request |-> request, approval |-> approval, phase |-> phase, idempotent |-> TRUE,
   artifact |-> e.artifact, database |-> e.database,
   receipt |-> e.receipt]

\* A step that may be replayed, one whose effects are committed, a cancelled
\* run, and a run whose authority has changed.
ReplayPlan == Request("reconcile", "MATCH", "dispatched", Effects("absent", "absent", "absent"))
CommittedPlan ==
  Request("reconcile", "MATCH", "result_committed", Effects("matching", "matching", "absent"))
CancelPlan == Request("cancel", "MATCH", "dispatched", Effects("absent", "absent", "absent"))
StalePlan == Request("reconcile", "MISMATCH", "dispatched", Effects("absent", "absent", "absent"))
UnavailablePlan ==
  Request("reconcile", "MISSING", "dispatched", Effects("absent", "absent", "absent"))

AllPlans == {ReplayPlan, CommittedPlan, CancelPlan, StalePlan, UnavailablePlan}
ReplayOrCancel == {ReplayPlan, CancelPlan}
CancelOnly == {CancelPlan}

AnyContainer == {"running", "exited_zero", "exited_nonzero", "absent"}

Anywhere ==
  {<<pc, after>> \in
     {"observe", "acquire", "refresh", "save", "replay", "replay_row", "replay_insert", "evidence", "stop", "docker_stop",
      "docker_rm", "terminal", "complete", "archive", "archive_stopped", "unlink",
      "unlink_stopped", "reobserve", "release"}
     \X {"idle", "replay", "evidence", "stop", "terminal", "complete", "archive",
         "archive_stopped"} : TRUE}

\* The terminal record is inserted, its flag is not yet saved.
AfterTerminal == {<<"save", "complete">>}

\* The windows a later call resumes from: before anything is persisted, around
\* the replay and the evidence, after the stop was saved (the later call goes on
\* without observing again), and after the active file is gone.
Recoverable ==
  {<<pc, "idle">> : pc \in {"observe", "acquire", "refresh", "replay", "replay_row",
                            "replay_insert", "evidence", "stop",
                            "docker_stop", "terminal", "archive_stopped", "reobserve",
                            "release"}}
  \cup {<<"save", stage>> : stage \in {"replay", "evidence", "stop", "terminal"}}

AbsentContainer == {"absent"}

Symmetry == Permutations(Recoverers)
=============================================================================
