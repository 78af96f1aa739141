------------------------------ MODULE MCWorkflow ------------------------------
(* Small instances of Workflow for TLC: two steps, the second after the first. *)
EXTENDS Workflow

CONSTANTS build, check

BuildThenCheck == [s \in {build, check} |-> IF s = check THEN {build} ELSE {}]

InMain == {"create", "resume", "restart", "create_started", "point", "docker", "reobserve",
           "interrupted", "dispatch", "create_box", "step_started", "start", "wait",
           "remove", "result", "close", "unlink"}
Anywhere == InMain \cup {"error", "failed", "stale", "cancelled", "cancel"}
=============================================================================
