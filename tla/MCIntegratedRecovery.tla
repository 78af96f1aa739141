------------------------ MODULE MCIntegratedRecovery ------------------------
(* The composite beside another probe, or two probes on their own, or two   *)
(* one after the other, with one mishap anywhere.                           *)
EXTENDS IntegratedRecovery

MCJobs == [p \in Procs |-> IF p = Child THEN {"runtime", "database", "node"} ELSE {"python", "journal", "backup"}]
=============================================================================
