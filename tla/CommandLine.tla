------------------------------ MODULE CommandLine ------------------------------
(***************************************************************************)
(* The agent's command line (cli.py): a request is parsed, one component   *)
(* is called, and its answer or its exception becomes an envelope and the  *)
(* exit status.  The policy commands read the manifest and then the        *)
(* approval file, while operators approve; validation and probes read the  *)
(* platform's files.                                                       *)
(***************************************************************************)
EXTENDS ApprovalStore, ManifestRules, TopologyValidation

VARIABLES
  cmd,     \* the command that runs, or "none"
  loaded,  \* the digest of the manifest as a policy command loaded it
  told     \* the envelope, once it is printed

command == <<cmd, loaded, told>>
cliVars == <<vars, topology, linting, command>>

Probes   == {"runtime", "database", "python", "node", "reliability", "journal",
             "recovery", "backup"}

Envelope(status, verdict, exit) == [status |-> status, verdict |-> verdict, exit |-> exit]
Silent   == Envelope("none", "null", 0)
Done     == told.status # "none"

Succeeded == Envelope("succeeded", "null", 0)
Verdict(v) ==
  Envelope("succeeded", v,
    CASE v = "PASS" -> 0 [] v = "FAIL" -> 10 [] v = "INCONCLUSIVE" -> 11 [] v = "INVALID" -> 12)
Rejected == Envelope("rejected", "INVALID", 12)
ReadError == Envelope("errored", "null", 74)
Usage    == Envelope("errored", "null", 64)
Forbidden == Envelope("rejected", "INVALID", 77)
Internal == Envelope("errored", "null", 70)

\* An exception of the workflow brings its own exit, verdict and lifecycle;
\* one of the others says only whether it is an error of the host.
Raised(exit, verdict) ==
  Envelope(IF exit \in {21, 70, 74} THEN "errored" ELSE "rejected", verdict, exit)

\* The answers of the components that are modelled elsewhere.
WorkflowAnswers ==
  {Verdict(v) : v \in {"PASS", "FAIL", "INCONCLUSIVE", "INVALID"}}
    \cup {Envelope("succeeded", "null", x) : x \in {20, 22}}
    \cup {Raised(12, "INVALID"), Raised(11, "INCONCLUSIVE"), Raised(21, "null"), Raised(74, "null")}
ReceiptAnswers == {Verdict(v) : v \in {"PASS", "FAIL", "INCONCLUSIVE", "INVALID"}}
ProbeAnswers(j) == {Verdict("PASS")} \cup (IF j = "runtime" THEN {} ELSE {Verdict("FAIL")})
HostFailures == {Rejected, ReadError, Internal}

\* run events, in the terms of an envelope: the last event decides, or the
\* failure of the archive or of the journal does.
EventAnswers ==
  WorkflowAnswers \cup {Rejected, ReadError, Usage, Envelope("succeeded", "INCONCLUSIVE", 11),
                        Envelope("succeeded", "null", 21), Envelope("succeeded", "null", 23)}

CommandInit ==
  Init /\ TopologyInit /\ LintInit /\ cmd = "none" /\ loaded = None /\ told = Silent

\* Commands that have nothing to do with the approval file run alone, and while
\* there is none.
Quiet == made = 0 /\ now = 0 /\ active = None /\ \A o \in Operators : At(o, "idle")
Untouched == UNCHANGED <<vars, topology, linting>>

-----------------------------------------------------------------------------
\* What is no command, and the write that only the operator's program may do.
Refuse ==
  /\ cmd = "none" /\ Quiet
  /\ cmd' \in {"usage", "operator"}
  /\ told' = IF cmd' = "usage" THEN Usage ELSE Forbidden
  /\ UNCHANGED loaded /\ Untouched

\* policy lint and digest: the document is read, or not; its steps are visited;
\* the answer is printed.
LintDocument ==
  /\ cmd = "none" /\ Quiet
  /\ cmd' = "lint"
  /\ \/ ReadDocument /\ UNCHANGED told
     \/ told' \in {ReadError, Rejected} /\ UNCHANGED linting
  /\ UNCHANGED <<vars, topology, loaded>>

VisitDocument == Visiting /\ UNCHANGED <<vars, topology, command>>

AnswerLint ==
  /\ lint \in {"accepted", "refused"} /\ ~Done
  /\ told' = IF lint = "accepted" THEN Succeeded ELSE Rejected
  /\ UNCHANGED <<cmd, loaded>> /\ Untouched

Delegate ==
  /\ cmd = "none" /\ Quiet
  /\ \/ cmd' = "verify"  /\ told' \in WorkflowAnswers \cup HostFailures
     \/ cmd' = "receipt" /\ told' \in ReceiptAnswers \cup HostFailures
     \/ cmd' = "events"  /\ told' \in EventAnswers
  /\ UNCHANGED loaded /\ Untouched

\* policy status and diff: the manifest is loaded, then the approval file is
\* read; both may be edited in between.
LoadManifest ==
  /\ cmd = "none"
  /\ cmd' = "policy"
  /\ \/ loaded' = manifest /\ UNCHANGED told
     \/ MayFail /\ UNCHANGED loaded /\ told' \in {ReadError, Rejected}
  /\ Untouched

InspectApproval ==
  /\ cmd = "policy" /\ ~Done
  /\ \/ told' = IF Status(loaded, now) = "MATCH" THEN Succeeded ELSE Rejected
     \/ MayFail /\ told' = Rejected
  /\ UNCHANGED <<cmd, loaded>> /\ Untouched

CallTopology ==
  /\ cmd = "none" /\ Quiet
  /\ cmd' \in {"topology.validate", "probe"}
  /\ Validate /\ UNCHANGED <<vars, linting, loaded, told>>

\* A validation ends with the render, a probe only with its images.
Validating == cmd = "topology.validate" => topo # "valid"
ReadTopology ==
  /\ ~Done /\ Validating /\ (ReadNext \/ BindUnlocked \/ Switch)
  /\ UNCHANGED <<vars, linting, command>>

AnswerTopology ==
  /\ ~Done
  /\ \/ topo = "rejected" /\ told' = Rejected
     \/ topo = "valid" /\ cmd = "topology.validate" /\ told' = Verdict("PASS")
     \/ topo \in {"reading", "valid"} /\ told' \in HostFailures
     \/ topo \in {"bound", "unlocked"} /\ \E j \in Probes : told' \in ProbeAnswers(j) \cup HostFailures
  /\ Forget /\ UNCHANGED <<vars, linting, cmd, loaded>>

Operating ==
  cmd \in {"none", "policy"} /\ ~Done /\ Next /\ UNCHANGED <<topology, linting, command>>

CommandNext ==
  \/ Refuse \/ LintDocument \/ VisitDocument \/ AnswerLint
  \/ Delegate \/ LoadManifest \/ InspectApproval
  \/ CallTopology \/ ReadTopology \/ AnswerTopology
  \/ Operating

CommandSpec == CommandInit /\ [][CommandNext]_cliVars

-----------------------------------------------------------------------------
\* Exit status zero is earned: a manifest that is said to be approved is one
\* whose digest a human typed, however operators and editors interleave with
\* the command, one that passes the lint can be run in some order, and no
\* failure of any component is reported with it; nor does the lint refuse a
\* document that could be run (docs/cli-contract.md:98).
ZeroIsEarned ==
  Done =>
    /\ told.exit = 0 =>
         /\ told.status = "succeeded" /\ told.verdict \in {"PASS", "null"}
         /\ cmd = "policy" => loaded \in confirmed
    /\ cmd = "lint" => (told.exit = 0 <=> Runnable(doc))
=============================================================================
