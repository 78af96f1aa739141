----------------------------- MODULE ApprovalStore -----------------------------
(***************************************************************************)
(* operator approve-manifest: approve_interactive, write_approval          *)
(* (operator.py) and ApprovalStore.inspect (approval.py), for the approval *)
(* file of one workflow.                                                   *)
(*                                                                         *)
(* An operator is shown the manifest and the current approval, types the   *)
(* digest, and the command compares everything again before it retains the *)
(* prior record and replaces it.  The file is read and replaced in         *)
(* separate system calls and nothing is locked, so each is a step here.    *)
(* Meanwhile the manifest may be edited, the process may die, and another  *)
(* operator may approve.                                                   *)
(***************************************************************************)
EXTENDS Naturals

CONSTANTS
  Operators,
  Manifests,   \* canonical digests of the manifest
  MayFail,     \* whether file operations and custody checks may fail
  MaxRecords,  \* bound: records built
  MaxTime,     \* bound: the last second of the clock
  None

ASSUME BoundAssumption == MaxRecords \in Nat /\ MaxTime \in Nat /\ MayFail \in BOOLEAN

VARIABLES
  manifest,    \* what the manifest file holds
  active,      \* the approval file: a record, or None
  superseded,  \* the records under superseded/
  now,         \* the clock, in seconds
  op,          \* op[o]: the state of operator o's command
  made,        \* records built so far
  confirmed,   \* history: digests a human typed in full
  approved     \* history: records for which the command reported success

vars == <<manifest, active, superseded, now, op, made, confirmed, approved>>

Records == [id : Nat, manifest : Manifests, at : Nat]
ASSUME NoneAssumption == None \notin Records

\* The inspection shown to the operator, by status and file.
Idle == [pc |-> "idle", shown |-> None, status |-> "none", seen |-> None,
         existing |-> None, record |-> None]

Init ==
  /\ manifest \in Manifests
  /\ active \in {None} \cup {[id |-> 0, manifest |-> m, at |-> 0] : m \in Manifests}
  /\ superseded = {}
  /\ now = 0
  /\ op = [o \in Operators |-> Idle]
  /\ made = 0
  /\ confirmed = IF active = None THEN {} ELSE {active.manifest}
  /\ approved = IF active = None THEN {} ELSE {active}

At(o, pc) == op[o].pc = pc
Go(o, pc) == op' = [op EXCEPT ![o].pc = pc]
End(o) == op' = [op EXCEPT ![o] = Idle]

\* ApprovalStore.inspect of manifest m at time t; a record from the future is
\* invalid.  No record this command writes expires.
Status(m, t) ==
  IF active = None THEN "MISSING"
  ELSE IF active.at > t THEN "INVALID"
  ELSE IF active.manifest # m THEN "MISMATCH" ELSE "MATCH"

-----------------------------------------------------------------------------
(* approve_interactive. *)

Ask(o) ==
  /\ At(o, "idle")
  /\ Status(manifest, now) \in {"MISSING", "MISMATCH"}
  /\ op' = [op EXCEPT ![o] = [Idle EXCEPT !.pc = "ask", !.shown = manifest,
                                !.status = Status(manifest, now), !.seen = active]]
  /\ UNCHANGED <<manifest, active, superseded, now, made, confirmed, approved>>

\* The human types the full digest that was shown (or the command ends).
Confirm(o) ==
  /\ At(o, "ask")
  /\ Go(o, "recheck")
  /\ confirmed' = confirmed \cup {op[o].shown}
  /\ UNCHANGED <<manifest, active, superseded, now, made, approved>>

\* Mutant of Recheck: the manifest is loaded again but not compared.
RecheckApproval(o) ==
  /\ At(o, "recheck")
  /\ IF Status(manifest, now) = op[o].status /\ active = op[o].seen
     THEN op' = [op EXCEPT ![o].pc = "compare", ![o].shown = manifest]
     ELSE End(o)
  /\ UNCHANGED <<manifest, active, superseded, now, made, confirmed, approved>>

\* Manifest and approval are read again and must be what was shown.
Recheck(o) ==
  /\ At(o, "recheck")
  /\ IF /\ manifest = op[o].shown
        /\ Status(manifest, now) = op[o].status /\ active = op[o].seen
     THEN Go(o, "compare")
     ELSE End(o)
  /\ UNCHANGED <<manifest, active, superseded, now, made, confirmed, approved>>

-----------------------------------------------------------------------------
(* write_approval. *)

\* The file must still be the one reviewed; the record is built and written to
\* a temporary file.
Compare(o) ==
  /\ At(o, "compare")
  /\ made < MaxRecords
  /\ IF active = op[o].seen
     THEN /\ made' = made + 1
          /\ op' = [op EXCEPT ![o].pc = "retain", ![o].existing = active,
               ![o].record = [id |-> made + 1, manifest |-> op[o].shown, at |-> now]]
     ELSE End(o) /\ UNCHANGED made
  /\ UNCHANGED <<manifest, active, superseded, now, confirmed, approved>>

\* Mutant of Retain: the prior record is not kept.
RetainNothing(o) ==
  /\ At(o, "retain")
  /\ Go(o, "replace")
  /\ UNCHANGED <<manifest, active, superseded, now, made, confirmed, approved>>

Retain(o) ==
  /\ At(o, "retain")
  /\ superseded' = superseded \cup ({op[o].existing} \ {None})
  /\ Go(o, "replace")
  /\ UNCHANGED <<manifest, active, now, made, confirmed, approved>>

Replace(o) ==
  /\ At(o, "replace")
  /\ active' = op[o].record
  /\ Go(o, "verify")
  /\ UNCHANGED <<manifest, superseded, now, made, confirmed, approved>>

\* The approval is inspected as of the time of the record.
Verify(o) ==
  /\ At(o, "verify")
  /\ \/ /\ Status(op[o].shown, op[o].record.at) = "MATCH"
        /\ approved' = approved \cup {op[o].record}
        /\ End(o)
     \/ /\ MayFail \/ Status(op[o].shown, op[o].record.at) # "MATCH"
        /\ Go(o, "restore")
        /\ UNCHANGED approved
  /\ UNCHANGED <<manifest, active, superseded, now, made, confirmed>>

\* _restore_after_failed_verification: what was there before, or no file.
Restore(o) ==
  /\ At(o, "restore")
  /\ active' = op[o].existing
  /\ End(o)
  /\ UNCHANGED <<manifest, superseded, now, made, confirmed, approved>>

\* The operator gives up, an operation fails and the command reports it, or the
\* process dies.  Temporary files have names of their own and are never read.
Stop(o) ==
  /\ ~At(o, "idle")
  /\ MayFail \/ At(o, "ask")
  /\ End(o)
  /\ UNCHANGED <<manifest, active, superseded, now, made, confirmed, approved>>

-----------------------------------------------------------------------------
(* The environment. *)

Edit ==
  /\ manifest' \in Manifests \ {manifest}
  /\ UNCHANGED <<active, superseded, now, op, made, confirmed, approved>>

Tick ==
  /\ now < MaxTime
  /\ now' = now + 1
  /\ UNCHANGED <<manifest, active, superseded, op, made, confirmed, approved>>

Next ==
  \/ \E o \in Operators :
       \/ Ask(o) \/ Confirm(o) \/ Recheck(o)
       \/ Compare(o) \/ Retain(o) \/ Replace(o) \/ Verify(o) \/ Restore(o)
       \/ Stop(o)
  \/ Edit
  \/ Tick

Spec == Init /\ [][Next]_vars

-----------------------------------------------------------------------------
(* Properties. *)

Commands == [pc : {"idle", "ask", "recheck", "compare", "retain", "replace", "verify",
                   "restore"},
             shown : Manifests \cup {None},
             status : {"none", "MISSING", "MISMATCH"},
             seen : Records \cup {None},
             existing : Records \cup {None},
             record : Records \cup {None}]

TypeOK ==
  /\ manifest \in Manifests
  /\ active \in Records \cup {None}
  /\ superseded \subseteq Records
  /\ now \in Nat /\ made \in Nat
  /\ op \in [Operators -> Commands]
  /\ confirmed \subseteq Manifests
  /\ approved \subseteq Records

\* The manifest the approval file binds is one whose digest a human typed,
\* however the manifest was edited and the operators overtook each other.
ActiveWasConfirmed == active # None => active.manifest \in confirmed

\* An approval that was reported leaves the approval file only for the retained
\* records, whatever fails, unless another operator's command had compared
\* against an older file by then.
ReplacedIsRetained ==
  [][\A r \in approved : active = r /\ active' # r =>
       \/ r \in superseded
       \/ \E o \in Operators :
            \/ At(o, "replace") /\ op[o].existing # r
            \/ At(o, "restore") /\ op[o].record # r]_vars
===============================================================================
