---------------------------- MODULE ReceiptBundle ----------------------------
(***************************************************************************)
(* receipt materialize and receipt verify: materialize_bundle and          *)
(* verify_bundle (receipt.py), for one valid receipt and the directory at  *)
(* its content address, OUTPUT/sha256/DIGEST.                              *)
(*                                                                         *)
(* Several processes materialize the same receipt.  Each checks the source *)
(* artifacts one by one, looks for a bundle at the address, copies the     *)
(* artifacts one by one into a staging directory of its own, renames that  *)
(* to the address and verifies the result.  The source may be edited       *)
(* meanwhile, an operation may fail, and the process may die.              *)
(*                                                                         *)
(* The bytes of an artifact are "exact" (length and digest the receipt     *)
(* lists), "differs", or "missing".                                        *)
(***************************************************************************)
EXTENDS Naturals

CONSTANTS
  Callers,
  ArtifactCount,  \* artifacts the receipt lists, in its order
  Required,       \* those that are required
  MayFail,        \* whether operations may fail and processes die
  None            \* nothing at the address

Artifacts == 1..ArtifactCount

ASSUME ArtifactAssumption ==
  /\ ArtifactCount \in Nat \ {0}
  /\ Required \subseteq Artifacts
  /\ MayFail \in BOOLEAN

VARIABLES
  source,  \* source[a]: the bytes of artifact a under the source root
  bundle,  \* what is at the content address: [receipt, files], or None
  call     \* call[c]: the state of process c, or how its command ended

vars == <<source, bundle, call>>

Bytes == {"exact", "differs", "missing"}
Files == [Artifacts -> Bytes]
\* The receipt.json of a bundle: this receipt, another one, or none that loads.
Bundles == [receipt : {"same", "other", "broken"}, files : Files]
ASSUME NoneAssumption == None \notin Bundles

Statuses == {"PASS", "FAIL", "INCONCLUSIVE"}
Verdicts == Statuses \cup {"INVALID"}
\* The digest verify is given: the receipt's, another one, or none.
Expectations == {"same", "other", "none"}

NoFiles == [a \in Artifacts |-> "missing"]
Fresh == [pc |-> "scan", next |-> 1, status |-> "PASS", staged |-> NoFiles,
          expected |-> "same"]

\* Bundles are damaged, if at all, before these calls.
Init ==
  /\ source \in Files
  /\ bundle \in Bundles \cup {None}
  /\ call = [c \in Callers |-> [Fresh EXCEPT !.pc = "idle"]]

-----------------------------------------------------------------------------
(* Verification. *)

\* One artifact, after what the ones before it gave.
After(status, a, bytes) ==
  IF bytes = "differs" THEN "FAIL"
  ELSE IF bytes = "missing" /\ a \in Required THEN "INCONCLUSIVE"
  ELSE status

\* _artifact_state: the last artifact with something wrong decides.
Wrong(files) == {a \in Artifacts : After("PASS", a, files[a]) # "PASS"}
ArtifactState(files) ==
  IF Wrong(files) = {} THEN "PASS"
  ELSE IF \E a \in Wrong(files) : files[a] = "differs" /\ \A b \in Wrong(files) : b <= a
  THEN "FAIL" ELSE "INCONCLUSIVE"

\* Mutant of Verdict: the artifacts alone decide.
VerdictUnbound(b, expected) == ArtifactState(b.files)

\* verify_bundle; a receipt that does not load is INVALID.
Verdict(b, expected) ==
  IF b.receipt = "broken" THEN "INVALID"
  ELSE IF expected = "none" THEN "INCONCLUSIVE"
  ELSE IF b.receipt # expected THEN "INVALID"
  ELSE ArtifactState(b.files)

-----------------------------------------------------------------------------
(* The commands. *)

Busy == {"scan", "look", "copy", "publish", "check"}
Ends == {"idle", "created", "reused", "conflict", "rejected", "refused", "error"} \cup Verdicts

At(c, pc) == call[c].pc = pc
Go(c, pc) == call' = [call EXCEPT ![c].pc = pc]

Begin(c) ==
  /\ call[c].pc \in Ends
  /\ call' = [call EXCEPT ![c] = Fresh]
  /\ UNCHANGED <<source, bundle>>

\* The source artifacts, in order; all of them must pass.
Scan(c) ==
  /\ At(c, "scan")
  /\ LET a == call[c].next
         status == After(call[c].status, a, source[a]) IN
     call' = [call EXCEPT
       ![c].status = status,
       ![c].next = IF a < ArtifactCount THEN a + 1 ELSE 1,
       ![c].pc = IF a < ArtifactCount THEN "scan"
                 ELSE IF status = "PASS" THEN "look" ELSE "refused"]
  /\ UNCHANGED <<source, bundle>>

\* Mutant of Look: what is at the address is taken for the bundle.
LookOnly(c) ==
  /\ At(c, "look")
  /\ Go(c, IF bundle = None THEN "copy" ELSE "reused")
  /\ UNCHANGED <<source, bundle>>

\* A bundle at the address is verified and reused, or conflicts; a receipt
\* there that does not load ends the command with an error of its own.
Look(c) ==
  /\ At(c, "look")
  /\ IF bundle = None THEN Go(c, "copy")
     ELSE IF bundle.receipt = "broken" THEN Go(c, "error")
     ELSE Go(c, IF Verdict(bundle, "same") = "PASS" THEN "reused" ELSE "conflict")
  /\ UNCHANGED <<source, bundle>>

\* Every artifact is copied, optional or not, as it is now.
Copy(c) ==
  /\ At(c, "copy")
  /\ LET a == call[c].next IN
     IF source[a] = "missing" THEN Go(c, "error")
     ELSE call' = [call EXCEPT
            ![c].staged[a] = source[a],
            ![c].pc = IF a < ArtifactCount THEN "copy" ELSE "publish",
            ![c].next = IF a < ArtifactCount THEN a + 1 ELSE 1]
  /\ UNCHANGED <<source, bundle>>

Staged(c) == [receipt |-> "same", files |-> call[c].staged]

\* Mutant of Publish: a bundle that came in between is replaced.
PublishOver(c) ==
  /\ At(c, "publish")
  /\ bundle' = Staged(c)
  /\ Go(c, "check")
  /\ UNCHANGED source

\* os.replace does not replace a directory that is not empty.
Publish(c) ==
  /\ At(c, "publish")
  /\ IF bundle = None THEN bundle' = Staged(c) /\ Go(c, "check")
     ELSE Go(c, "error") /\ UNCHANGED bundle
  /\ UNCHANGED source

\* Mutant of Check: the copy is trusted.
CheckNothing(c) ==
  /\ At(c, "check")
  /\ Go(c, "created")
  /\ UNCHANGED <<source, bundle>>

\* The new bundle is verified where it is; it stays there in any case.
Check(c) ==
  /\ At(c, "check")
  /\ Go(c, IF Verdict(bundle, "same") = "PASS" THEN "created" ELSE "rejected")
  /\ UNCHANGED <<source, bundle>>

\* An operation fails and its exception removes the staging directory, or the
\* process dies and leaves it: no other call uses its name.
Stop(c) ==
  /\ MayFail
  /\ call[c].pc \in Busy
  /\ Go(c, "error")
  /\ UNCHANGED <<source, bundle>>

\* receipt verify over the bundle.
Verify(c) ==
  /\ call[c].pc \in Ends
  /\ bundle # None
  /\ \E expected \in Expectations :
       call' = [call EXCEPT ![c].pc = Verdict(bundle, expected), ![c].expected = expected]
  /\ UNCHANGED <<source, bundle>>

EditSource ==
  /\ \E a \in Artifacts, bytes \in Bytes :
       bytes # source[a] /\ source' = [source EXCEPT ![a] = bytes]
  /\ UNCHANGED <<bundle, call>>

Next ==
  \/ \E c \in Callers :
       \/ Begin(c) \/ Scan(c) \/ Look(c) \/ Copy(c) \/ Publish(c) \/ Check(c)
       \/ Stop(c) \/ Verify(c)
  \/ EditSource

Spec == Init /\ [][Next]_vars

-----------------------------------------------------------------------------
(* Properties. *)

Calls == [pc : Busy \cup Ends, next : Artifacts, status : Statuses, staged : Files,
          expected : Expectations]

TypeOK ==
  /\ source \in Files
  /\ bundle \in Bundles \cup {None}
  /\ call \in [Callers -> Calls]

\* Every file is what the receipt lists, and no required one is missing.
Intact(files) ==
  \A a \in Artifacts : files[a] # "differs" /\ (a \in Required => files[a] = "exact")

\* A command that reports success, to create, reuse or verify, reports it of an
\* intact bundle: however the source was edited between the check, the copies and
\* the rename, and whoever published in between.  A verification that passes was
\* told the digest of the receipt it found.
SuccessIsExact ==
  \A c \in Callers :
    call[c].pc \in {"created", "reused", "PASS"} =>
      /\ bundle # None
      /\ Intact(bundle.files)
      /\ bundle.receipt = IF call[c].pc = "PASS" THEN call[c].expected ELSE "same"

\* What is published at a content address is never changed by another call.
BundleImmutable == [][bundle # None => bundle' = bundle]_vars

\* Of all the processes that materialize at once, one at most creates the bundle.
CreatedOnce ==
  \A c, d \in Callers :
    call[c].pc \in {"check", "created"} /\ call[d].pc \in {"check", "created"} => c = d
=============================================================================
