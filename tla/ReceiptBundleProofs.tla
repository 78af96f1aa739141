-------------------------- MODULE ReceiptBundleProofs --------------------------
(***************************************************************************)
(* For any number of processes and artifacts: success is reported of an    *)
(* intact bundle only, one process at most creates it, and what is         *)
(* published stays as it is.                                               *)
(*                                                                         *)
(* A report outlives the step that made it, so it stays true only because  *)
(* a published bundle never changes; and a process that has published but  *)
(* not yet checked must be known to look at a bundle of its own receipt,   *)
(* and to be the only one.                                                 *)
(***************************************************************************)
EXTENDS ReceiptBundle, TLAPS

\* The report of process c, if it made one, is true.
Truthful(c) ==
  call[c].pc \in {"created", "reused", "PASS"} =>
    /\ bundle # None
    /\ Intact(bundle.files)
    /\ bundle.receipt = IF call[c].pc = "PASS" THEN call[c].expected ELSE "same"

\* Who has published finds a bundle at the address.
Published(c) == call[c].pc \in {"check", "created"} => bundle # None

IInv ==
  /\ TypeOK
  /\ \A c \in Callers : Truthful(c) /\ Published(c)
  /\ CreatedOnce

\* A verdict of PASS is given only to an intact bundle of the expected receipt.
LEMMA VerdictSound ==
  ASSUME NEW b \in Bundles, NEW expected \in Expectations,
         Verdict(b, expected) = "PASS"
  PROVE  b.receipt = expected /\ Intact(b.files)
<1>1. b.receipt = expected /\ ArtifactState(b.files) = "PASS"
  BY DEF Verdict, Bundles, Expectations
<1>2. Wrong(b.files) = {}
  BY <1>1 DEF ArtifactState
<1>3. b.files \in Files
  BY DEF Bundles
<1>4. ASSUME NEW a \in Artifacts
      PROVE  b.files[a] # "differs" /\ (a \in Required => b.files[a] = "exact")
  <2>1. After("PASS", a, b.files[a]) = "PASS"
    BY <1>2 DEF Wrong
  <2>2. b.files[a] \in {"exact", "differs", "missing"}
    BY <1>3 DEF Files, Bytes
  <2> QED
    BY <2>1, <2>2 DEF After
<1> QED
  BY <1>1, <1>4 DEF Intact

LEMMA VerdictType ==
  ASSUME NEW b \in Bundles, NEW expected PROVE Verdict(b, expected) \in Verdicts
BY DEF Verdict, ArtifactState, Verdicts, Statuses

LEMMA InitIInv == Init => IInv
<1> SUFFICES ASSUME Init PROVE IInv
  OBVIOUS
<1>1. [Fresh EXCEPT !.pc = "idle"] \in Calls
  <2>1. NoFiles \in Files /\ 1 \in Artifacts
    BY ArtifactAssumption DEF NoFiles, Files, Bytes, Artifacts
  <2> QED
    BY <2>1 DEF Fresh, Calls, Busy, Ends, Statuses, Expectations
<1>2. \A c \in Callers : call[c].pc = "idle"
  BY DEF Init, Fresh
<1> QED
  BY <1>1, <1>2 DEF Init, IInv, TypeOK, Truthful, Published, CreatedOnce

\* A step that changes one call and leaves the bundle alone disturbs no other.
LEMMA OneCall ==
  ASSUME IInv, NEW c \in Callers, NEW d \in Calls,
         call' = [call EXCEPT ![c] = d], UNCHANGED <<source, bundle>>,
         Truthful(c)', d.pc = "check" => call[c].pc = "check",
         d.pc = "created" => call[c].pc = "check"
  PROVE  IInv'
<1>1. call' \in [Callers -> Calls] /\ call'[c] = d
  BY DEF IInv, TypeOK
<1>2. \A e \in Callers : e # c => call'[e] = call[e]
  BY DEF IInv, TypeOK
<1>3. TypeOK'
  BY <1>1 DEF IInv, TypeOK
<1>4. \A e \in Callers : Truthful(e)'
  BY <1>2 DEF IInv, Truthful
<1>5. \A e \in Callers :
         call'[e].pc \in {"check", "created"} => call[e].pc \in {"check", "created"}
  BY <1>1, <1>2
<1>6. \A e \in Callers : Published(e)'
  BY <1>5 DEF IInv, Published
<1>7. CreatedOnce'
  BY <1>5 DEF IInv, CreatedOnce
<1> QED
  BY <1>3, <1>4, <1>6, <1>7 DEF IInv

\* What most steps do: they move one call on, to where it reports nothing.
LEMMA OneSilentCall ==
  ASSUME IInv, NEW c \in Callers, NEW d \in Calls,
         call' = [call EXCEPT ![c] = d], UNCHANGED <<source, bundle>>,
         d.pc \notin {"created", "reused", "PASS", "check"}
  PROVE  IInv'
<1>1. call'[c] = d
  BY DEF IInv, TypeOK
<1>2. Truthful(c)'
  BY <1>1 DEF Truthful
<1> QED
  BY <1>2, OneCall

LEMMA NextIInv == IInv /\ [Next]_vars => IInv'
<1> SUFFICES ASSUME IInv, [Next]_vars PROVE IInv'
  OBVIOUS
<1>t. TypeOK /\ \A c \in Callers : call[c] \in Calls /\ Truthful(c) /\ Published(c)
  BY DEF IInv, TypeOK
<1>a. 1 \in Artifacts /\ \A a \in Artifacts : a < ArtifactCount => a + 1 \in Artifacts
  BY ArtifactAssumption DEF Artifacts
<1>1. ASSUME NEW c \in Callers, Begin(c) PROVE IInv'
  <2>1. Fresh \in Calls
    BY <1>a DEF Fresh, Calls, Busy, NoFiles, Files, Bytes, Statuses, Expectations
  <2>2. Fresh.pc = "scan"
    BY DEF Fresh
  <2> QED
    BY <1>1, <2>1, <2>2, OneSilentCall DEF Begin
<1>2. ASSUME NEW c \in Callers, Scan(c) PROVE IInv'
  <2> DEFINE a == call[c].next
             status == After(call[c].status, a, source[a])
             d == [call[c] EXCEPT
                     !.status = status,
                     !.next = IF a < ArtifactCount THEN a + 1 ELSE 1,
                     !.pc = IF a < ArtifactCount THEN "scan"
                            ELSE IF status = "PASS" THEN "look" ELSE "refused"]
  <2>1. call' = [call EXCEPT ![c] = d]
    BY <1>2 DEF Scan
  <2>2. status \in Statuses /\ a \in Artifacts
    BY <1>t DEF After, Statuses, Calls
  <2>3. d \in Calls /\ d.pc \in {"scan", "look", "refused"}
    <3>1. d.pc \in {"scan", "look", "refused"} /\ d.pc \in Busy \cup Ends
      BY <1>t DEF Calls, Busy, Ends
    <3>2. (IF a < ArtifactCount THEN a + 1 ELSE 1) \in Artifacts
      BY <2>2, <1>a
    <3> QED
      BY <1>t, <2>2, <3>1, <3>2 DEF Calls
  <2> QED
    BY <1>2, <2>1, <2>3, OneSilentCall DEF Scan
<1>3. ASSUME NEW c \in Callers, Look(c) PROVE IInv'
  <2>1. CASE bundle = None
    <3> DEFINE d == [call[c] EXCEPT !.pc = "copy"]
    <3>1. d \in Calls /\ d.pc = "copy"
      BY <1>t DEF Calls, Busy
    <3> QED
      BY <1>3, <2>1, <3>1, OneSilentCall DEF Look, Go
  <2>2. CASE bundle # None /\ Verdict(bundle, "same") = "PASS"
    <3> DEFINE d == [call[c] EXCEPT !.pc = "reused"]
    <3>1. d \in Calls /\ d.pc = "reused"
      BY <1>t DEF Calls, Ends
    <3>2. bundle \in Bundles /\ "same" \in Expectations
      BY <2>2, <1>t DEF TypeOK, Expectations
    <3>3. bundle.receipt = "same" /\ Intact(bundle.files)
      BY <2>2, <3>2, VerdictSound
    <3>4. call' = [call EXCEPT ![c] = d] /\ call'[c] = d /\ UNCHANGED <<source, bundle>>
      BY <1>3, <2>2, <3>3, <1>t DEF Look, Go, TypeOK
    <3>5. Truthful(c)'
      BY <2>2, <3>1, <3>3, <3>4 DEF Truthful, Intact
    <3> QED
      BY <3>1, <3>4, <3>5, OneCall
  <2>3. CASE bundle # None /\ bundle.receipt = "broken"
    <3> DEFINE d == [call[c] EXCEPT !.pc = "error"]
    <3>1. d \in Calls /\ d.pc = "error"
      BY <1>t DEF Calls, Ends
    <3> QED
      BY <1>3, <2>3, <3>1, OneSilentCall DEF Look, Go
  <2>4. CASE bundle # None /\ bundle.receipt # "broken" /\ Verdict(bundle, "same") # "PASS"
    <3> DEFINE d == [call[c] EXCEPT !.pc = "conflict"]
    <3>1. d \in Calls /\ d.pc = "conflict"
      BY <1>t DEF Calls, Ends
    <3> QED
      BY <1>3, <2>4, <3>1, OneSilentCall DEF Look, Go
  <2> QED
    BY <2>1, <2>2, <2>3, <2>4
<1>4. ASSUME NEW c \in Callers, Copy(c) PROVE IInv'
  <2> DEFINE a == call[c].next
  <2>0. a \in Artifacts /\ source[a] \in Bytes
    BY <1>t DEF Calls, TypeOK, Files
  <2>1. CASE source[a] = "missing"
    <3> DEFINE d == [call[c] EXCEPT !.pc = "error"]
    <3>1. d \in Calls /\ d.pc = "error"
      BY <1>t DEF Calls, Ends
    <3> QED
      BY <1>4, <2>1, <3>1, OneSilentCall DEF Copy, Go
  <2>2. CASE source[a] # "missing"
    <3> DEFINE d == [call[c] EXCEPT
                       !.staged = [call[c].staged EXCEPT ![a] = source[a]],
                       !.pc = IF a < ArtifactCount THEN "copy" ELSE "publish",
                       !.next = IF a < ArtifactCount THEN a + 1 ELSE 1]
    <3>1. d.pc \in {"copy", "publish"} /\ d.pc \in Busy
      BY <1>t DEF Calls, Busy
    <3>2. (IF a < ArtifactCount THEN a + 1 ELSE 1) \in Artifacts
      BY <2>0, <1>a
    <3>3. [call[c].staged EXCEPT ![a] = source[a]] \in Files
      BY <2>0, <1>t DEF Calls, Files
    <3>4. d \in Calls
      BY <1>t, <3>1, <3>2, <3>3 DEF Calls
    <3>5. call' = [call EXCEPT ![c] = d] /\ UNCHANGED <<source, bundle>>
      BY <1>4, <2>2, <1>t DEF Copy, TypeOK, Calls
    <3> QED
      BY <3>1, <3>4, <3>5, OneSilentCall
  <2> QED
    BY <2>1, <2>2
<1>5. ASSUME NEW c \in Callers, Publish(c) PROVE IInv'
  <2>1. CASE bundle = None
    <3> DEFINE d == [call[c] EXCEPT !.pc = "check"]
    <3>1. d \in Calls /\ d.pc = "check"
      BY <1>t DEF Calls, Busy
    <3>2. call' = [call EXCEPT ![c] = d] /\ bundle' = Staged(c) /\ UNCHANGED source
      BY <1>5, <2>1 DEF Publish, Go
    <3>3. call'[c] = d /\ \A e \in Callers : e # c => call'[e] = call[e]
      BY <3>2, <1>t DEF TypeOK
    <3>4. bundle' \in Bundles /\ bundle' # None
      BY <3>2, <1>t, NoneAssumption DEF Staged, Bundles, Calls
    <3>5. TypeOK'
      BY <3>1, <3>2, <3>4, <1>t DEF TypeOK
    <3>6. \A e \in Callers :
             call[e].pc \notin {"created", "reused", "PASS", "check"}
      BY <2>1, <1>t DEF Truthful, Published
    <3>7. \A e \in Callers : Truthful(e)' /\ Published(e)'
      BY <3>1, <3>3, <3>4, <3>6 DEF Truthful, Published
    <3>8. CreatedOnce'
      BY <3>3, <3>6 DEF CreatedOnce
    <3> QED
      BY <3>5, <3>7, <3>8 DEF IInv
  <2>2. CASE bundle # None
    <3> DEFINE d == [call[c] EXCEPT !.pc = "error"]
    <3>1. d \in Calls /\ d.pc = "error"
      BY <1>t DEF Calls, Ends
    <3> QED
      BY <1>5, <2>2, <3>1, OneSilentCall DEF Publish, Go
  <2> QED
    BY <2>1, <2>2
<1>6. ASSUME NEW c \in Callers, Check(c) PROVE IInv'
  <2>0. bundle # None /\ bundle \in Bundles /\ "same" \in Expectations
    BY <1>6, <1>t DEF Check, At, Published, TypeOK, Expectations
  <2>1. CASE Verdict(bundle, "same") = "PASS"
    <3> DEFINE d == [call[c] EXCEPT !.pc = "created"]
    <3>1. d \in Calls /\ d.pc = "created"
      BY <1>t DEF Calls, Ends
    <3>2. call' = [call EXCEPT ![c] = d] /\ call'[c] = d /\ UNCHANGED <<source, bundle>>
      BY <1>6, <2>1, <1>t DEF Check, Go, TypeOK
    <3>3. bundle.receipt = "same" /\ Intact(bundle.files)
      BY <2>0, <2>1, VerdictSound
    <3>4. Truthful(c)'
      BY <2>0, <3>1, <3>2, <3>3 DEF Truthful, Intact
    <3> QED
      BY <1>6, <3>1, <3>2, <3>4, OneCall DEF Check, At
  <2>2. CASE Verdict(bundle, "same") # "PASS"
    <3> DEFINE d == [call[c] EXCEPT !.pc = "rejected"]
    <3>1. d \in Calls /\ d.pc = "rejected"
      BY <1>t DEF Calls, Ends
    <3> QED
      BY <1>6, <2>2, <3>1, OneSilentCall DEF Check, Go
  <2> QED
    BY <2>1, <2>2
<1>7. ASSUME NEW c \in Callers, Stop(c) PROVE IInv'
  <2> DEFINE d == [call[c] EXCEPT !.pc = "error"]
  <2>1. d \in Calls /\ d.pc = "error"
    BY <1>t DEF Calls, Ends
  <2> QED
    BY <1>7, <2>1, OneSilentCall DEF Stop, Go
<1>8. ASSUME NEW c \in Callers, Verify(c) PROVE IInv'
  <2>1. PICK expected \in Expectations :
          call' = [call EXCEPT ![c].pc = Verdict(bundle, expected), ![c].expected = expected]
    BY <1>8 DEF Verify
  <2> DEFINE d == [call[c] EXCEPT !.pc = Verdict(bundle, expected), !.expected = expected]
  <2>2. bundle # None /\ bundle \in Bundles /\ UNCHANGED <<source, bundle>>
    BY <1>8, <1>t DEF Verify, TypeOK
  <2>3. Verdict(bundle, expected) \in Verdicts
    BY <2>2, VerdictType
  <2>4. d \in Calls /\ d.pc \in Verdicts /\ d.expected = expected
    BY <2>3, <1>t DEF Calls, Ends
  <2>5. call' = [call EXCEPT ![c] = d] /\ call'[c] = d
    BY <2>1, <1>t DEF TypeOK
  <2>6. d.pc \notin {"created", "reused", "check"}
    BY <2>4 DEF Verdicts, Statuses
  <2>7. Truthful(c)'
    <3>1. CASE d.pc = "PASS"
      <4>1. Verdict(bundle, expected) = "PASS"
        BY <3>1, <1>t DEF Calls
      <4>2. bundle.receipt = expected /\ Intact(bundle.files)
        BY <4>1, <2>2, VerdictSound
      <4> QED
        BY <3>1, <4>2, <2>2, <2>4, <2>5 DEF Truthful, Intact
    <3>2. CASE d.pc # "PASS"
      BY <3>2, <2>5, <2>6 DEF Truthful
    <3> QED
      BY <3>1, <3>2
  <2> QED
    BY <2>2, <2>4, <2>5, <2>6, <2>7, OneCall
<1>9. ASSUME EditSource PROVE IInv'
  <2>1. source' \in Files
    BY <1>9, <1>t DEF EditSource, TypeOK, Files
  <2> QED
    BY <1>9, <2>1 DEF EditSource, IInv, TypeOK, Truthful, Published, CreatedOnce, Intact
<1>10. CASE UNCHANGED vars
  BY <1>10 DEF vars, IInv, TypeOK, Truthful, Published, CreatedOnce, Intact
<1> QED
  BY <1>1, <1>2, <1>3, <1>4, <1>5, <1>6, <1>7, <1>8, <1>9, <1>10 DEF Next

LEMMA Inductive == Spec => []IInv
<1> QED
  BY InitIInv, NextIInv, PTL DEF Spec

\* Every variable keeps its type, for any number of processes and artifacts.
THEOREM TypeCorrect == Spec => []TypeOK
<1>1. IInv => TypeOK
  BY DEF IInv
<1> QED
  BY <1>1, Inductive, PTL

\* "created", "reused" and PASS are reported of an intact bundle of the right
\* receipt only, and stay true: materialize_bundle and verify_bundle.
THEOREM SuccessSound == Spec => []SuccessIsExact
<1>1. IInv => SuccessIsExact
  BY DEF IInv, Truthful, SuccessIsExact
<1> QED
  BY <1>1, Inductive, PTL

\* Of any number of processes that materialize one receipt, one creates it.
THEOREM OneCreator == Spec => []CreatedOnce
<1>1. IInv => CreatedOnce
  BY DEF IInv
<1> QED
  BY <1>1, Inductive, PTL

\* No command changes what is published at the address: os.replace refuses a
\* directory that is not empty, and nothing else writes there.
THEOREM BundleFixed == Spec => BundleImmutable
<1>1. [Next]_vars => [bundle # None => bundle' = bundle]_vars
  BY DEF Next, vars, Begin, Scan, Look, Copy, Publish, Check, Stop, Verify, EditSource, Go
<1> QED
  BY <1>1, PTL DEF Spec, BundleImmutable
=============================================================================
