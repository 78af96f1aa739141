----------------------- MODULE IntegratedRecoveryProofs -----------------------
(***************************************************************************)
(* Proofs about the composite of the recovery stages, for any number of    *)
(* cycles and whatever the probes of the host do meanwhile.                *)
(*                                                                         *)
(* The argument: what the stages ended with is heard stage by stage, so    *)
(* that as many are heard as are done, and one more at its boundary; a     *)
(* stage that did not pass leads to the report of a failure, where nothing *)
(* passes any more.                                                        *)
(*                                                                         *)
(* The second part is about the probes themselves, as children of the      *)
(* composite or beside it: what a verdict says of containers and rows.     *)
(***************************************************************************)
EXTENDS IntegratedRecovery, SequenceTheorems, TLAPS

Places ==
  {"idle", "before", "stage", "child", "after", "cycle", "compare", "final", "failed", "over"}
Total == Repetitions * Len(STAGE_ORDER)

\* n stages were heard, and each of them passed.
AllPassed(n) == heard = [i \in 1 .. n |-> "PASS"]

\* The inductive invariant.
IInv ==
  /\ step \in Places /\ done \in Nat
  /\ verdict = "PASS" => step = "over"
  /\ step \in {"idle", "before", "stage", "child", "cycle"} => AllPassed(done)
  /\ step = "after" => AllPassed(done + 1)
  /\ step \in {"compare", "final"} => done = Total /\ AllPassed(done)
  /\ step = "idle" => done = 0

\* One more is heard to pass.
LEMMA OneMore ==
  ASSUME NEW n \in Nat, AllPassed(n), heard' = Append(heard, "PASS")
  PROVE  heard' = [i \in 1 .. n + 1 |-> "PASS"]
<1>1. heard \in Seq({"PASS"}) /\ Len(heard) = n BY DEF AllPassed
<1>2. heard' \in Seq({"PASS"}) /\ Len(heard') = n + 1 BY <1>1
<1>3. \A i \in 1 .. n + 1 : heard'[i] = "PASS" BY <1>2
<1> DEFINE all == [i \in 1 .. n + 1 |-> "PASS"]
<1>4. all \in Seq({"PASS"}) /\ Len(all) = n + 1 /\ \A i \in 1 .. n + 1 : all[i] = "PASS"
  OBVIOUS
<1>5. QED BY <1>2, <1>3, <1>4, SeqEqual

\* The end of the composite keeps the invariant.
LEMMA EndKeeps ==
  ASSUME NEW v, IInv, End(v)
  PROVE  IInv'
BY DEF IInv, End, Places

LEMMA Invariant == CompositeSpec => []IInv
<1>1. CompositeInit => IInv
  BY DEF CompositeInit, IInv, Places, AllPassed
<1>2. IInv /\ [CompositeNext]_allVars => IInv'
  <2> SUFFICES ASSUME IInv, [CompositeNext]_allVars PROVE IInv'
    OBVIOUS
  <2> USE DEF Places
  <2>1. CASE Start
    <3>1. CASE Clean
      <4>1. step = "idle" /\ step' = "before" /\ UNCHANGED <<done, heard, verdict>>
        BY <2>1, <3>1 DEF Start, To
      <4>2. QED BY <4>1 DEF IInv, AllPassed
    <3>2. CASE ~Clean
      BY <2>1, <3>2, EndKeeps DEF Start
    <3>3. QED BY <3>1, <3>2
  <2>2. CASE BeforeStage
    BY <2>2, EndKeeps DEF BeforeStage, To, IInv, AllPassed
  <2>3. CASE ReceiptStage
    BY <2>3, OneMore DEF ReceiptStage, To, IInv, AllPassed
  <2>4. CASE StartChild
    BY <2>4 DEF StartChild, To, IInv, AllPassed
  <2>5. CASE HearChild
    BY <2>5, EndKeeps, OneMore DEF HearChild, To, IInv, AllPassed
  <2>6. CASE AfterStage
    BY <2>6, EndKeeps DEF AfterStage, To, IInv, AllPassed
  <2>7. CASE EndCycle
    BY <2>7, EndKeeps DEF EndCycle, To, IInv, AllPassed, Total
  <2>8. CASE CompareCycles
    BY <2>8, EndKeeps DEF CompareCycles, To, IInv, AllPassed
  <2>9. CASE LastBoundary \/ ReportFailure
    BY <2>9, EndKeeps DEF LastBoundary, ReportFailure
  <2>10. CASE UNCHANGED composite
    BY <2>10 DEF composite, IInv, AllPassed
  <2>11. QED
    BY <2>1, <2>2, <2>3, <2>4, <2>5, <2>6, <2>7, <2>8, <2>9, <2>10
       DEF CompositeNext, CompositeAct, allVars
<1>3. QED BY <1>1, <1>2, PTL DEF CompositeSpec

\* A step that gives the verdict PASS finds every stage of every cycle passed,
\* the protected volumes as they were first found, and nothing of any probe,
\* for any number of cycles, probes and mishaps.
THEOREM PassEarned == CompositeSpec => CompositePassIsEarned
<1>1. IInv /\ [CompositeNext]_allVars =>
        [verdict' = "PASS" /\ verdict # "PASS" =>
           /\ ident = root /\ box = {} /\ net = {} /\ vol = {"kept"}
           /\ heard = [i \in 1 .. Repetitions * Len(STAGE_ORDER) |-> "PASS"]]_allVars
  <2> SUFFICES ASSUME IInv, CompositeNext, verdict' = "PASS", verdict # "PASS"
               PROVE  /\ ident = root /\ box = {} /\ net = {} /\ vol = {"kept"}
                      /\ heard = [i \in 1 .. Repetitions * Len(STAGE_ORDER) |-> "PASS"]
    OBVIOUS
  <2>1. LastBoundary
    BY DEF CompositeNext, CompositeAct, Start, BeforeStage, ReceiptStage, StartChild, HearChild,
           AfterStage, EndCycle, CompareCycles, ReportFailure, End, To, composite
  <2>2. Clean /\ ident = root BY <2>1 DEF LastBoundary, End
  <2>3. QED BY <2>1, <2>2 DEF Clean, LastBoundary, IInv, AllPassed, Total
<1>2. QED BY <1>1, Invariant, PTL DEF CompositeSpec, CompositePassIsEarned

-----------------------------------------------------------------------------
(* The probes, beside the composite or as its children.  What a probe knows *)
(* of its plan stays true whatever other probes do, because the rows of the *)
(* protected volume are only ever added to and that volume is never taken   *)
(* away; and no probe makes a container in another's name.                  *)

Typed ==
  /\ job \in [Procs -> Surface]
  /\ pc \in [Procs -> {"look", "work", "down", "list", "done"}]
  /\ at \in [Procs -> Nat \ {0}]
  /\ mind \in [Procs -> {"ok", "bad", "raised"}]
  /\ runner \in [Procs -> {"none", "started", "stored", "written", "failed"}]
  /\ result \in [Procs -> {"none", "PASS", "FAIL", "stale", "error", "dead"}]
  /\ DOMAIN seen = Procs /\ DOMAIN facts = Projects

\* The facts that the first n steps of probe p's plan write or find.
Told(p, n) ==
  \A i \in 1..n : Plan(job[p])[i].op \in {"run", "find", "app"} =>
                   Plan(job[p])[i].facts \subseteq facts["kept"]

\* A verdict is given when nothing of the probe is left, and PASS for what is stored.
VerdictTrue(p) ==
  pc[p] = "done" /\ result[p] \in {"PASS", "FAIL"} =>
    /\ ~ \E b \in box : b.by = p /\ b.job = job[p]
    /\ result[p] = "PASS" => Claims(job[p]) \subseteq facts["kept"]

\* As long as nothing went wrong, the steps that are behind a probe did what
\* they are for; it leaves its plan only at the end, or with an exception.
Behind(p) ==
  /\ job[p] \in Kept /\ pc[p] \in {"work", "down", "list"} /\ mind[p] = "ok" => Told(p, at[p] - 1)
  /\ pc[p] \in {"down", "list"} /\ mind[p] # "raised" => at[p] > Len(Plan(job[p]))
  /\ pc[p] = "look" => at[p] = 1
  /\ pc[p] = "done" => at[p] = 1 /\ runner[p] = "none"

\* A runner that is heard of has stored its row.
RunnerTrue(p) ==
  /\ runner[p] # "none" => Now(p).op = "app"
  /\ job[p] \in Kept /\ runner[p] \in {"stored", "written"} => Now(p).facts \subseteq facts["kept"]

\* All that a probe can have found and gone on is the protected volume.
SeenKept(p) ==
  /\ seen[p] \subseteq {<<"vol", "kept">>}
  /\ seen[p] # {} => pc[p] # "done" /\ job[p] \in Kept /\ "kept" \in vol

Sound(p) == VerdictTrue(p) /\ Behind(p) /\ RunnerTrue(p) /\ SeenKept(p)
ProbesInv == Typed /\ \A p \in Procs : Sound(p)

\* A step of a probe, of the start of one, or of something else on the host.
ProbeStep(p) == Act(p) \/ Mishap(p) \/ \E j \in Surface : Begin(p, j)

-----------------------------------------------------------------------------
\* What the plans claim is what their steps write and find.
LEMMA PlansClaim ==
  ASSUME NEW j \in Kept, NEW known,
         \A i \in 1..Len(Plan(j)) : Plan(j)[i].op \in {"run", "find", "app"} =>
                                     Plan(j)[i].facts \subseteq known
  PROVE  Claims(j) \subseteq known
<1> USE DEF Step
<1>1. CASE j = "runtime"
  BY <1>1 DEF Claims
<1>2. CASE j = "python"
  <2>1. Plan(j) = PythonPlan BY <1>2 DEF Plan
  <2>2. Len(PythonPlan) = 10 /\ PythonPlan[3] = Run("migration", {"schema"})
        /\ PythonPlan[6] = Find("row", {"python"})
    BY DEF PythonPlan
  <2>3. {"schema"} \subseteq known /\ {"python"} \subseteq known
    BY <2>1, <2>2 DEF Run, Find
  <2>4. QED BY <1>2, <2>3 DEF Claims
<1>3. CASE j = "node"
  <2>1. Plan(j) = NodePlan BY <1>3 DEF Plan
  <2>2. Len(NodePlan) = 10 /\ NodePlan[3] = Run("migration", {"schema"})
        /\ NodePlan[6] = Find("row", {"node", "python"})
    BY DEF NodePlan
  <2>3. {"schema"} \subseteq known /\ {"node", "python"} \subseteq known
    BY <2>1, <2>2 DEF Run, Find
  <2>4. QED BY <1>3, <2>3 DEF Claims
<1>4. CASE j = "database"
  <2> DEFINE plan == DatabaseMigrations \o DatabaseQueries
  <2>1. Plan(j) = plan BY <1>4 DEF Plan
  <2>2. Len(plan) = 9 /\ plan[4] = Run("idempotent", {"schema"})
        /\ plan[5] = Run("dml", {"marker"})
    BY DEF DatabaseMigrations, DatabaseQueries
  <2>3. {"schema"} \subseteq known /\ {"marker"} \subseteq known
    BY <2>1, <2>2, SMTT(30) DEF Run
  <2>4. QED BY <1>4, <2>3 DEF Claims
<1>5. QED BY <1>1, <1>2, <1>3, <1>4 DEF Kept

LEMMA PlanLength ==
  ASSUME NEW j \in Kept
  PROVE  Len(Plan(j)) \in Nat
BY DEF Kept, Plan, RuntimePlan, PythonPlan, NodePlan, DatabaseMigrations, DatabaseQueries

\* What is so of a probe stays so when others act.
LEMMA Untouched ==
  ASSUME NEW p \in Procs, Sound(p),
         UNCHANGED <<job[p], pc[p], at[p], mind[p], runner[p], seen[p], result[p]>>,
         \A b \in box' : b.by = p => b \in box,
         facts["kept"] \subseteq facts'["kept"], "kept" \in vol => "kept" \in vol'
  PROVE  Sound(p)'
<1>1. VerdictTrue(p)' BY DEF Sound, VerdictTrue
<1>2. Behind(p)' BY DEF Sound, Behind, Told
<1>3. RunnerTrue(p)' BY DEF Sound, RunnerTrue, Now
<1>4. SeenKept(p)' BY DEF Sound, SeenKept
<1>5. QED BY <1>1, <1>2, <1>3, <1>4 DEF Sound

\* The next step of the plan, with what it is for; it may turn out badly.
LEMMA GoSound ==
  ASSUME NEW p \in Procs, Typed, Sound(p), pc[p] = "work", at[p] <= Len(Plan(job[p])),
         NEW m \in {"ok", "bad"}, m = "ok" => mind[p] = "ok",
         at' = [at EXCEPT ![p] = @ + 1], mind' = [mind EXCEPT ![p] = m],
         runner'[p] = "none", UNCHANGED <<job, pc, seen, result>>,
         facts["kept"] \subseteq facts'["kept"], "kept" \in vol => "kept" \in vol',
         m = "ok" /\ job[p] \in Kept /\ Now(p).op \in {"run", "find", "app"} =>
           Now(p).facts \subseteq facts'["kept"]
  PROVE  Sound(p)'
<1>1. at'[p] = at[p] + 1 /\ at[p] \in Nat \ {0} /\ mind'[p] = m BY DEF Typed
<1>2. VerdictTrue(p)' BY DEF Sound, VerdictTrue
<1>3. Behind(p)'
  <2>1. PICK n \in Nat \ {0} : at[p] = n BY <1>1
  <2>2. at'[p] = n + 1 /\ at'[p] - 1 = n BY <1>1, <2>1
  <2>3. ASSUME job[p] \in Kept, m = "ok" PROVE Told(p, n)'
    <3>1. Told(p, n - 1) BY <2>1, <2>3 DEF Sound, Behind
    <3>2. \A i \in 1..n : i \in 1..(n - 1) \/ i = n OBVIOUS
    <3>3. QED BY <2>1, <2>3, <3>1, <3>2 DEF Told, Now
  <2>4. job' = job /\ pc'[p] = "work" OBVIOUS
  <2>5. QED BY <1>1, <2>2, <2>3, <2>4 DEF Behind
<1>4. RunnerTrue(p)' /\ SeenKept(p)' BY DEF Sound, RunnerTrue, SeenKept
<1>5. QED BY <1>2, <1>3, <1>4 DEF Sound

\* An exception leaves everything where it is.
LEMMA RaiseSound ==
  ASSUME NEW p \in Procs, Typed, Sound(p), pc[p] = "work",
         NEW m \in {"bad", "raised"}, mind' = [mind EXCEPT ![p] = m],
         \/ runner' = runner \/ runner'[p] = "none",
         UNCHANGED <<job, pc, at, seen, result>>,
         facts["kept"] \subseteq facts'["kept"], "kept" \in vol => "kept" \in vol'
  PROVE  Sound(p)'
<1>1. mind'[p] = m BY DEF Typed
<1>2. VerdictTrue(p)' /\ Behind(p)' BY <1>1 DEF Sound, VerdictTrue, Behind
<1>3. RunnerTrue(p)' BY DEF Sound, RunnerTrue, Now
<1>4. SeenKept(p)' BY DEF Sound, SeenKept
<1>5. QED BY <1>2, <1>3, <1>4 DEF Sound

\* So does the runner of an application, which stores before it is heard of.
LEMMA RunnerSound ==
  ASSUME NEW p \in Procs, Typed, Sound(p), pc[p] = "work", Now(p).op = "app",
         NEW how, runner' = [runner EXCEPT ![p] = how],
         UNCHANGED <<job, pc, at, mind, seen, result>>,
         facts["kept"] \subseteq facts'["kept"], "kept" \in vol => "kept" \in vol',
         how \in {"stored", "written"} /\ job[p] \in Kept => Now(p).facts \subseteq facts'["kept"]
  PROVE  Sound(p)'
<1>1. runner'[p] = how BY DEF Typed
<1>2. VerdictTrue(p)' BY DEF Sound, VerdictTrue
<1>3. Behind(p)' BY DEF Sound, Behind, Told
<1>4. RunnerTrue(p)' BY <1>1 DEF RunnerTrue, Now
<1>5. SeenKept(p)' BY DEF Sound, SeenKept
<1>6. QED BY <1>2, <1>3, <1>4, <1>5 DEF Sound

\* The end of a probe, with a verdict that is true.
LEMMA FinishSound ==
  ASSUME NEW p \in Procs, Typed, NEW r, Finish(p, r),
         r \in {"PASS", "FAIL"} =>
           /\ ~ \E b \in box' : b.by = p /\ b.job = job'[p]
           /\ r = "PASS" => Claims(job'[p]) \subseteq facts'["kept"]
  PROVE  Sound(p)'
<1>1. /\ pc'[p] = "done" /\ result'[p] = r /\ at'[p] = 1 /\ mind'[p] = "ok"
      /\ runner'[p] = "none" /\ seen'[p] = {}
  BY DEF Finish, Typed
<1>2. VerdictTrue(p)' BY <1>1 DEF VerdictTrue
<1>3. Behind(p)' BY <1>1 DEF Behind
<1>4. RunnerTrue(p)' /\ SeenKept(p)' BY <1>1 DEF RunnerTrue, SeenKept
<1>5. QED BY <1>2, <1>3, <1>4 DEF Sound

\* What a step of probe p leaves alone: what the others know, and of docker
\* what was stored for good and whose containers are whose.
Alone(p) ==
  \A q \in Procs \ {p} :
    UNCHANGED <<job[q], pc[q], at[q], mind[q], runner[q], seen[q], result[q]>>
OnlyAdds(p) ==
  /\ facts["kept"] \subseteq facts'["kept"] /\ ("kept" \in vol => "kept" \in vol')
  /\ \A q \in Procs \ {p} : \A b \in box' : b.by = q => b \in box
  /\ DOMAIN facts' = Projects

LEMMA FinishTyped ==
  ASSUME NEW p \in Procs, Typed, NEW r \in {"PASS", "FAIL", "stale", "error", "dead"},
         Finish(p, r), UNCHANGED job, DOMAIN facts' = Projects
  PROVE  Typed' /\ Alone(p)
BY DEF Finish, Typed, Alone

LEMMA EnterTyped ==
  ASSUME NEW p \in Procs, Typed, NEW where \in {"work", "down", "list"}, Enter(p, where),
         UNCHANGED <<job, at, mind, runner>>, DOMAIN facts' = Projects,
         seen' = seen \/ \E x : seen' = [seen EXCEPT ![p] = x]
  PROVE  Typed' /\ Alone(p)
BY DEF Enter, Typed, Alone

LEMMA GoTyped ==
  ASSUME NEW p \in Procs, Typed, NEW m \in {"ok", "bad", "raised"},
         mind' = [mind EXCEPT ![p] = m], DOMAIN facts' = Projects,
         at' = at \/ at' = [at EXCEPT ![p] = @ + 1],
         runner' = runner \/ runner' = [runner EXCEPT ![p] = "none"],
         UNCHANGED <<job, pc, seen, result>>
  PROVE  Typed' /\ Alone(p)
BY DEF Typed, Alone

LEMMA RunnerTyped ==
  ASSUME NEW p \in Procs, Typed, NEW how \in {"started", "stored", "written", "failed"},
         runner' = [runner EXCEPT ![p] = how], DOMAIN facts' = Projects,
         UNCHANGED <<job, pc, at, mind, seen, result>>
  PROVE  Typed' /\ Alone(p)
BY DEF Typed, Alone

\* Judging keeps to what a probe may have in mind.
LEMMA Judged ==
  ASSUME NEW p \in Procs, Typed, NEW passed
  PROVE  Judge(p, passed) \in {"ok", "bad", "raised"} /\ mind[p] \in {"ok", "bad", "raised"}
BY DEF Judge, Typed

\* The steps of a plan, whatever they come to.
PlanStep(p) ==
  \/ ComposeUp(p) \/ CreateUp(p) \/ AwaitHealth(p) \/ StopOrRestart(p) \/ Launch(p) \/ Detach(p)
  \/ RemoveCreated(p) \/ AppendVectors(p) \/ Inspect(p) \/ RunRefused(p)

\* The next step is gone to, good only if it did what it is for.
Goes(p, m) ==
  /\ Go(p, m)
  /\ m = "ok" => /\ mind[p] = "ok"
                 /\ job[p] \in Kept /\ Now(p).op \in {"run", "find", "app"} =>
                      Now(p).facts \subseteq facts'["kept"]

LEMMA Added ==
  ASSUME Typed, NEW w, NEW fs, facts' = [facts EXCEPT ![w] = @ \cup fs]
  PROVE  /\ facts["kept"] \subseteq facts'["kept"] /\ DOMAIN facts' = Projects
         /\ w = "kept" => fs \subseteq facts'["kept"]
<1>1. "kept" \in DOMAIN facts BY DEF Typed, Projects
<1>2. QED BY <1>1 DEF Typed

LEMMA PlanSteps ==
  ASSUME NEW p \in Procs, Typed, PlanStep(p)
  PROVE  /\ OnlyAdds(p)
         /\ pc[p] = "work" /\ at[p] <= Len(Plan(job[p])) /\ Now(p).op # "app"
         /\ Raise(p) \/ \E m \in {"ok", "bad"} : Goes(p, m)
<1> DEFINE other == pc[p] = "work" /\ at[p] <= Len(Plan(job[p])) /\ Now(p).op # "app"
           plain == Now(p).op \notin {"run", "find", "app"}
<1> USE DEF OnlyAdds, Box, Typed
<1>1. mind[p] \in {"ok", "bad", "raised"} OBVIOUS
<1>2. ASSUME NEW ops, Working(p, ops), "app" \notin ops PROVE other
  BY <1>2 DEF Working
<1>3. ASSUME NEW ops, Working(p, ops), {"run", "find", "app"} \cap ops = {}, Go(p, mind[p])
      PROVE  \E m \in {"ok", "bad"} : Goes(p, m)
  BY <1>1, <1>3 DEF Working, Goes
<1>4. ASSUME NEW ops, Working(p, ops), {"run", "find", "app"} \cap ops = {},
             NEW passed, Go(p, Judge(p, passed))
      PROVE  \E m \in {"ok", "bad"} : Goes(p, m)
  <2>1. Judge(p, passed) \in {"ok", "bad"} BY <1>1, <1>4 DEF Judge, Working
  <2>2. Judge(p, passed) = "ok" => mind[p] = "ok" BY DEF Judge
  <2>3. QED BY <1>4, <2>1, <2>2 DEF Working, Goes
<1>5. CASE ComposeUp(p)
  <2>1. OnlyAdds(p) /\ Working(p, {"up"}) /\ Go(p, mind[p]) BY <1>5 DEF ComposeUp
  <2>2. QED BY <1>2, <1>3, <2>1
<1>6. CASE CreateUp(p)
  <2>1. OnlyAdds(p) /\ Working(p, {"create"}) /\ (Raise(p) \/ Go(p, mind[p]))
    BY <1>6 DEF CreateUp, docker
  <2>2. QED BY <1>2, <1>3, <2>1
<1>7. CASE AwaitHealth(p)
  <2>1. OnlyAdds(p) /\ Working(p, {"wait"}) /\ (Raise(p) \/ Go(p, mind[p]))
    BY <1>7 DEF AwaitHealth, docker
  <2>2. QED BY <1>2, <1>3, <2>1
<1>8. CASE StopOrRestart(p)
  <2>1. OnlyAdds(p) /\ Working(p, {"stop", "restart"}) /\ (Raise(p) \/ Go(p, mind[p]))
    BY <1>8 DEF StopOrRestart, docker
  <2>2. QED BY <1>2, <1>3, <2>1
<1>9. CASE Launch(p)
  <2> DEFINE n == Now(p).name
             works == Free(p, n) /\ (Healthy(p) \/ job[p] = "runtime")
             passed == Now(p).op = "find" => Matches(p)
  <2>1. Working(p, {"run", "find", "cancel"}) BY <1>9 DEF Launch
  <2>2. facts' = (IF works /\ Now(p).op = "run"
                  THEN [facts EXCEPT ![Where(p)] = @ \cup Now(p).facts] ELSE facts)
    BY <1>9 DEF Launch
  <2>3. /\ facts["kept"] \subseteq facts'["kept"] /\ DOMAIN facts' = Projects
        /\ works /\ Now(p).op = "run" /\ Where(p) = "kept" => Now(p).facts \subseteq facts'["kept"]
    BY <2>2, Added
  <2>4. vol' = vol /\ (box' = box \/ box' = box \cup {Box(p, n)}) BY <1>9 DEF Launch
  <2>5. OnlyAdds(p) BY <2>3, <2>4
  <2>6. Raise(p) \/ (works /\ Go(p, Judge(p, passed))) BY <1>9 DEF Launch
  <2>7. ASSUME works, Go(p, Judge(p, passed)) PROVE \E m \in {"ok", "bad"} : Goes(p, m)
    <3>1. Judge(p, passed) \in {"ok", "bad"} BY <1>1, <2>1 DEF Judge, Working
    <3>2. Judge(p, passed) = "ok" => mind[p] = "ok" /\ passed BY DEF Judge
    <3>3. job[p] \in Kept => Where(p) = "kept" BY DEF Where, Project
    <3>4. job[p] \in Kept /\ passed /\ Now(p).op = "find" => Now(p).facts \subseteq facts'["kept"]
      BY <2>3 DEF Matches
    <3>5. Now(p).op # "app" BY <2>1 DEF Working
    <3>6. QED BY <2>3, <2>7, <3>1, <3>2, <3>3, <3>4, <3>5 DEF Goes
  <2>8. QED BY <1>2, <2>1, <2>5, <2>6, <2>7
<1>10. CASE Detach(p)
  <2>1. OnlyAdds(p) /\ Working(p, {"spawn"}) /\ (Raise(p) \/ Go(p, mind[p]))
    BY <1>10 DEF Detach
  <2>2. QED BY <1>2, <1>3, <2>1
<1>11. CASE RemoveCreated(p)
  <2>1. OnlyAdds(p) /\ Working(p, {"remove"}) /\ Go(p, mind[p])
    BY <1>11 DEF RemoveCreated
  <2>2. QED BY <1>2, <1>3, <2>1
<1>12. CASE AppendVectors(p)
  <2>1. Working(p, {"record"}) /\ (Raise(p) \/ Go(p, mind[p])) BY <1>12 DEF AppendVectors
  <2>2. /\ UNCHANGED <<box, vol>>
        /\ facts' = facts \/ facts' = [facts EXCEPT ![Where(p)] = @ \cup Now(p).facts]
    BY <1>12 DEF AppendVectors
  <2>3. OnlyAdds(p) BY <2>2, Added
  <2>4. QED BY <1>2, <1>3, <2>1, <2>3
<1>13. CASE Inspect(p)
  <2>1. Working(p, {"stream", "count", "sole"}) /\ \E passed : Go(p, Judge(p, passed))
    BY <1>13 DEF Inspect
  <2>2. OnlyAdds(p) BY <1>13 DEF Inspect, docker
  <2>3. QED BY <1>2, <1>4, <2>1, <2>2
<1>14. CASE RunRefused(p)
  <2>1. Working(p, {"refused", "outage"}) /\ \E passed : Go(p, Judge(p, passed))
    BY <1>14 DEF RunRefused
  <2>2. /\ box' = box \/ box' = box \cup {Box(p, Now(p).name)}
        /\ vol' = vol
        /\ facts' = facts \/ facts' = [facts EXCEPT ![Where(p)] = @ \cup Now(p).facts]
    BY <1>14 DEF RunRefused
  <2>3. facts["kept"] \subseteq facts'["kept"] /\ DOMAIN facts' = Projects BY <2>2, Added
  <2>4. \A b \in box' : b \in box \/ b.by = p BY <2>2
  <2>5. OnlyAdds(p) BY <2>2, <2>3, <2>4
  <2>6. QED BY <1>2, <1>4, <2>1, <2>5
<1>15. QED
  BY <1>5, <1>6, <1>7, <1>8, <1>9, <1>10, <1>11, <1>12, <1>13, <1>14 DEF PlanStep

LEMMA PlanStepTyped ==
  ASSUME NEW p \in Procs, Typed, PlanStep(p)
  PROVE  Typed' /\ Alone(p)
<1>1. DOMAIN facts' = Projects BY PlanSteps DEF OnlyAdds
<1>2. CASE Raise(p) BY <1>1, <1>2, GoTyped DEF Raise
<1>3. CASE \E m \in {"ok", "bad"} : Goes(p, m) BY <1>1, <1>3, GoTyped DEF Go, Goes
<1>4. QED BY <1>2, <1>3, PlanSteps

LEMMA DownAdds ==
  ASSUME NEW p \in Procs, Typed, Down(p)
  PROVE  OnlyAdds(p)
<1>1. DropsVolume(job[p]) => Where(p) # "kept" BY DEF DropsVolume, Where, Project
<1>2. box' \subseteq box BY DEF Down
<1>3. CASE DropsVolume(job[p])
  <2>1. vol' = vol \ {Where(p)} /\ facts' = [facts EXCEPT ![Where(p)] = {}] BY <1>3 DEF Down
  <2>2. facts'["kept"] = facts["kept"] /\ DOMAIN facts' = Projects
    BY <1>1, <1>3, <2>1 DEF Typed, Projects
  <2>3. QED BY <1>1, <1>2, <1>3, <2>1, <2>2 DEF OnlyAdds
<1>4. CASE ~DropsVolume(job[p])
  BY <1>2, <1>4 DEF Down, OnlyAdds, Typed
<1>5. QED BY <1>3, <1>4

LEMMA OnlyItself ==
  ASSUME NEW p \in Procs, Typed, ProbeStep(p)
  PROVE  Typed' /\ Alone(p) /\ OnlyAdds(p)
<1> DEFINE Aim == Typed' /\ Alone(p) /\ OnlyAdds(p)
<1>1. ASSUME UNCHANGED docker PROVE OnlyAdds(p)
  BY <1>1 DEF docker, OnlyAdds, Typed
<1>2. ASSUME NEW j \in Surface, Begin(p, j) PROVE Aim
  <2>1. OnlyAdds(p) /\ DOMAIN facts' = Projects BY <1>1, <1>2 DEF Begin, OnlyAdds
  <2>2. job' = [job EXCEPT ![p] = j] BY <1>2 DEF Begin
  <2>3. CASE Finish(p, "error") BY <2>1, <2>2, <2>3 DEF Finish, Typed, Alone
  <2>4. CASE ~Finish(p, "error") BY <1>2, <2>1, <2>2, <2>4 DEF Begin, Typed, Alone
  <2>5. QED BY <2>3, <2>4
<1>3. CASE Look(p)
  <2>1. OnlyAdds(p) /\ DOMAIN facts' = Projects BY <1>1, <1>3 DEF Look, OnlyAdds
  <2>2. UNCHANGED job BY <1>3 DEF Look
  <2>3. CASE Finish(p, "stale") BY <2>1, <2>2, <2>3, FinishTyped
  <2>4. CASE ~Finish(p, "stale") BY <1>3, <2>1, <2>2, <2>4, EnterTyped DEF Look
  <2>5. QED BY <2>3, <2>4
<1>4. CASE PlanStep(p) BY <1>4, PlanSteps, PlanStepTyped
<1>5. CASE StartRunner(p) \/ RunnerStores(p) \/ RunnerWrites(p) \/ RunnerFails(p)
  <2> USE DEF OnlyAdds, Typed
  <2>1. OnlyAdds(p)
    <3>1. CASE StartRunner(p) BY <3>1 DEF StartRunner, Box
    <3>2. CASE RunnerStores(p) BY <3>2, Added DEF RunnerStores, RunnerStep
    <3>3. CASE RunnerWrites(p) BY <3>3 DEF RunnerWrites, RunnerStep
    <3>4. CASE RunnerFails(p) BY <3>4 DEF RunnerFails, docker
    <3>5. QED BY <1>5, <3>1, <3>2, <3>3, <3>4
  <2>2. /\ UNCHANGED <<job, pc, at, mind, seen, result>>
        /\ \E how \in {"started", "stored", "written", "failed"} :
             runner' = [runner EXCEPT ![p] = how]
    BY <1>5 DEF StartRunner, RunnerStores, RunnerWrites, RunnerFails, RunnerStep
  <2>3. QED BY <2>1, <2>2, RunnerTyped DEF OnlyAdds
<1>6. CASE JudgeRunner(p)
  <2>1. OnlyAdds(p) /\ DOMAIN facts' = Projects BY <1>1, <1>6 DEF JudgeRunner, OnlyAdds
  <2>2. /\ runner' = [runner EXCEPT ![p] = "none"] /\ UNCHANGED <<job, pc, seen, result>>
        /\ at' = at \/ at' = [at EXCEPT ![p] = @ + 1]
        /\ \E m \in {"raised", Judge(p, runner[p] = "written")} : mind' = [mind EXCEPT ![p] = m]
    BY <1>6 DEF JudgeRunner
  <2>3. QED BY <2>1, <2>2, Judged, GoTyped
<1>7. CASE Sweep(p) \/ SweepFails(p)
  <2>1. OnlyAdds(p) /\ DOMAIN facts' = Projects
    BY <1>7 DEF Sweep, SweepFails, OnlyAdds, Typed
  <2>2. UNCHANGED job BY <1>7 DEF Sweep, SweepFails
  <2>3. CASE Finish(p, "error") BY <2>1, <2>2, <2>3, FinishTyped
  <2>4. CASE Enter(p, "down") /\ UNCHANGED <<at, mind, runner, seen>>
    BY <2>1, <2>2, <2>4, EnterTyped
  <2>5. QED BY <1>7, <2>3, <2>4 DEF Sweep, SweepFails, Knowledge
<1>8. ASSUME NEW clean, Leave(p, clean), UNCHANGED job, DOMAIN facts' = Projects
      PROVE  Typed' /\ Alone(p)
  BY <1>8, FinishTyped, EnterTyped DEF Leave
<1>9. CASE Down(p)
  BY <1>8, <1>9, DownAdds DEF Down, OnlyAdds
<1>10. CASE DownFails(p)
  <2>1. OnlyAdds(p) /\ DOMAIN facts' = Projects /\ UNCHANGED job
    BY <1>1, <1>10 DEF DownFails, OnlyAdds
  <2>2. QED BY <1>8, <1>10, <2>1, FinishTyped DEF DownFails
<1>11. CASE List(p) \/ Die(p)
  <2>1. OnlyAdds(p) /\ DOMAIN facts' = Projects /\ UNCHANGED job
    BY <1>1, <1>11 DEF List, Die, OnlyAdds
  <2>2. \E r \in {"PASS", "FAIL", "error", "dead"} : Finish(p, r)
    BY <1>11 DEF List, Die
  <2>3. QED BY <2>1, <2>2, FinishTyped
<1>12. CASE Fault(p)
  <2>1. OnlyAdds(p) /\ DOMAIN facts' = Projects BY <1>1, <1>12 DEF Fault, OnlyAdds
  <2>2. QED BY <1>12, <2>1, GoTyped DEF Fault
<1>13. QED
  BY <1>2, <1>3, <1>4, <1>5, <1>6, <1>7, <1>9, <1>10, <1>11, <1>12
     DEF ProbeStep, Act, Mishap, PlanStep

\* A step of the plan keeps what is so of its probe.
LEMMA PlanStepSound ==
  ASSUME NEW p \in Procs, Typed, Sound(p), PlanStep(p)
  PROVE  Sound(p)'
<1>1. /\ OnlyAdds(p)
      /\ pc[p] = "work" /\ at[p] <= Len(Plan(job[p])) /\ Now(p).op # "app"
      /\ Raise(p) \/ \E m \in {"ok", "bad"} : Goes(p, m)
  BY PlanSteps
<1>2. runner[p] = "none" BY <1>1 DEF Sound, RunnerTrue
<1>3. CASE Raise(p)
  BY <1>1, <1>3, RaiseSound DEF Raise, OnlyAdds
<1>4. ASSUME NEW m \in {"ok", "bad"}, Goes(p, m) PROVE Sound(p)'
  BY <1>1, <1>2, <1>4, GoSound DEF Goes, Go, OnlyAdds
<1>5. QED BY <1>1, <1>3, <1>4

\* So do the steps of a runner and of the probe that waits for it.
LEMMA RunnerSteps ==
  ASSUME NEW p \in Procs, Typed, Sound(p), OnlyAdds(p),
         StartRunner(p) \/ RunnerStores(p) \/ RunnerWrites(p) \/ RunnerFails(p)
  PROVE  Sound(p)'
<1> USE DEF OnlyAdds
<1>1. CASE StartRunner(p)
  <2>1. PICK how \in {"started", "failed"} : runner' = [runner EXCEPT ![p] = how]
    BY <1>1 DEF StartRunner
  <2>2. pc[p] = "work" /\ Now(p).op = "app" /\ UNCHANGED <<job, pc, at, mind, seen, result>>
    BY <1>1 DEF StartRunner, Working
  <2>3. QED BY <2>1, <2>2, RunnerSound
<1>2. CASE RunnerStores(p)
  <2>1. /\ pc[p] = "work" /\ Now(p).op = "app" /\ UNCHANGED <<job, pc, at, mind, seen, result>>
        /\ runner' = [runner EXCEPT ![p] = "stored"]
        /\ facts' = [facts EXCEPT ![Where(p)] = @ \cup Now(p).facts]
    BY <1>2 DEF RunnerStores, RunnerStep, Working
  <2>2. job[p] \in Kept => Where(p) = "kept" BY DEF Where, Project
  <2>3. job[p] \in Kept => Now(p).facts \subseteq facts'["kept"] BY <2>1, <2>2, Added
  <2>4. QED BY <2>1, <2>3, RunnerSound
<1>3. CASE RunnerWrites(p)
  <2>1. /\ pc[p] = "work" /\ Now(p).op = "app" /\ UNCHANGED <<job, pc, at, mind, seen, result>>
        /\ runner' = [runner EXCEPT ![p] = "written"] /\ runner[p] = "stored"
        /\ facts' = facts
    BY <1>3 DEF RunnerWrites, RunnerStep, Working
  <2>2. job[p] \in Kept => Now(p).facts \subseteq facts'["kept"]
    BY <2>1 DEF Sound, RunnerTrue
  <2>3. QED BY <2>1, <2>2, RunnerSound
<1>4. CASE RunnerFails(p)
  <2>1. /\ pc[p] = "work" /\ Now(p).op = "app" /\ UNCHANGED <<job, pc, at, mind, seen, result>>
        /\ runner' = [runner EXCEPT ![p] = "failed"]
    BY <1>4 DEF RunnerFails, Working
  <2>2. QED BY <2>1, RunnerSound
<1>5. QED BY <1>1, <1>2, <1>3, <1>4

LEMMA JudgeRunnerSound ==
  ASSUME NEW p \in Procs, Typed, Sound(p), OnlyAdds(p), JudgeRunner(p)
  PROVE  Sound(p)'
<1>1. /\ pc[p] = "work" /\ mind[p] # "raised" /\ at[p] <= Len(Plan(job[p]))
      /\ runner[p] \in {"written", "failed"} /\ runner'[p] = "none"
      /\ UNCHANGED <<docker, job, pc, seen, result>>
  BY DEF JudgeRunner, Working, Typed
<1>2. facts' = facts BY <1>1 DEF docker
<1>3. CASE Alive(p)
  <2> DEFINE m == Judge(p, runner[p] = "written")
  <2>1. m \in {"ok", "bad"} BY <1>1 DEF Judge, Typed
  <2>2. m = "ok" => mind[p] = "ok" /\ runner[p] = "written" BY DEF Judge
  <2>3. m = "ok" /\ job[p] \in Kept => Now(p).facts \subseteq facts'["kept"]
    BY <1>2, <2>2 DEF Sound, RunnerTrue
  <2>4. at' = [at EXCEPT ![p] = @ + 1] /\ mind' = [mind EXCEPT ![p] = m]
    BY <1>3 DEF JudgeRunner
  <2> HIDE DEF m
  <2>5. QED BY <1>1, <2>1, <2>2, <2>3, <2>4, GoSound DEF OnlyAdds
<1>4. CASE ~Alive(p)
  BY <1>1, <1>4, RaiseSound DEF JudgeRunner, OnlyAdds
<1>5. QED BY <1>3, <1>4

\* A probe goes on from its look only if nothing is there but the protected volume.
LEMMA LookSound ==
  ASSUME NEW p \in Procs, Typed, Sound(p), Look(p)
  PROVE  Sound(p)'
<1>1. CASE Stale(job[p])
  BY <1>1, FinishSound DEF Look
<1>2. CASE ~Stale(job[p])
  <2>1. /\ pc[p] = "look" /\ pc' = [pc EXCEPT ![p] = "work"]
        /\ seen' = [seen EXCEPT ![p] = Existing(Where(p))]
        /\ UNCHANGED <<docker, job, at, mind, runner, result>>
    BY <1>2 DEF Look, Enter
  <2>2. pc'[p] = "work" /\ seen'[p] = Existing(Where(p)) BY <2>1 DEF Typed
  <2>3. ~Containers(Where(p)) /\ Where(p) \notin net /\ ~StaleVolume(job[p])
    BY <1>2 DEF Stale, Where
  <2>4. Where(p) \in Listed(Where(p)) BY DEF Listed
  <2>5. db[Where(p)].st = "none" /\ ~ \E b \in box : Project(b.job) = Where(p)
    BY <2>3, <2>4 DEF Containers
  <2>6. Existing(Where(p)) \subseteq {<<"vol", y>> : y \in vol \cap {Where(p)}}
    BY <2>3, <2>5 DEF Existing
  <2>7. Existing(Where(p)) # {} => job[p] \in Kept /\ Where(p) = "kept" /\ "kept" \in vol
    BY <2>3, <2>6 DEF StaleVolume, Where, Project, Kept
  <2>8. SeenKept(p)' BY <2>1, <2>2, <2>6, <2>7 DEF SeenKept, docker
  <2>9. VerdictTrue(p)' BY <2>2 DEF VerdictTrue
  <2>10. at[p] = 1 BY <2>1 DEF Sound, Behind
  <2>11. Behind(p)' BY <2>1, <2>2, <2>10 DEF Behind, Told
  <2>12. RunnerTrue(p)' BY <2>1 DEF Sound, RunnerTrue, Now, docker
  <2>13. QED BY <2>8, <2>9, <2>11, <2>12 DEF Sound
<1>3. QED BY <1>1, <1>2

LEMMA BeginSound ==
  ASSUME NEW p \in Procs, NEW j \in Surface, Typed, Sound(p), Begin(p, j)
  PROVE  Sound(p)'
<1>1. CASE Finish(p, "error") BY <1>1, FinishSound
<1>2. CASE ~Finish(p, "error")
  <2>1. /\ pc[p] = "done" /\ pc'[p] = "look" /\ UNCHANGED <<docker, at, mind, runner, seen>>
    BY <1>2 DEF Begin, Typed
  <2>2. at[p] = 1 /\ runner[p] = "none" /\ seen[p] = {}
    BY <2>1 DEF Sound, Behind, SeenKept
  <2>3. QED BY <2>1, <2>2 DEF Sound, VerdictTrue, Behind, RunnerTrue, SeenKept
<1>3. QED BY <1>1, <1>2

\* On the way from the plan to the list, nothing is claimed.
LEMMA MovesSound ==
  ASSUME NEW p \in Procs, Typed, Sound(p), OnlyAdds(p),
         NEW where \in {"down", "list"}, Enter(p, where),
         Over(p) \/ (pc[p] = "down" /\ mind[p] # "raised"),
         UNCHANGED <<job, at, mind, runner, seen>>
  PROVE  Sound(p)'
<1>1. pc'[p] = where /\ pc[p] # "done" /\ pc[p] # "look" BY DEF Enter, Over, Typed
<1>2. VerdictTrue(p)' BY <1>1 DEF VerdictTrue
<1>3. Behind(p)'
  <2>1. mind[p] # "raised" => at[p] > Len(Plan(job[p])) BY DEF Over, Sound, Behind
  <2>2. job[p] \in Kept /\ mind[p] = "ok" => Told(p, at[p] - 1)
    BY DEF Over, Sound, Behind
  <2>3. job[p] \in Kept /\ mind[p] = "ok" => Told(p, at[p] - 1)'
    BY <2>2 DEF Told, OnlyAdds
  <2>4. QED BY <1>1, <2>1, <2>3 DEF Behind
<1>4. RunnerTrue(p)' BY DEF Sound, RunnerTrue, Now, OnlyAdds
<1>5. SeenKept(p)' BY <1>1 DEF Sound, SeenKept, OnlyAdds
<1>6. QED BY <1>2, <1>3, <1>4, <1>5 DEF Sound

LEMMA LeaveSound ==
  ASSUME NEW p \in Procs, Typed, Sound(p), OnlyAdds(p), NEW clean, Leave(p, clean),
         pc[p] = "down", UNCHANGED job
  PROVE  Sound(p)'
<1>1. CASE mind[p] = "raised" BY <1>1, FinishSound DEF Leave
<1>2. CASE mind[p] # "raised" BY <1>2, MovesSound DEF Leave
<1>3. QED BY <1>1, <1>2

\* A verdict is given when nothing is left, and PASS after the whole plan.
LEMMA ListSound ==
  ASSUME NEW p \in Procs, Typed, Sound(p), List(p)
  PROVE  Sound(p)'
<1> DEFINE clear == IF job[p] \in Kept THEN KeptTornDown(p) ELSE OwnTornDown(p) /\ CustodyKept(p)
           r == IF ~clear THEN "error" ELSE IF mind[p] = "ok" THEN "PASS" ELSE "FAIL"
<1>1. pc[p] = "list" /\ Finish(p, r) /\ UNCHANGED <<docker, job>> BY DEF List
<1>2. box' = box /\ facts' = facts BY <1>1 DEF docker
<1>3. ASSUME clear PROVE ~ \E b \in box : b.by = p /\ b.job = job[p]
  <2>1. ~Containers(Where(p)) BY <1>3 DEF KeptTornDown, OwnTornDown, Where, Project
  <2>2. \A b \in box : Project(b.job) # Where(p) BY <2>1 DEF Containers, Listed
  <2>3. QED BY <2>2 DEF Where
<1>4. ASSUME clear, mind[p] = "ok" PROVE Claims(job[p]) \subseteq facts["kept"]
  <2>1. CASE job[p] \in Kept
    <3>1. Told(p, at[p] - 1) /\ at[p] > Len(Plan(job[p])) BY <1>1, <1>4, <2>1 DEF Sound, Behind
    <3>2. PICK n \in Nat : n = at[p] - 1 BY DEF Typed
    <3>3. Len(Plan(job[p])) \in Nat
      BY <2>1, PlanLength
    <3>4. \A i \in 1..Len(Plan(job[p])) : i \in 1..n BY <3>1, <3>2, <3>3 DEF Typed
    <3>5. QED BY <2>1, <3>1, <3>2, <3>4, PlansClaim DEF Told
  <2>2. CASE job[p] \notin Kept BY <2>2 DEF Claims, Kept
  <2>3. QED BY <2>1, <2>2
<1>5. r \in {"PASS", "FAIL"} => clear /\ (r = "PASS" => mind[p] = "ok") OBVIOUS
<1> HIDE DEF clear, r
<1>6. QED BY <1>1, <1>2, <1>3, <1>4, <1>5, FinishSound


LEMMA ProbeSound ==
  ASSUME NEW p \in Procs, Typed, Sound(p), ProbeStep(p)
  PROVE  Sound(p)'
<1>1. OnlyAdds(p) BY OnlyItself
<1>2. CASE PlanStep(p) BY <1>2, PlanStepSound
<1>3. CASE StartRunner(p) \/ RunnerStores(p) \/ RunnerWrites(p) \/ RunnerFails(p)
  BY <1>1, <1>3, RunnerSteps
<1>4. CASE JudgeRunner(p) BY <1>1, <1>4, JudgeRunnerSound
<1>5. CASE Look(p) BY <1>5, LookSound
<1>6. ASSUME NEW j \in Surface, Begin(p, j) PROVE Sound(p)' BY <1>6, BeginSound
<1>7. CASE Sweep(p)
  BY <1>1, <1>7, MovesSound DEF Sweep, Knowledge
<1>8. CASE SweepFails(p)
  <2>1. CASE Finish(p, "error") BY <2>1, FinishSound
  <2>2. CASE Enter(p, "down") /\ UNCHANGED <<at, mind, runner, seen>>
    BY <1>1, <1>8, <2>2, MovesSound DEF SweepFails
  <2>3. QED BY <1>8, <2>1, <2>2 DEF SweepFails
<1>9. CASE Down(p) BY <1>1, <1>9, LeaveSound DEF Down
<1>10. CASE DownFails(p)
  <2>1. CASE Finish(p, "error") BY <2>1, FinishSound
  <2>2. CASE Leave(p, FALSE) BY <1>1, <1>10, <2>2, LeaveSound DEF DownFails
  <2>3. QED BY <1>10, <2>1, <2>2 DEF DownFails
<1>11. CASE List(p) BY <1>11, ListSound
<1>12. CASE Die(p) BY <1>12, FinishSound DEF Die
<1>13. CASE Fault(p)
  BY <1>1, <1>13, RaiseSound DEF Fault, OnlyAdds
<1>14. QED
  BY <1>2, <1>3, <1>4, <1>5, <1>6, <1>7, <1>8, <1>9, <1>10, <1>11, <1>12, <1>13
     DEF ProbeStep, Act, Mishap, PlanStep

\* A probe is what it was called for until it is done.
LEMMA JobStays ==
  ASSUME NEW p \in Procs, Typed, ProbeStep(p), pc[p] # "done"
  PROVE  job' = job
<1>1. CASE PlanStep(p) BY <1>1, PlanSteps DEF Raise, Goes, Go
<1>2. CASE StartRunner(p) \/ RunnerStores(p) \/ RunnerWrites(p) \/ RunnerFails(p) \/ JudgeRunner(p)
  BY <1>2 DEF StartRunner, RunnerStores, RunnerWrites, RunnerFails, RunnerStep, JudgeRunner
<1>3. CASE Look(p) \/ Sweep(p) \/ Down(p) \/ List(p) \/ Mishap(p)
  BY <1>3 DEF Look, Sweep, Down, List, Mishap, Fault, SweepFails, DownFails, Die
<1>4. ~ \E j \in Surface : Begin(p, j) BY DEF Begin
<1>5. QED BY <1>1, <1>2, <1>3, <1>4 DEF ProbeStep, Act, Mishap, PlanStep

\* A step of one probe keeps what is so of every probe.
LEMMA ProbeKeeps ==
  ASSUME NEW p \in Procs, ProbesInv, ProbeStep(p)
  PROVE  ProbesInv'
<1>1. Typed' /\ Alone(p) /\ OnlyAdds(p) BY OnlyItself DEF ProbesInv
<1>2. Sound(p)' BY ProbeSound DEF ProbesInv
<1>3. ASSUME NEW q \in Procs \ {p} PROVE Sound(q)'
  <2>1. UNCHANGED <<job[q], pc[q], at[q], mind[q], runner[q], seen[q], result[q]>>
    BY <1>1 DEF Alone
  <2>2. /\ \A b \in box' : b.by = q => b \in box
        /\ facts["kept"] \subseteq facts'["kept"] /\ ("kept" \in vol => "kept" \in vol')
    BY <1>1 DEF OnlyAdds
  <2>3. Sound(q) BY DEF ProbesInv
  <2>4. QED BY <2>1, <2>2, <2>3, Untouched
<1>4. QED BY <1>1, <1>2, <1>3 DEF ProbesInv

\* What concerns no probe: the databases, the identities, the composite itself.
LEMMA ElsewhereKeeps ==
  ASSUME ProbesInv, UNCHANGED <<box, vol, facts, probe>>
  PROVE  ProbesInv'
<1>1. UNCHANGED <<job, pc, at, mind, runner, seen, result>> BY DEF probe
<1>2. Typed' BY <1>1 DEF ProbesInv, Typed
<1>3. ASSUME NEW p \in Procs PROVE Sound(p)'
  BY <1>1, Untouched DEF ProbesInv
<1>4. QED BY <1>2, <1>3 DEF ProbesInv

LEMMA ProbesInit ==
  Init => ProbesInv
<1> SUFFICES ASSUME Init PROVE ProbesInv
  OBVIOUS
<1>1. Typed BY DEF Init, Typed, Surface, Kept
<1>2. ASSUME NEW p \in Procs PROVE Sound(p)
  BY DEF Init, Sound, VerdictTrue, Behind, RunnerTrue, SeenKept
<1>3. QED BY <1>1, <1>2 DEF ProbesInv

\* What a step of a whole host is: of one probe, or of none.
LEMMA HostStep ==
  ASSUME IInv, [CompositeNext]_allVars
  PROVE  \/ UNCHANGED <<box, vol, facts, probe>>
         \/ \E p \in Procs : ProbeStep(p)
<1>1. CASE StartChild
  <2>1. done \in Nat BY DEF IInv
  <2>2. (done % 5) + 1 \in 1..5 BY <2>1
  <2>3. Stage \in Surface
    BY <1>1, <2>2 DEF StartChild, Stage, STAGE_ORDER, Surface, Scratch
  <2>4. QED BY <1>1, <2>3, CompositeAssumption DEF StartChild, ProbeStep
<1>2. CASE Probes
  <2>1. ASSUME NEW p \in Procs, Act(p) \/ Mishap(p) PROVE ProbeStep(p)
    BY <2>1 DEF ProbeStep
  <2>2. ASSUME NEW p \in Procs, NEW j \in Jobs[p], Call(p, j) PROVE ProbeStep(p)
    BY <2>2, JobsAssumption DEF ProbeStep, Call
  <2>3. CASE Elsewhere BY <2>3 DEF Elsewhere, Replace, BecomeHealthy, docker
  <2>4. QED BY <1>2, <2>1, <2>2, <2>3 DEF Probes
<1>3. CASE Start BY <1>3 DEF Start, docker
<1>4. CASE UNCHANGED vars BY <1>4 DEF vars, docker
<1>5. CASE CompositeAct /\ ~StartChild
  BY <1>5 DEF CompositeAct, BeforeStage, ReceiptStage, HearChild, AfterStage, EndCycle,
              CompareCycles, LastBoundary, ReportFailure, vars, docker
<1>6. QED BY <1>1, <1>2, <1>3, <1>4, <1>5 DEF CompositeNext, allVars

LEMMA ProbesInvariant == CompositeSpec => []ProbesInv
<1>1. CompositeInit => ProbesInv BY ProbesInit DEF CompositeInit
<1>2. IInv /\ ProbesInv /\ [CompositeNext]_allVars => ProbesInv'
  BY HostStep, ProbeKeeps, ElsewhereKeeps
<1>3. QED BY <1>1, <1>2, Invariant, PTL DEF CompositeSpec

\* A probe that reports a verdict left no container behind, for any number of
\* probes of any kinds, beside the composite or as its children.
THEOREM VerdictClean == CompositeSpec => []VerdictMeansClean
<1>1. ProbesInv => VerdictMeansClean
  BY DEF ProbesInv, Sound, VerdictTrue, VerdictMeansClean
<1>2. QED BY <1>1, ProbesInvariant, PTL

\* What a probe on the protected volume passed for stays in that volume,
\* whatever other probes do and however they end.
THEOREM PassStored == CompositeSpec => []PassIsStored
<1>1. ProbesInv => PassIsStored
  BY DEF ProbesInv, Sound, VerdictTrue, PassIsStored
<1>2. QED BY <1>1, ProbesInvariant, PTL

\* No probe removes what it found when it looked for leftovers.
THEOREM FoundStays == CompositeSpec => FoundIsKept
<1>1. ProbesInv /\ IInv /\ [CompositeNext]_allVars =>
        [\A p \in Procs :
           <<pc[p], at[p], mind[p]>> # <<pc'[p], at'[p], mind'[p]>> =>
             seen[p] \subseteq Existing(Where(p))']_vars
  <2> SUFFICES ASSUME ProbesInv, IInv, [CompositeNext]_allVars, NEW p \in Procs,
                      <<pc[p], at[p], mind[p]>> # <<pc'[p], at'[p], mind'[p]>>
               PROVE  seen[p] \subseteq Existing(Where(p))'
    OBVIOUS
  <2>1. PICK q \in Procs : ProbeStep(q) BY HostStep DEF probe
  <2>2. Typed' /\ Alone(q) /\ OnlyAdds(q) BY <2>1, OnlyItself DEF ProbesInv
  <2>3. q = p BY <2>2 DEF Alone
  <2>4. seen[p] \subseteq {<<"vol", "kept">>}
        /\ (seen[p] # {} => pc[p] # "done" /\ job[p] \in Kept /\ "kept" \in vol)
    BY DEF ProbesInv, Sound, SeenKept
  <2>5. pc[p] # "done" => job'[p] = job[p] BY <2>1, <2>3, JobStays DEF ProbesInv
  <2>6. ASSUME seen[p] # {} PROVE <<"vol", "kept">> \in Existing(Where(p))'
    <3>1. Where(p)' = "kept" /\ "kept" \in vol'
      BY <2>2, <2>3, <2>4, <2>5, <2>6 DEF Where, Project, OnlyAdds
    <3>2. QED BY <3>1 DEF Existing
  <2>7. QED BY <2>4, <2>6
<1>2. QED BY <1>1, Invariant, ProbesInvariant, PTL DEF CompositeSpec, FoundIsKept
=============================================================================
