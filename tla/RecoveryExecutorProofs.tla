----------------------- MODULE RecoveryExecutorProofs -----------------------
(***************************************************************************)
(* Theorems about RecoveryExecutor, for any number of recoverers, plans,   *)
(* decisions and deaths.                                                   *)
(*                                                                         *)
(* The invariant says of every pending record, in the hands of a           *)
(* recoverer, in the active file or in the history, what it may be trusted *)
(* for whatever happens meanwhile: the world only moves onward (the log    *)
(* grows, effects stay, a container ends), so what was true of it when it  *)
(* was written stays true.  For a recoverer it adds what has been done     *)
(* when it reaches its stage.                                              *)
(*                                                                         *)
(* Four parts follow: one recoverer that dies and restarts, which resumes  *)
(* a decision and does not replace it; the log that any number of          *)
(* recoverers write, which is one an event journal may have; the decisions *)
(* that were archived, which act no more; and the classifier by itself,    *)
(* against the order of precedence of its contract.                        *)
(***************************************************************************)
EXTENDS RecoveryExecutor, MCRecoveryDecision, TLAPS

(* The plans of the classifier.                                            *)

Reasons ==
  {"ACTIVE_OWNER", "LEASE_UNAVAILABLE", "UNOWNED_RUNTIME", "AUTHORITY_STALE",
   "AUTHORITY_UNAVAILABLE", "CANCEL_PENDING", "RUNTIME_AMBIGUOUS", "CANCEL_CONFIRMED",
   "PROCESS_FAILED", "ORPHAN_RUNNING", "EFFECTS_CONFLICT", "EFFECTS_AMBIGUOUS",
   "SAFE_REPLAY", "REPLAY_UNSAFE", "EFFECTS_COMMITTED"}
Endings == {"cancelled", "failed", "stale"}

PlanSet ==
  [verdict : {"PASS", "FAIL", "INCONCLUSIVE"},
   disposition : {"defer", "fail", "cancel", "stale", "stop_then_reconcile", "resume",
                  "continue"},
   reason : Reasons, stop : BOOLEAN, replay : BOOLEAN, evidence : BOOLEAN,
   terminal : Endings \cup {"none"},
   next : {"none", "reobserve", "dispatch", "record_evidence", "continue_run"}]

\* What every plan of the classifier keeps to.
GoodPlans ==
  {p \in PlanSet :
     /\ p.terminal # "none" => p.evidence /\ ~p.stop
     /\ p.stop => p.evidence}

Defers(p) == p \in GoodPlans /\ p.terminal = "none"

\* Deferring and stopping decisions close nothing.
LEMMA DeferForms ==
  ASSUME NEW reason \in Reasons
  PROVE  Defers(Defer(reason)) /\ Defers(DeferSilently(reason)) /\ Defers(Stop(reason))
<1>1. Defer(reason) \in PlanSet /\ DeferSilently(reason) \in PlanSet /\ Stop(reason) \in PlanSet
  BY DEF Defer, DeferSilently, Stop, Plan, PlanSet
<1>2. QED
  BY <1>1 DEF Defer, DeferSilently, Stop, Plan, GoodPlans, Defers

\* Neither do a replay and a continuation.
LEMMA ResumeForms ==
  ASSUME NEW o PROVE Defers(Resume) /\ Defers(Continue(o))
<1>1. Resume \in PlanSet /\ Continue(o) \in PlanSet
  BY DEF Resume, Continue, Plan, PlanSet, Reasons
<1>2. QED
  BY <1>1 DEF Resume, Continue, Plan, GoodPlans, Defers

\* A terminating decision carries its evidence and stops nothing.
LEMMA TerminateForm ==
  ASSUME NEW verdict \in {"PASS", "FAIL"}, NEW disposition \in {"stale", "cancel", "fail"},
         NEW lifecycle \in Endings, NEW reason \in Reasons
  PROVE  Terminate(verdict, disposition, lifecycle, reason) \in GoodPlans
<1>1. Terminate(verdict, disposition, lifecycle, reason) \in PlanSet
  BY DEF Terminate, Plan, PlanSet
<1>2. QED
  BY <1>1 DEF Terminate, Plan, GoodPlans

\* Whatever rule is the first to apply plans something good, and closes nothing
\* that was observed running.
LEMMA RulePlans ==
  ASSUME NEW o, o.process = o.container, NEW n \in 1..18,
         Rules(o)[n].when, \A m \in 1..(n - 1) : ~Rules(o)[m].when
  PROVE  /\ Rules(o)[n].plan \in GoodPlans
         /\ Rules(o)[n].plan.terminal # "none" => o.process # "running"
<1>1. CASE n \in {1, 2, 3, 6, 8, 12, 14, 16}
  BY <1>1, DeferForms DEF Rules, Reasons, Defers
<1>2. CASE n \in {4, 7, 11}
  BY <1>2, DeferForms DEF Rules, Reasons, Defers
<1>3. CASE n \in {15, 17}
  BY <1>3, ResumeForms DEF Rules, Reasons, Defers
<1>4. CASE n = 5
  BY <1>4, TerminateForm DEF Rules, Reasons, Endings, Active, RuntimeOf
<1>5. CASE n = 9
  BY <1>5, TerminateForm DEF Rules, Reasons, Endings, Active, RuntimeOf
<1>6. CASE n = 10
  BY <1>6, TerminateForm DEF Rules, Reasons, Endings, Active, RuntimeOf
<1>7. CASE n = 13
  BY <1>7, TerminateForm DEF Rules, Reasons, Endings, Active, RuntimeOf
<1>8. CASE n = 18
  <2>1. ~Rules(o)[11].when
    BY <1>8
  <2>2. o.process # "running"
    BY <2>1 DEF Rules, Active, RuntimeOf
  <2>3. Rules(o)[18].plan = Terminate("FAIL", "fail", "failed", "EFFECTS_CONFLICT")
    BY DEF Rules
  <2>4. QED
    BY <1>8, <2>2, <2>3, TerminateForm DEF Reasons, Endings
<1>9. QED
  BY <1>1, <1>2, <1>3, <1>4, <1>5, <1>6, <1>7, <1>8

\* Of finitely many rules, the last of which applies, one is the first to apply.
LEMMA FirstRule ==
  ASSUME NEW o
  PROVE  \E n \in 1..18 : Rules(o)[n].when /\ \A m \in 1..(n - 1) : ~Rules(o)[m].when
<1> DEFINE When(n) == Rules(o)[n].when
<1> DEFINE NoneTo(n) == \A m \in 1..n : ~When(m)
<1> DEFINE First == \E n \in 1..18 : When(n) /\ NoneTo(n - 1)
<1>1. When(18)
  BY DEF Rules
<1> HIDE DEF When
<1>2. \A n \in 1..18 : NoneTo(n - 1) => First \/ NoneTo(n)
  BY DEF NoneTo, First
<1>3. NoneTo(0)
  OBVIOUS
<1> HIDE DEF NoneTo
<1>4. First \/ NoneTo(6)
  BY <1>2, <1>3
<1>5. First \/ NoneTo(12)
  BY <1>2, <1>4
<1>6. First \/ NoneTo(18)
  BY <1>2, <1>5
<1>7. First
  <2>1. NoneTo(18) => ~When(18) BY DEF NoneTo
  <2>2. QED BY <1>1, <1>6, <2>1
<1>8. QED BY <1>7 DEF NoneTo, When

\* What the classifier plans.
LEMMA DecisionGood ==
  ASSUME NEW o, o.process = o.container
  PROVE  /\ DecideRecovery(o) \in GoodPlans
         /\ DecideRecovery(o).terminal # "none" => o.process # "running"
<1> DEFINE IsFirst(n) == Rules(o)[n].when /\ \A m \in 1..(n - 1) : ~Rules(o)[m].when
<1> DEFINE first == CHOOSE n \in DOMAIN Rules(o) : IsFirst(n)
<1>1. DOMAIN Rules(o) = 1..18
  BY DEF Rules
<1>2. first \in 1..18 /\ IsFirst(first)
  <2> HIDE DEF IsFirst
  <2>1. \E n \in 1..18 : IsFirst(n)
    BY FirstRule DEF IsFirst
  <2>2. QED
    BY <1>1, <2>1
<1>3. DecideRecovery(o) = Rules(o)[first].plan
  BY DEF DecideRecovery
<1> HIDE DEF first
<1>4. QED
  BY <1>2, <1>3, RulePlans

-----------------------------------------------------------------------------
(* The types.                                                              *)

Decisions == Nat \X Nat
Links == {<<<<0, 0>>, "genesis">>} \cup (Decisions \X {"run", "evidence", "terminal"})
Events ==
  [decision : Decisions, kind : {"run", "evidence", "terminal"}, lifecycle : Lifecycles,
   sequence : Nat, previous : Links]

\* The pending record once it is built.
Full ==
  [decision : Decisions, plan : GoodPlans, count : Nat, root : Links,
   runtime : RuntimeStates, holder : Recoverers \cup {None}, token : Nat,
   replayed : BOOLEAN, evidence : BOOLEAN, stopped : BOOLEAN, terminal : BOOLEAN,
   status : {"planned", "replay-completed", "evidence-appended", "terminal-appended",
             "reobserve-required", "completed"}]
Works == {None} \cup [decision : Decisions] \cup Full

Places ==
  Stages \cup {"idle", "replay_row", "replay_insert", "observe", "acquire", "refresh",
    "save", "docker_stop", "docker_rm", "archive", "archive_stopped", "unlink",
    "unlink_stopped", "reobserve", "release"}

HostSet ==
  [pc : Places, after : Stages \cup {"idle", "archive", "archive_stopped"},
   plan : Plans \cup {None}, work : Works, resumed : BOOLEAN]

-----------------------------------------------------------------------------
(* What a record may be trusted for, over a log L, effects E, a container R. *)

In(event, L) == \E n \in DOMAIN L : L[n] = event
AllEffects == {"artifact", "row"}

Sound(w, E, R) ==
  /\ w \in Full
  /\ w.plan.terminal # "none" => R # "running"
  /\ w.replayed => E = AllEffects
  /\ w.stopped => R = "absent"

\* What has been done when the stage comes.
ReplayDone(w, E) == w.plan.replay => E = AllEffects
EvidenceDone(w, L) == w.plan.evidence => In(Evidence(w), L)
StopDone(w) == w.plan.stop => w.stopped
TerminalDone(w, L) == w.plan.terminal # "none" => In(Terminal(w), L)

Replaying == {"replay", "replay_row", "replay_insert"}
PastReplay ==
  {"evidence", "stop", "docker_stop", "docker_rm", "terminal", "complete", "archive",
   "archive_stopped"}
Stopping == {"stop", "docker_stop", "docker_rm", "archive_stopped"}
PastStop == {"terminal", "complete", "archive", "archive_stopped"}
PastTerminal == {"complete", "archive"}

Reached(stage, w, L, E) ==
  /\ stage \in PastReplay => ReplayDone(w, E)
  /\ stage \in PastReplay \ {"evidence"} => EvidenceDone(w, L)
  /\ stage \in PastStop => StopDone(w)
  /\ stage \in PastTerminal => TerminalDone(w, L)
  /\ stage \in Replaying => w.plan.replay
  /\ stage = "evidence" => w.plan.evidence
  /\ stage \in Stopping => w.plan.stop
  /\ stage = "terminal" => w.plan.terminal # "none"
  /\ stage \in {"replay_row", "replay_insert"} => "artifact" \in E

Stage(r) == IF r.pc = "save" THEN r.after ELSE r.pc

Good(r, L, E, R) ==
  /\ r \in HostSet
  /\ r.pc = "save" => r.after # "idle"
  /\ r.pc = "observe" => r.work \in [decision : Decisions]
  /\ r.pc \notin {"idle", "observe"} =>
       Sound(r.work, E, R) /\ Reached(Stage(r), r.work, L, E)

\* The grounds on which a recoverer is where it is.
Entitled(r, le, ow) ==
  /\ r.pc \notin {"idle", "observe", "acquire"} => le = "expired"
  /\ r.pc \in {"docker_stop", "docker_rm"} => ow

Archived(w, L, E, R) ==
  /\ Sound(w, E, R)
  /\ ReplayDone(w, E) /\ EvidenceDone(w, L) /\ StopDone(w) /\ TerminalDone(w, L)

WorldOK(L, le, ow, E, R) ==
  /\ L \in Seq(Events) /\ L # << >>
  /\ \A n \in DOMAIN L : L[n].sequence = n - 1
  /\ le \in {"active", "expired"} /\ ow \in BOOLEAN /\ R \in RuntimeStates
  /\ E \in SUBSET AllEffects

Closing(L, R) ==
  /\ \A n \in DOMAIN L : IsTerminal(L[n].lifecycle) =>
       n > 1 /\ L[n - 1].kind = "evidence" /\ L[n - 1].decision = L[n].decision
  /\ IsTerminal(L[Len(L)].lifecycle) => R # "running"

RowOK ==
  /\ fence \in [holder : Recoverers \cup {None}, token : Nat, live : BOOLEAN]
  /\ decided \in Nat /\ crashes \in Nat

HostsOK ==
  /\ host \in [Recoverers -> HostSet]
  /\ \A h \in Recoverers : Good(host[h], log, effects, runtime)
  /\ \A h \in Recoverers : Entitled(host[h], lease, owned)

FilesOK ==
  /\ pending # None => Sound(pending, effects, runtime)
  /\ \A w \in history : Archived(w, log, effects, runtime)

\* The inductive invariant.
IInv ==
  /\ WorldOK(log, lease, owned, effects, runtime)
  /\ Closing(log, runtime)
  /\ RowOK
  /\ HostsOK
  /\ FilesOK

-----------------------------------------------------------------------------

\* The world only moves on: the log grows, effects stay, a container ends.
Onward(L1, E1, R1, L2, E2, R2) ==
  /\ \A n \in DOMAIN L1 : n \in DOMAIN L2 /\ L2[n] = L1[n]
  /\ E1 \subseteq E2
  /\ E1 = AllEffects => E2 = AllEffects
  /\ R1 # "running" => R2 # "running"
  /\ R1 = "absent" => R2 = "absent"

\* What a record may be trusted for stays true as the world moves on.
LEMMA GoodKept ==
  ASSUME NEW r, NEW L1, NEW E1, NEW R1, NEW L2, NEW E2, NEW R2,
         Onward(L1, E1, R1, L2, E2, R2)
  PROVE  /\ Good(r, L1, E1, R1) => Good(r, L2, E2, R2)
         /\ Sound(r, E1, R1) => Sound(r, E2, R2)
         /\ Archived(r, L1, E1, R1) => Archived(r, L2, E2, R2)
<1>1. \A e : In(e, L1) => In(e, L2)
  BY DEF In, Onward
<1>2. \A w : Sound(w, E1, R1) => Sound(w, E2, R2)
  BY DEF Sound, Onward
<1>3. \A w : /\ ReplayDone(w, E1) => ReplayDone(w, E2)
             /\ EvidenceDone(w, L1) => EvidenceDone(w, L2)
             /\ TerminalDone(w, L1) => TerminalDone(w, L2)
  BY <1>1 DEF ReplayDone, EvidenceDone, TerminalDone, Onward
<1>4. \A w, stage : Reached(stage, w, L1, E1) => Reached(stage, w, L2, E2)
  BY <1>3 DEF Reached, Onward
<1>5. QED
  BY <1>2, <1>3, <1>4 DEF Good, Archived

\* A step of one recoverer keeps the invariant when it leaves that recoverer
\* in order and moves the world onward.
LEMMA StepKeeps ==
  ASSUME IInv, NEW h \in Recoverers,
         WorldOK(log', lease', owned', effects', runtime'),
         Closing(log', runtime'),
         RowOK',
         Onward(log, effects, runtime, log', effects', runtime'),
         lease' = lease, owned' = owned,
         host' = [host EXCEPT ![h] = host'[h]],
         Good(host'[h], log', effects', runtime'),
         Entitled(host'[h], lease', owned'),
         pending' # None => Sound(pending', effects', runtime'),
         \A w \in history' : w \in history \/ Archived(w, log', effects', runtime')
  PROVE  IInv'
<1>1. \A k \in Recoverers : k # h => host'[k] = host[k]
  BY DEF IInv, HostsOK
<1>2. \A k \in Recoverers : Good(host'[k], log', effects', runtime')
  <2> SUFFICES ASSUME NEW k \in Recoverers PROVE Good(host'[k], log', effects', runtime')
    OBVIOUS
  <2>1. CASE k = h
    BY <2>1
  <2>2. CASE k # h
    <3>1. Good(host[k], log, effects, runtime)
      BY DEF IInv, HostsOK
    <3>2. Good(host[k], log', effects', runtime')
      BY <3>1, GoodKept
    <3>3. QED
      BY <2>2, <3>2, <1>1
  <2>3. QED
    BY <2>1, <2>2
<1>3. \A k \in Recoverers : Entitled(host'[k], lease', owned')
  BY <1>1 DEF IInv, HostsOK
<1>4. host' \in [Recoverers -> HostSet]
  <2>1. host'[h] \in HostSet
    BY DEF Good
  <2>2. QED
    BY <2>1 DEF IInv, HostsOK
<1>5. HostsOK'
  BY <1>2, <1>3, <1>4 DEF HostsOK
<1>6. \A w \in history' : Archived(w, log', effects', runtime')
  <2> SUFFICES ASSUME NEW w \in history' PROVE Archived(w, log', effects', runtime')
    OBVIOUS
  <2>1. CASE w \in history
    <3>1. Archived(w, log, effects, runtime)
      BY <2>1 DEF IInv, FilesOK
    <3>2. QED
      BY <3>1, GoodKept
  <2>2. QED
    BY <2>1
<1>7. FilesOK'
  BY <1>6 DEF FilesOK
<1>8. QED
  BY <1>5, <1>7 DEF IInv
-----------------------------------------------------------------------------
(* Records that say the same, stages, and the append function.             *)

Like(v, w) ==
  v \in Full /\ v.decision = w.decision /\ v.plan = w.plan /\ v.count = w.count
  /\ v.root = w.root /\ (w.stopped => v.stopped)

\* Records that will write the same have reached the same.
LEMMA LikeSame ==
  ASSUME NEW v, NEW w, Like(v, w), NEW L, NEW E
  PROVE  /\ ReplayDone(w, E) => ReplayDone(v, E)
         /\ EvidenceDone(w, L) => EvidenceDone(v, L)
         /\ TerminalDone(w, L) => TerminalDone(v, L)
         /\ StopDone(w) => StopDone(v)
         /\ \A stage : Reached(stage, w, L, E) => Reached(stage, v, L, E)
<1>1. Evidence(v) = Evidence(w) /\ Terminal(v) = Terminal(w)
  BY DEF Like, Evidence, Terminal
<1>2. /\ ReplayDone(w, E) => ReplayDone(v, E)
      /\ EvidenceDone(w, L) => EvidenceDone(v, L)
      /\ TerminalDone(w, L) => TerminalDone(v, L)
      /\ StopDone(w) => StopDone(v)
  BY <1>1 DEF Like, ReplayDone, EvidenceDone, TerminalDone, StopDone
<1>3. QED
  BY <1>2 DEF Like, Reached

\* The marks a record gets on its way leave what it will write.
LEMMA Marks ==
  ASSUME NEW w \in Full
  PROVE  /\ Like([w EXCEPT !.replayed = TRUE, !.status = "replay-completed"], w)
         /\ Like([w EXCEPT !.evidence = TRUE, !.status = "evidence-appended"], w)
         /\ Like([w EXCEPT !.stopped = TRUE, !.status = "reobserve-required"], w)
         /\ Like([w EXCEPT !.terminal = TRUE, !.status = "terminal-appended"], w)
         /\ Like([w EXCEPT !.status = "completed"], w)
         /\ \A k \in Recoverers, t \in Nat : Like([w EXCEPT !.holder = k, !.token = t], w)
BY DEF Like, Full

\* The plan of a built record.
LEMMA PlanFacts ==
  ASSUME NEW w \in Full
  PROVE  /\ w.plan \in PlanSet
         /\ w.plan.terminal # "none" => w.plan.evidence /\ ~w.plan.stop
         /\ w.plan.stop => w.plan.evidence
BY DEF Full, GoodPlans

\* The stage that is computed after the evidence was reached ...
LEMMA TerminalStageReached ==
  ASSUME NEW w \in Full, NEW L, NEW E, ReplayDone(w, E), EvidenceDone(w, L), StopDone(w)
  PROVE  TerminalStage(w) \in Stages /\ Reached(TerminalStage(w), w, L, E)
BY PlanFacts DEF TerminalStage, Stages, Reached, TerminalDone, Stopping, PastTerminal, Replaying

\* ... with or without a stop before it ...
LEMMA StopStageReached ==
  ASSUME NEW w \in Full, NEW L, NEW E, ReplayDone(w, E), EvidenceDone(w, L)
  PROVE  StopStage(w) \in Stages /\ Reached(StopStage(w), w, L, E)
<1>1. CASE w.plan.stop /\ ~w.stopped
  BY <1>1 DEF StopStage, Stages, Reached, PastTerminal, PastStop, Replaying
<1>2. CASE ~(w.plan.stop /\ ~w.stopped)
  BY <1>2, TerminalStageReached DEF StopStage, StopDone
<1>3. QED
  BY <1>1, <1>2

\* ... and so is the one computed after the replay ...
LEMMA EvidenceStageReached ==
  ASSUME NEW w \in Full, NEW L, NEW E, ReplayDone(w, E)
  PROVE  EvidenceStage(w) \in Stages /\ Reached(EvidenceStage(w), w, L, E)
<1>1. CASE w.plan.evidence
  BY <1>1 DEF EvidenceStage, Stages, Reached, PastTerminal, PastStop, Stopping, Replaying
<1>2. CASE ~w.plan.evidence
  <2>1. EvidenceDone(w, L)
    BY <1>2 DEF EvidenceDone
  <2>2. QED
    BY <1>2, <2>1, StopStageReached DEF EvidenceStage
<1>3. QED
  BY <1>1, <1>2

\* ... and the first one of a sound record.
LEMMA FirstStageReached ==
  ASSUME NEW w, NEW L, NEW E, NEW R, Sound(w, E, R)
  PROVE  FirstStage(w) \in Stages /\ Reached(FirstStage(w), w, L, E)
<1>0. w \in Full /\ (w.replayed => E = AllEffects)
  BY DEF Sound
<1>1. CASE w.plan.replay /\ ~w.replayed
  BY <1>1 DEF FirstStage, Stages, Reached, PastTerminal, PastStop, Stopping, PastReplay
<1>2. CASE ~(w.plan.replay /\ ~w.replayed)
  <2>1. ReplayDone(w, E)
    BY <1>0, <1>2 DEF ReplayDone
  <2>2. QED
    BY <1>0, <1>2, <2>1, EvidenceStageReached DEF FirstStage
<1>3. QED
  BY <1>1, <1>2

\* The two events a record will append are events.
LEMMA EventForms ==
  ASSUME NEW w \in Full
  PROVE  /\ Evidence(w) \in Events
         /\ w.plan.terminal # "none" => Terminal(w) \in Events
<1>1. w.decision \in Decisions /\ w.count \in Nat /\ w.root \in Links
  BY DEF Full
<1>2. Link(Evidence(w)) \in Links
  BY <1>1 DEF Link, Evidence, Links
<1>3. Evidence(w) \in Events
  BY <1>1 DEF Evidence, Events, Lifecycles
<1>4. w.plan.terminal # "none" => w.plan.terminal \in Lifecycles
  BY PlanFacts DEF PlanSet, Endings, Lifecycles, TerminalLifecycles
<1>5. w.count + (IF w.plan.evidence THEN 1 ELSE 0) \in Nat
  BY <1>1
<1>6. (IF w.plan.evidence THEN Link(Evidence(w)) ELSE w.root) \in Links
  BY <1>1, <1>2
<1>7. QED
  BY <1>1, <1>3, <1>4, <1>5, <1>6 DEF Terminal, Events

\* What append_record leaves when it returns.
LEMMA Appended ==
  ASSUME IInv, NEW event \in Events, Appends(event)
  PROVE  /\ log' \in Seq(Events) /\ log' # << >>
         /\ \A n \in DOMAIN log' : log'[n].sequence = n - 1
         /\ \A n \in DOMAIN log : n \in DOMAIN log' /\ log'[n] = log[n]
         /\ In(event, log')
         /\ \/ log' = log
            \/ /\ Len(log') = Len(log) + 1 /\ log'[Len(log')] = event
               /\ event.previous = Link(Root) /\ Len(log) \in Nat \ {0}
<1>1. log \in Seq(Events) /\ log # << >> /\ \A n \in DOMAIN log : log[n].sequence = n - 1
  BY DEF IInv, WorldOK
<1>2. Len(log) \in Nat \ {0} /\ DOMAIN log = 1..Len(log)
  BY <1>1
<1>3. CASE RetainedEvent(event)
  <2>1. log' = log
    BY <1>3 DEF Appends
  <2>2. In(event, log)
    BY <1>3 DEF RetainedEvent, In
  <2>3. QED
    BY <1>1, <2>1, <2>2
<1>4. CASE ~RetainedEvent(event)
  <2>1. log' = Append(log, event) /\ event.sequence = Len(log) /\ event.previous = Link(Root)
    BY <1>4 DEF Appends
  <2>2. /\ log' \in Seq(Events) /\ Len(log') = Len(log) + 1 /\ log'[Len(log) + 1] = event
        /\ \A n \in 1..Len(log) : log'[n] = log[n]
        /\ DOMAIN log' = 1..(Len(log) + 1)
    BY <1>1, <2>1
  <2>3. \A n \in DOMAIN log' : log'[n].sequence = n - 1
    BY <1>1, <1>2, <2>1, <2>2
  <2>4. In(event, log')
    BY <1>2, <2>2 DEF In
  <2>5. log' # << >>
    BY <1>2, <2>2
  <2>6. \A n \in DOMAIN log : n \in DOMAIN log' /\ log'[n] = log[n]
    BY <1>2, <2>2
  <2>7. Len(log') = Len(log) + 1 /\ log'[Len(log')] = event
    BY <1>2, <2>2
  <2>8. QED
    BY <1>2, <2>1, <2>2, <2>3, <2>4, <2>5, <2>6, <2>7
<1>5. QED
  BY <1>3, <1>4
-----------------------------------------------------------------------------
(* How a recoverer moves.                                                  *)

Moved(h, pc, after, work) ==
  /\ host' = [host EXCEPT ![h] = host'[h]]
  /\ host'[h] \in HostSet
  /\ pc = "save" => after # "idle"
  /\ host'[h].pc = pc /\ host'[h].after = after /\ host'[h].work = work

\* The invariant, for one recoverer.
LEMMA HostFacts ==
  ASSUME IInv, NEW h \in Recoverers
  PROVE  /\ host \in [Recoverers -> HostSet] /\ host[h] \in HostSet
         /\ Good(host[h], log, effects, runtime) /\ Entitled(host[h], lease, owned)
BY DEF IInv, HostsOK

\* A recoverer that goes on with its record as it is,
LEMMA GotoForm ==
  ASSUME IInv, NEW h \in Recoverers, NEW pc \in Places \ {"save"}, Goto(h, pc)
  PROVE  Moved(h, pc, host[h].after, host[h].work)
<1>1. host \in [Recoverers -> HostSet] /\ host[h] \in HostSet
  BY HostFacts
<1>2. host' = [host EXCEPT ![h] = [host[h] EXCEPT !.pc = pc]]
  BY <1>1 DEF Goto
<1>3. host'[h] = [host[h] EXCEPT !.pc = pc]
  BY <1>1, <1>2
<1>4. [host[h] EXCEPT !.pc = pc] \in HostSet
  BY <1>1 DEF HostSet
<1>5. QED
  BY <1>1, <1>2, <1>3, <1>4 DEF Moved, HostSet

\* with another record,
LEMMA GotoWithForm ==
  ASSUME IInv, NEW h \in Recoverers, NEW pc \in Places \ {"save"}, NEW w \in Full,
         GotoWith(h, pc, w)
  PROVE  Moved(h, pc, host[h].after, w)
<1>1. host \in [Recoverers -> HostSet] /\ host[h] \in HostSet
  BY HostFacts
<1>2. host' = [host EXCEPT ![h] = [host[h] EXCEPT !.pc = pc, !.work = w]]
  BY <1>1 DEF GotoWith
<1>3. host'[h] = [host[h] EXCEPT !.pc = pc, !.work = w]
  BY <1>1, <1>2
<1>4. w \in Works
  BY DEF Works
<1>5. [host[h] EXCEPT !.pc = pc, !.work = w] \in HostSet
  BY <1>1, <1>4 DEF HostSet
<1>6. QED
  BY <1>1, <1>2, <1>3, <1>5 DEF Moved, HostSet

\* with a record it will save first,
LEMMA PersistForm ==
  ASSUME IInv, NEW h \in Recoverers, NEW w \in Full,
         NEW stage \in Stages \cup {"archive", "archive_stopped"}, Persist(h, w, stage)
  PROVE  Moved(h, "save", stage, w)
<1>1. host \in [Recoverers -> HostSet] /\ host[h] \in HostSet
  BY HostFacts
<1>2. host' = [host EXCEPT ![h] = [host[h] EXCEPT !.pc = "save", !.work = w,
                                     !.after = stage, !.resumed = FALSE]]
  BY <1>1 DEF Persist
<1>3. host'[h] = [host[h] EXCEPT !.pc = "save", !.work = w,
                                 !.after = stage, !.resumed = FALSE]
  BY <1>1, <1>2
<1>4. w \in Works
  BY DEF Works
<1>5. [host[h] EXCEPT !.pc = "save", !.work = w, !.after = stage, !.resumed = FALSE]
        \in HostSet
  BY <1>1, <1>4 DEF HostSet, Places
<1>6. stage # "idle"
  BY DEF Stages
<1>7. QED
  BY <1>1, <1>2, <1>3, <1>5, <1>6 DEF Moved, HostSet

\* or whose call is over.
LEMMA EndForm ==
  ASSUME IInv, NEW h \in Recoverers, End(h), NEW L, NEW E, NEW R, NEW le, NEW ow
  PROVE  /\ host' = [host EXCEPT ![h] = host'[h]]
         /\ Good(host'[h], L, E, R) /\ Entitled(host'[h], le, ow)
<1>1. host \in [Recoverers -> HostSet]
  BY HostFacts
<1>2. host' = [host EXCEPT ![h] = Idle]
  BY DEF End
<1>3. host'[h] = Idle
  BY <1>1, <1>2
<1>4. Idle \in HostSet
  BY DEF Idle, HostSet, Places, Works
<1>5. Idle.pc = "idle"
  BY DEF Idle
<1>6. QED
  BY <1>2, <1>3, <1>4, <1>5 DEF Good, Entitled

\* A record carried to a place is good there when it is sound and its stage
\* was reached.
LEMMA MovedGood ==
  ASSUME NEW h, NEW pc, NEW after, NEW work, Moved(h, pc, after, work),
         NEW L, NEW E, NEW R, pc # "observe",
         Sound(work, E, R), Reached(IF pc = "save" THEN after ELSE pc, work, L, E)
  PROVE  host' = [host EXCEPT ![h] = host'[h]] /\ Good(host'[h], L, E, R)
BY DEF Moved, Good, Stage

\* It is entitled to its place when the lease is over.
LEMMA MovedEntitled ==
  ASSUME NEW h, NEW pc, NEW after, NEW work, Moved(h, pc, after, work),
         NEW le, NEW ow, le = "expired", pc \in {"docker_stop", "docker_rm"} => ow
  PROVE  Entitled(host'[h], le, ow)
BY DEF Moved, Entitled

\* A step that changes neither the world nor the files.
LEMMA HostStepKeeps ==
  ASSUME IInv, NEW h \in Recoverers, UNCHANGED <<log, world, pending, history>>, RowOK',
         host' = [host EXCEPT ![h] = host'[h]],
         Good(host'[h], log, effects, runtime), Entitled(host'[h], lease, owned)
  PROVE  IInv'
<1>1. UNCHANGED <<log, lease, runtime, owned, effects, pending, history>>
  BY DEF world
<1>2. WorldOK(log', lease', owned', effects', runtime') /\ Closing(log', runtime')
  BY <1>1 DEF IInv
<1>3. Onward(log, effects, runtime, log', effects', runtime')
  BY <1>1 DEF Onward
<1>4. pending' # None => Sound(pending', effects', runtime')
  BY <1>1 DEF IInv, FilesOK
<1>5. \A w \in history' : w \in history \/ Archived(w, log', effects', runtime')
  BY <1>1
<1>6. Good(host'[h], log', effects', runtime') /\ Entitled(host'[h], lease', owned')
  BY <1>1
<1>7. QED
  BY <1>1, <1>2, <1>3, <1>4, <1>5, <1>6, StepKeeps

\* The record a recoverer carries beyond its observation.
LEMMA WorkFacts ==
  ASSUME IInv, NEW h \in Recoverers, host[h].pc \notin {"idle", "observe"}
  PROVE  /\ Work(h) \in Full /\ Sound(Work(h), effects, runtime)
         /\ Reached(Stage(host[h]), Work(h), log, effects)
         /\ host[h].pc # "acquire" => lease = "expired"
<1>1. Good(host[h], log, effects, runtime) /\ Entitled(host[h], lease, owned)
  BY HostFacts
<1>2. QED
  BY <1>1 DEF Good, Entitled, Work, Sound

\* What build_pending makes is sound.
LEMMA BuildSound ==
  ASSUME IInv, NEW decision \in Decisions, NEW plan
  PROVE  Sound(Build(decision, plan), effects, runtime)
<1>1. /\ Observed(plan).process = runtime /\ Observed(plan).container = runtime
  BY DEF Observed
<1>2. /\ DecideRecovery(Observed(plan)) \in GoodPlans
      /\ DecideRecovery(Observed(plan)).terminal # "none" => runtime # "running"
  BY <1>1, DecisionGood
<1>3. log \in Seq(Events) /\ log # << >> /\ runtime \in RuntimeStates
  BY DEF IInv, WorldOK
<1>4. Root \in Events /\ Len(log) \in Nat
  BY <1>3 DEF Root
<1>5. Link(Root) \in Links
  BY <1>4 DEF Link, Events, Links
<1>6. Build(decision, plan) \in Full
  BY <1>2, <1>3, <1>4, <1>5 DEF Build, Full
<1>7. QED
  BY <1>2, <1>6 DEF Sound, Build
-----------------------------------------------------------------------------
(* The steps of reconcile.                                                 *)

\* Load keeps the invariant: what is resumed was sound when it was saved.
LEMMA LoadKeeps ==
  ASSUME IInv, NEW h \in Recoverers, Load(h) PROVE IInv'
<1>1. UNCHANGED <<log, fence, world, pending, history, crashes>>
  BY DEF Load
<1>2. host \in [Recoverers -> HostSet] /\ decided \in Nat
  BY HostFacts DEF IInv, RowOK
<1>3. PICK plan \in Plans :
        \/ /\ decided' = decided + 1
           /\ host' = [host EXCEPT ![h] = [Idle EXCEPT
                !.pc = "observe", !.plan = plan, !.work = [decision |-> <<decided + 1, 1>>]]]
        \/ /\ pending # None /\ UNCHANGED decided
           /\ host' = [host EXCEPT ![h] = [Idle EXCEPT
                !.pc = "acquire", !.plan = plan, !.work = pending, !.resumed = TRUE]]
  BY DEF Load
<1>4. RowOK'
  BY <1>1, <1>2, <1>3 DEF IInv, RowOK
<1>5. CASE host' = [host EXCEPT ![h] = [Idle EXCEPT
             !.pc = "observe", !.plan = plan, !.work = [decision |-> <<decided + 1, 1>>]]]
  <2> DEFINE fresh == [decision |-> <<decided + 1, 1>>]
  <2>1. fresh \in [decision : Decisions]
    BY <1>2 DEF Decisions
  <2>2. fresh \in Works
    BY <2>1 DEF Works
  <2>3. host'[h] = [pc |-> "observe", after |-> "idle", plan |-> plan, work |-> fresh,
                    resumed |-> FALSE]
    BY <1>2, <1>5 DEF Idle
  <2> HIDE DEF fresh
  <2>4. host'[h] \in HostSet
    BY <2>2, <2>3 DEF HostSet, Places
  <2>5. Good(host'[h], log, effects, runtime) /\ Entitled(host'[h], lease, owned)
    BY <2>1, <2>3, <2>4 DEF Good, Entitled
  <2>6. host' = [host EXCEPT ![h] = host'[h]]
    BY <1>2, <1>5
  <2>7. QED
    BY <1>1, <1>4, <2>5, <2>6, HostStepKeeps
<1>6. CASE pending # None /\ host' = [host EXCEPT ![h] = [Idle EXCEPT
             !.pc = "acquire", !.plan = plan, !.work = pending, !.resumed = TRUE]]
  <2>1. Sound(pending, effects, runtime)
    BY <1>6 DEF IInv, FilesOK
  <2>2. pending \in Works
    BY <2>1 DEF Sound, Works
  <2>3. host'[h] = [pc |-> "acquire", after |-> "idle", plan |-> plan, work |-> pending,
                    resumed |-> TRUE]
    BY <1>2, <1>6 DEF Idle
  <2>4. host'[h] \in HostSet
    BY <2>2, <2>3 DEF HostSet, Places
  <2>5. Reached("acquire", pending, log, effects)
    BY DEF Reached, PastReplay, PastStop, PastTerminal, Stopping, Replaying
  <2>6. Good(host'[h], log, effects, runtime) /\ Entitled(host'[h], lease, owned)
    BY <2>1, <2>3, <2>4, <2>5 DEF Good, Entitled, Stage
  <2>7. host' = [host EXCEPT ![h] = host'[h]]
    BY <1>2, <1>6
  <2>8. QED
    BY <1>1, <1>4, <2>6, <2>7, HostStepKeeps
<1>7. QED
  BY <1>3, <1>5, <1>6

\* A call that ends keeps the invariant.
LEMMA EndKeeps ==
  ASSUME IInv, NEW h \in Recoverers, End(h), UNCHANGED <<log, world, pending, history>>,
         RowOK'
  PROVE  IInv'
BY EndForm, HostStepKeeps

\* So does Observe: what is built is sound.
LEMMA ObserveKeeps ==
  ASSUME IInv, NEW h \in Recoverers, Observe(h) PROVE IInv'
<1> DEFINE w == Build(Work(h).decision, host[h].plan)
<1>1. /\ UNCHANGED <<log, fence, world, pending, history, decided, crashes>>
      /\ host[h].pc = "observe" /\ (End(h) \/ GotoWith(h, "acquire", w))
  BY DEF Observe, At
<1>2. RowOK'
  BY <1>1 DEF IInv, RowOK
<1>3. Work(h).decision \in Decisions
  BY <1>1, HostFacts DEF Good, Work
<1>4. Sound(w, effects, runtime)
  BY <1>3, BuildSound
<1> HIDE DEF w
<1>5. CASE End(h)
  BY <1>1, <1>2, <1>5, EndKeeps
<1>6. CASE GotoWith(h, "acquire", w)
  <2>1. w \in Full
    BY <1>4 DEF Sound
  <2>2. Moved(h, "acquire", host[h].after, w)
    BY <1>6, <2>1, GotoWithForm DEF Places
  <2>3. Reached("acquire", w, log, effects)
    BY DEF Reached, PastReplay, PastStop, PastTerminal, Stopping, Replaying
  <2>4. host' = [host EXCEPT ![h] = host'[h]] /\ Good(host'[h], log, effects, runtime)
    BY <1>4, <2>2, <2>3, MovedGood
  <2>5. Entitled(host'[h], lease, owned)
    BY <2>2 DEF Moved, Entitled
  <2>6. QED
    BY <1>1, <1>2, <2>4, <2>5, HostStepKeeps
<1>7. QED
  BY <1>1, <1>5, <1>6

\* A record that is saved and carried on to its first stage.
LEMMA BeginKeeps ==
  ASSUME IInv, NEW h \in Recoverers, NEW w, Sound(w, effects, runtime), lease = "expired",
         Persist(h, w, FirstStage(w)), UNCHANGED <<log, world, pending, history>>, RowOK'
  PROVE  IInv'
<1>1. w \in Full
  BY DEF Sound
<1>2. FirstStage(w) \in Stages /\ Reached(FirstStage(w), w, log, effects)
  BY FirstStageReached
<1>3. Moved(h, "save", FirstStage(w), w)
  BY <1>1, <1>2, PersistForm
<1>4. host' = [host EXCEPT ![h] = host'[h]] /\ Good(host'[h], log, effects, runtime)
  BY <1>2, <1>3, MovedGood
<1>5. Entitled(host'[h], lease, owned)
  BY <1>3, MovedEntitled
<1>6. QED
  BY <1>4, <1>5, HostStepKeeps

\* The fence and its token are put into the record that goes on.
LEMMA TakenSound ==
  ASSUME NEW w, NEW E, NEW R, Sound(w, E, R), NEW k \in Recoverers, NEW t \in Nat
  PROVE  Sound([w EXCEPT !.holder = k, !.token = t], E, R)
<1> DEFINE v == [w EXCEPT !.holder = k, !.token = t]
<1>1. w \in Full
  BY DEF Sound
<1>2. /\ v \in Full /\ v.plan = w.plan /\ v.replayed = w.replayed /\ v.stopped = w.stopped
  BY <1>1 DEF Full
<1>3. QED
  BY <1>2 DEF Sound

\* So does Acquire.
LEMMA AcquireKeeps ==
  ASSUME IInv, NEW h \in Recoverers, Acquire(h) PROVE IInv'
<1> DEFINE w == [Work(h) EXCEPT !.holder = h, !.token = fence'.token]
<1>1. /\ UNCHANGED <<log, world, pending, history, decided, crashes>>
      /\ host[h].pc = "acquire"
  BY DEF Acquire, At
<1>2. Work(h) \in Full /\ Sound(Work(h), effects, runtime)
  BY <1>1, WorkFacts
<1>3. lease \in {"active", "expired"}
      /\ fence \in [holder : Recoverers \cup {None}, token : Nat, live : BOOLEAN]
  BY DEF IInv, WorldOK, RowOK
<1>4. CASE End(h) /\ UNCHANGED fence
  <2>1. RowOK'
    BY <1>1, <1>4 DEF IInv, RowOK
  <2>2. QED
    BY <1>1, <1>4, <2>1, EndKeeps
<1>5. CASE /\ lease # "active"
           /\ fence' = IF fence.live THEN fence
                       ELSE [holder |-> h, token |-> fence.token + 1, live |-> TRUE]
           /\ IF host[h].resumed THEN Persist(h, w, FirstStage(w))
              ELSE GotoWith(h, "refresh", w)
  <2>1. fence' \in [holder : Recoverers \cup {None}, token : Nat, live : BOOLEAN]
    BY <1>3, <1>5
  <2>2. RowOK'
    BY <1>1, <2>1 DEF IInv, RowOK
  <2>3. lease = "expired" /\ fence'.token \in Nat
    BY <1>3, <1>5, <2>1
  <2>4. Sound(w, effects, runtime)
    BY <1>2, <2>3, TakenSound
  <2> HIDE DEF w
  <2>5. CASE Persist(h, w, FirstStage(w))
    BY <1>1, <2>2, <2>3, <2>4, <2>5, BeginKeeps
  <2>6. CASE GotoWith(h, "refresh", w)
    <3>1. w \in Full
      BY <2>4 DEF Sound
    <3>2. Moved(h, "refresh", host[h].after, w)
      BY <2>6, <3>1, GotoWithForm DEF Places
    <3>3. Reached("refresh", w, log, effects)
      BY DEF Reached, PastReplay, PastStop, PastTerminal, Stopping, Replaying
    <3>4. host' = [host EXCEPT ![h] = host'[h]] /\ Good(host'[h], log, effects, runtime)
      BY <2>4, <3>2, <3>3, MovedGood
    <3>5. Entitled(host'[h], lease, owned)
      BY <2>3, <3>2, MovedEntitled
    <3>6. QED
      BY <1>1, <2>2, <3>4, <3>5, HostStepKeeps
  <2>7. QED
    BY <1>5, <2>5, <2>6
<1>6. QED
  BY <1>4, <1>5 DEF Acquire

\* So does Refresh.
LEMMA RefreshKeeps ==
  ASSUME IInv, NEW h \in Recoverers, Refresh(h) PROVE IInv'
<1>1. /\ UNCHANGED <<log, fence, world, pending, history, decided, crashes>>
      /\ host[h].pc = "refresh"
      /\ End(h) \/ Persist(h, Work(h), FirstStage(Work(h)))
  BY DEF Refresh, At
<1>2. RowOK'
  BY <1>1 DEF IInv, RowOK
<1>3. Sound(Work(h), effects, runtime) /\ lease = "expired"
  BY <1>1, WorkFacts
<1>4. QED
  BY <1>1, <1>2, <1>3, EndKeeps, BeginKeeps

\* So does Reobserve.
LEMMA ReobserveKeeps ==
  ASSUME IInv, NEW h \in Recoverers, Reobserve(h) PROVE IInv'
<1> DEFINE old == Work(h)
           built == Build(<<old.decision[1], 2>>, host[h].plan)
           new == [built EXCEPT !.holder = old.holder, !.token = old.token]
<1>1. /\ UNCHANGED <<log, fence, world, pending, history, decided, crashes>>
      /\ host[h].pc = "reobserve"
      /\ End(h) \/ Persist(h, new, FirstStage(new))
  BY DEF Reobserve, At
<1>2. RowOK'
  BY <1>1 DEF IInv, RowOK
<1>3. old \in Full /\ lease = "expired"
  BY <1>1, WorkFacts
<1>4. <<old.decision[1], 2>> \in Decisions
  BY <1>3 DEF Full, Decisions
<1>5. Sound(built, effects, runtime)
  BY <1>4, BuildSound
<1> HIDE DEF built
<1>6. built \in Full /\ old.holder \in Recoverers \cup {None} /\ old.token \in Nat
  BY <1>3, <1>5 DEF Sound, Full
<1>7. new \in Full /\ new.plan = built.plan /\ new.replayed = built.replayed
      /\ new.stopped = built.stopped
  BY <1>6 DEF Full
<1>8. Sound(new, effects, runtime)
  BY <1>5, <1>7 DEF Sound
<1> HIDE DEF new
<1>9. QED
  BY <1>1, <1>2, <1>3, <1>8, EndKeeps, BeginKeeps
-----------------------------------------------------------------------------
(* The stages of _execute_pending.                                         *)

\* A recoverer that goes on, its record as it is.
LEMMA GotoKeeps ==
  ASSUME IInv, NEW h \in Recoverers, NEW pc \in Places \ {"observe", "save"}, Goto(h, pc),
         Sound(Work(h), effects, runtime), Reached(pc, Work(h), log, effects),
         lease = "expired", pc \in {"docker_stop", "docker_rm"} => owned,
         UNCHANGED <<log, world, pending, history>>, RowOK'
  PROVE  IInv'
<1>1. Moved(h, pc, host[h].after, Work(h))
  BY GotoForm DEF Work
<1>2. host' = [host EXCEPT ![h] = host'[h]] /\ Good(host'[h], log, effects, runtime)
  BY <1>1, MovedGood
<1>3. Entitled(host'[h], lease, owned)
  BY <1>1, MovedEntitled
<1>4. QED
  BY <1>2, <1>3, HostStepKeeps

\* Save keeps the invariant.
LEMMA SaveKeeps ==
  ASSUME IInv, NEW h \in Recoverers, Save(h) PROVE IInv'
<1>1. /\ UNCHANGED <<log, fence, world, history, decided, crashes>>
      /\ host[h].pc = "save" /\ pending' = Work(h)
      /\ host' = [host EXCEPT ![h].pc = host[h].after, ![h].after = "idle"]
  BY DEF Save, At
<1>2. UNCHANGED <<lease, runtime, owned, effects>>
  BY <1>1 DEF world
<1>3. /\ host \in [Recoverers -> HostSet] /\ host[h] \in HostSet
      /\ Sound(Work(h), effects, runtime) /\ Reached(host[h].after, Work(h), log, effects)
      /\ lease = "expired"
  BY <1>1, HostFacts, WorkFacts DEF Stage
<1> DEFINE r == [host[h] EXCEPT !.pc = host[h].after, !.after = "idle"]
<1>4. host' = [host EXCEPT ![h] = r] /\ host'[h] = r
  BY <1>1, <1>3
<1>5. /\ r \in HostSet /\ r.pc = host[h].after /\ r.work = Work(h)
      /\ host[h].after \in Stages \cup {"idle", "archive", "archive_stopped"}
  BY <1>3 DEF HostSet, Places, Work
<1> HIDE DEF r
<1>6. host[h].after \notin {"observe", "save", "docker_stop", "docker_rm"}
  BY <1>5 DEF Stages
<1>7. Good(r, log, effects, runtime) /\ Entitled(r, lease, owned)
  BY <1>3, <1>5, <1>6 DEF Good, Entitled, Stage
<1>8. Good(host'[h], log', effects', runtime') /\ Entitled(host'[h], lease', owned')
  BY <1>1, <1>2, <1>4, <1>7
<1>9. WorldOK(log', lease', owned', effects', runtime') /\ Closing(log', runtime') /\ RowOK'
  BY <1>1, <1>2 DEF IInv, RowOK
<1>10. Onward(log, effects, runtime, log', effects', runtime')
  BY <1>1, <1>2 DEF Onward
<1>11. pending' # None => Sound(pending', effects', runtime')
  BY <1>1, <1>2, <1>3
<1>12. \A w \in history' : w \in history \/ Archived(w, log', effects', runtime')
  BY <1>1
<1>13. host' = [host EXCEPT ![h] = host'[h]]
  BY <1>4
<1>14. QED
  BY <1>2, <1>8, <1>9, <1>10, <1>11, <1>12, <1>13, StepKeeps

\* Effects that are there stay there.
LEMMA EffectsGrow ==
  ASSUME IInv, NEW e \in AllEffects, effects' = effects \cup {e},
         UNCHANGED <<log, fence, lease, runtime, owned, pending, history, decided, crashes>>
  PROVE  /\ WorldOK(log', lease', owned', effects', runtime') /\ Closing(log', runtime')
         /\ RowOK' /\ Onward(log, effects, runtime, log', effects', runtime')
         /\ pending' # None => Sound(pending', effects', runtime')
         /\ \A w \in history' : w \in history \/ Archived(w, log', effects', runtime')
<1>1. effects \in SUBSET AllEffects
  BY DEF IInv, WorldOK
<1>2. effects' \in SUBSET AllEffects /\ effects \subseteq effects'
      /\ (effects = AllEffects => effects' = AllEffects)
  BY <1>1
<1>3. Onward(log, effects, runtime, log', effects', runtime')
  BY <1>2 DEF Onward
<1>4. WorldOK(log', lease', owned', effects', runtime') /\ Closing(log', runtime') /\ RowOK'
  BY <1>2 DEF IInv, WorldOK, RowOK
<1>5. pending' # None => Sound(pending', effects', runtime')
  BY <1>3, GoodKept DEF IInv, FilesOK
<1>6. QED
  BY <1>3, <1>4, <1>5

\* So does the first half of the replay ...
LEMMA ReplayArtifactKeeps ==
  ASSUME IInv, NEW h \in Recoverers, ReplayArtifact(h) PROVE IInv'
<1>1. /\ host[h].pc = "replay" /\ effects' = effects \cup {"artifact"}
      /\ Goto(h, "replay_row")
      /\ UNCHANGED <<log, fence, lease, runtime, owned, pending, history, decided, crashes>>
  BY DEF ReplayArtifact, At
<1>2. /\ WorldOK(log', lease', owned', effects', runtime') /\ Closing(log', runtime')
      /\ RowOK' /\ Onward(log, effects, runtime, log', effects', runtime')
      /\ pending' # None => Sound(pending', effects', runtime')
      /\ \A w \in history' : w \in history \/ Archived(w, log', effects', runtime')
  BY <1>1, EffectsGrow DEF AllEffects
<1>3. /\ Sound(Work(h), effects, runtime) /\ lease = "expired"
      /\ Reached("replay", Work(h), log, effects)
  BY <1>1, WorkFacts DEF Stage
<1>4. Sound(Work(h), effects', runtime')
  BY <1>2, <1>3, GoodKept
<1>5. Moved(h, "replay_row", host[h].after, Work(h))
  BY <1>1, GotoForm DEF Work, Places
<1>6. Reached("replay_row", Work(h), log', effects')
  BY <1>1, <1>3 DEF Reached, PastReplay, PastStop, PastTerminal, Stopping, Replaying
<1>7. host' = [host EXCEPT ![h] = host'[h]] /\ Good(host'[h], log', effects', runtime')
  BY <1>4, <1>5, <1>6, MovedGood
<1>8. Entitled(host'[h], lease', owned')
  BY <1>1, <1>3, <1>5, MovedEntitled
<1>9. QED
  BY <1>1, <1>2, <1>7, <1>8, StepKeeps

\* Once the row is there beside the artifact, the replay is done.
LEMMA ReplayedGood ==
  ASSUME IInv, NEW h \in Recoverers, Replayed(h), Work(h) \in Full,
         NEW L, NEW R, NEW le, NEW ow, Sound(Work(h), AllEffects, R), le = "expired"
  PROVE  /\ host' = [host EXCEPT ![h] = host'[h]]
         /\ Good(host'[h], L, AllEffects, R) /\ Entitled(host'[h], le, ow)
<1> DEFINE w == [Work(h) EXCEPT !.replayed = TRUE, !.status = "replay-completed"]
<1>1. Persist(h, w, EvidenceStage(w))
  BY DEF Replayed
<1>2. Like(w, Work(h))
  BY Marks
<1>3. w \in Full /\ w.plan = Work(h).plan /\ w.stopped = Work(h).stopped
  BY <1>2 DEF Like, Full
<1>4. Sound(w, AllEffects, R)
  BY <1>3 DEF Sound
<1> HIDE DEF w
<1>5. ReplayDone(w, AllEffects)
  BY DEF ReplayDone
<1>6. EvidenceStage(w) \in Stages /\ Reached(EvidenceStage(w), w, L, AllEffects)
  BY <1>3, <1>5, EvidenceStageReached
<1>7. Moved(h, "save", EvidenceStage(w), w)
  BY <1>1, <1>3, <1>6, PersistForm
<1>8. host' = [host EXCEPT ![h] = host'[h]] /\ Good(host'[h], L, AllEffects, R)
  BY <1>4, <1>6, <1>7, MovedGood
<1>9. QED
  BY <1>7, <1>8, MovedEntitled
\* ... a row that is found ...
LEMMA FindRowKeeps ==
  ASSUME IInv, NEW h \in Recoverers, FindRow(h) PROVE IInv'
<1>1. /\ host[h].pc = "replay_row"
      /\ UNCHANGED <<log, fence, world, pending, history, decided, crashes>>
      /\ IF "row" \in effects THEN Replayed(h) ELSE Goto(h, "replay_insert")
  BY DEF FindRow, At
<1>2. RowOK'
  BY <1>1 DEF IInv, RowOK
<1>3. /\ Work(h) \in Full /\ Sound(Work(h), effects, runtime) /\ lease = "expired"
      /\ Reached("replay_row", Work(h), log, effects)
  BY <1>1, WorkFacts DEF Stage
<1>4. "artifact" \in effects /\ effects \in SUBSET AllEffects
  BY <1>3 DEF Reached, IInv, WorldOK
<1>5. CASE "row" \in effects
  <2>1. effects = AllEffects
    BY <1>4, <1>5 DEF AllEffects
  <2>2. Replayed(h) /\ Sound(Work(h), AllEffects, runtime)
    BY <1>1, <1>3, <1>5, <2>1
  <2>3. /\ host' = [host EXCEPT ![h] = host'[h]]
        /\ Good(host'[h], log, AllEffects, runtime) /\ Entitled(host'[h], lease, owned)
    BY <1>3, <2>2, ReplayedGood
  <2>4. QED
    BY <1>1, <1>2, <2>1, <2>3, HostStepKeeps
<1>6. CASE Goto(h, "replay_insert")
  <2>1. Reached("replay_insert", Work(h), log, effects)
    BY <1>3, <1>4 DEF Reached, PastReplay, PastStop, PastTerminal, Stopping, Replaying
  <2>2. "replay_insert" \in Places \ {"observe", "save"}
    BY DEF Places
  <2>3. QED
    BY <1>1, <1>2, <1>3, <1>6, <2>1, <2>2, GotoKeeps
<1>7. QED
  BY <1>1, <1>5, <1>6

\* ... and a row that is inserted.
LEMMA InsertRowKeeps ==
  ASSUME IInv, NEW h \in Recoverers, InsertRow(h) PROVE IInv'
<1>1. /\ host[h].pc = "replay_insert" /\ effects' = effects \cup {"row"}
      /\ UNCHANGED <<log, fence, lease, runtime, owned, pending, history, decided, crashes>>
      /\ End(h) \/ Replayed(h)
  BY DEF InsertRow, At
<1>2. /\ WorldOK(log', lease', owned', effects', runtime') /\ Closing(log', runtime')
      /\ RowOK' /\ Onward(log, effects, runtime, log', effects', runtime')
      /\ pending' # None => Sound(pending', effects', runtime')
      /\ \A w \in history' : w \in history \/ Archived(w, log', effects', runtime')
  BY <1>1, EffectsGrow DEF AllEffects
<1>3. /\ Work(h) \in Full /\ Sound(Work(h), effects, runtime) /\ lease = "expired"
      /\ Reached("replay_insert", Work(h), log, effects)
  BY <1>1, WorkFacts DEF Stage
<1>4. effects' = AllEffects
  BY <1>1, <1>2, <1>3 DEF Reached, WorldOK, AllEffects
<1>5. Sound(Work(h), AllEffects, runtime')
  BY <1>2, <1>3, <1>4, GoodKept
<1>6. CASE End(h)
  BY <1>1, <1>2, <1>6, EndForm, StepKeeps
<1>7. CASE Replayed(h)
  <2>1. /\ host' = [host EXCEPT ![h] = host'[h]]
        /\ Good(host'[h], log', AllEffects, runtime') /\ Entitled(host'[h], lease', owned')
    BY <1>1, <1>3, <1>5, <1>7, ReplayedGood
  <2>2. QED
    BY <1>1, <1>2, <1>4, <2>1, StepKeeps
<1>8. QED
  BY <1>1, <1>6, <1>7

\* A log that grew by a record of the run is in order, and nothing is undone.
LEMMA LogGrows ==
  ASSUME IInv, NEW event \in Events, Appends(event), Closing(log', runtime'),
         UNCHANGED <<fence, world, pending, history, decided, crashes>>
  PROVE  /\ WorldOK(log', lease', owned', effects', runtime')
         /\ RowOK' /\ Onward(log, effects, runtime, log', effects', runtime')
         /\ pending' # None => Sound(pending', effects', runtime')
         /\ \A w \in history' : w \in history \/ Archived(w, log', effects', runtime')
<1>1. UNCHANGED <<lease, runtime, owned, effects>>
  BY DEF world
<1>2. /\ log' \in Seq(Events) /\ log' # << >>
      /\ \A n \in DOMAIN log' : log'[n].sequence = n - 1
      /\ \A n \in DOMAIN log : n \in DOMAIN log' /\ log'[n] = log[n]
  BY Appended
<1>3. Onward(log, effects, runtime, log', effects', runtime')
  BY <1>1, <1>2 DEF Onward
<1>4. WorldOK(log', lease', owned', effects', runtime') /\ RowOK'
  BY <1>1, <1>2 DEF IInv, WorldOK, RowOK
<1>5. pending' # None => Sound(pending', effects', runtime')
  BY <1>3, GoodKept DEF IInv, FilesOK
<1>6. QED
  BY <1>3, <1>4, <1>5

\* A record that closes nothing, or that follows its own evidence, keeps the
\* log closed in order.
LEMMA ClosingGrows ==
  ASSUME IInv, NEW event \in Events, Appends(event), runtime' = runtime,
         IsTerminal(event.lifecycle) =>
           /\ runtime # "running"
           /\ event.previous = <<event.decision, "evidence">>
  PROVE  Closing(log', runtime')
<1>1. CASE log' = log
  BY <1>1 DEF IInv
<1>2. CASE ~(log' = log)
  <2>1. /\ Len(log') = Len(log) + 1 /\ log'[Len(log')] = event
        /\ event.previous = Link(Root) /\ Len(log) \in Nat \ {0}
        /\ \A n \in DOMAIN log : n \in DOMAIN log' /\ log'[n] = log[n]
        /\ log' \in Seq(Events)
    BY <1>2, Appended
  <2>2. log \in Seq(Events) /\ Closing(log, runtime)
    BY DEF IInv, WorldOK
  <2>3. DOMAIN log = 1..Len(log) /\ DOMAIN log' = 1..(Len(log) + 1)
    BY <2>1, <2>2
  <2>4. Root \in Events /\ Root = log'[Len(log)]
    BY <2>1, <2>2, <2>3 DEF Root
  <2>5. IsTerminal(event.lifecycle) =>
          Root.kind = "evidence" /\ Root.decision = event.decision
    BY <2>1, <2>4 DEF Link, Events
  <2>6. ASSUME NEW n \in DOMAIN log', IsTerminal(log'[n].lifecycle)
        PROVE  n > 1 /\ log'[n - 1].kind = "evidence"
               /\ log'[n - 1].decision = log'[n].decision
    <3>1. CASE n = Len(log) + 1
      BY <2>1, <2>4, <2>5, <2>6, <3>1
    <3>2. CASE n # Len(log) + 1
      <4>1. n \in DOMAIN log /\ log'[n] = log[n]
        BY <2>1, <2>3, <3>2
      <4>2. n > 1 /\ log[n - 1].kind = "evidence" /\ log[n - 1].decision = log[n].decision
        BY <2>2, <2>6, <4>1 DEF Closing
      <4>3. n - 1 \in DOMAIN log
        BY <2>3, <4>1, <4>2
      <4>4. QED
        BY <2>1, <4>1, <4>2, <4>3
    <3>3. QED
      BY <3>1, <3>2
  <2>7. IsTerminal(log'[Len(log')].lifecycle) => runtime' # "running"
    BY <2>1
  <2>8. QED
    BY <2>6, <2>7 DEF Closing
<1>3. QED
  BY <1>1, <1>2
\* Appending the evidence keeps the invariant.
LEMMA AppendEvidenceKeeps ==
  ASSUME IInv, NEW h \in Recoverers, AppendEvidence(h) PROVE IInv'
<1> DEFINE w == [Work(h) EXCEPT !.evidence = TRUE, !.status = "evidence-appended"]
<1>1. /\ host[h].pc = "evidence"
      /\ UNCHANGED <<fence, world, pending, history, decided, crashes>>
      /\ \/ Appends(Evidence(Work(h))) /\ Persist(h, w, StopStage(w))
         \/ End(h) /\ UNCHANGED log
  BY DEF AppendEvidence, At
<1>2. UNCHANGED <<lease, runtime, owned, effects>>
  BY <1>1 DEF world
<1>3. /\ Work(h) \in Full /\ Sound(Work(h), effects, runtime) /\ lease = "expired"
      /\ Reached("evidence", Work(h), log, effects)
  BY <1>1, WorkFacts DEF Stage
<1>4. CASE End(h) /\ UNCHANGED log
  <2>1. RowOK'
    BY <1>1 DEF IInv, RowOK
  <2>2. QED
    BY <1>1, <1>4, <2>1, EndKeeps
<1>5. CASE Appends(Evidence(Work(h))) /\ Persist(h, w, StopStage(w))
  <2>1. Evidence(Work(h)) \in Events
    BY <1>3, EventForms
  <2>2. ~IsTerminal(Evidence(Work(h)).lifecycle)
    BY DEF Evidence, IsTerminal, TerminalLifecycles
  <2>3. Closing(log', runtime')
    BY <1>2, <1>5, <2>1, <2>2, ClosingGrows
  <2>4. /\ WorldOK(log', lease', owned', effects', runtime')
        /\ RowOK' /\ Onward(log, effects, runtime, log', effects', runtime')
        /\ pending' # None => Sound(pending', effects', runtime')
        /\ \A v \in history' : v \in history \/ Archived(v, log', effects', runtime')
    BY <1>1, <1>5, <2>1, <2>3, LogGrows
  <2>5. In(Evidence(Work(h)), log')
    BY <1>5, <2>1, Appended
  <2>6. Like(w, Work(h))
    BY <1>3, Marks
  <2>7. w \in Full /\ w.plan = Work(h).plan /\ w.replayed = Work(h).replayed
        /\ w.stopped = Work(h).stopped
    BY <1>3, <2>6 DEF Like, Full
  <2> HIDE DEF w
  <2>8. Sound(w, effects', runtime')
    BY <1>2, <1>3, <2>7 DEF Sound
  <2>9. ReplayDone(w, effects') /\ EvidenceDone(w, log')
    <3>1. ReplayDone(Work(h), effects')
      BY <1>2, <1>3 DEF Reached, PastReplay
    <3>2. EvidenceDone(Work(h), log')
      BY <2>5 DEF EvidenceDone
    <3>3. QED
      BY <2>6, <3>1, <3>2, LikeSame
  <2>10. StopStage(w) \in Stages /\ Reached(StopStage(w), w, log', effects')
    BY <2>7, <2>9, StopStageReached
  <2>11. Moved(h, "save", StopStage(w), w)
    BY <1>5, <2>7, <2>10, PersistForm
  <2>12. host' = [host EXCEPT ![h] = host'[h]] /\ Good(host'[h], log', effects', runtime')
    BY <2>8, <2>10, <2>11, MovedGood
  <2>13. Entitled(host'[h], lease', owned')
    BY <1>2, <1>3, <2>11, MovedEntitled
  <2>14. QED
    BY <1>1, <1>2, <2>3, <2>4, <2>12, <2>13, StepKeeps
<1>6. QED
  BY <1>1, <1>4, <1>5

\* So does closing the run: its evidence is the last record.
LEMMA AppendTerminalKeeps ==
  ASSUME IInv, NEW h \in Recoverers, AppendTerminal(h) PROVE IInv'
<1> DEFINE w == [Work(h) EXCEPT !.terminal = TRUE, !.status = "terminal-appended"]
<1>1. /\ host[h].pc = "terminal"
      /\ UNCHANGED <<fence, world, pending, history, decided, crashes>>
      /\ \/ Appends(Terminal(Work(h))) /\ Persist(h, w, "complete")
         \/ End(h) /\ UNCHANGED log
  BY DEF AppendTerminal, At
<1>2. UNCHANGED <<lease, runtime, owned, effects>>
  BY <1>1 DEF world
<1>3. /\ Work(h) \in Full /\ Sound(Work(h), effects, runtime) /\ lease = "expired"
      /\ Reached("terminal", Work(h), log, effects)
  BY <1>1, WorkFacts DEF Stage
<1>4. CASE End(h) /\ UNCHANGED log
  <2>1. RowOK'
    BY <1>1 DEF IInv, RowOK
  <2>2. QED
    BY <1>1, <1>4, <2>1, EndKeeps
<1>5. CASE Appends(Terminal(Work(h))) /\ Persist(h, w, "complete")
  <2>1. Work(h).plan.terminal # "none"
    BY <1>3 DEF Reached
  <2>2. Work(h).plan.evidence /\ ~Work(h).plan.stop
    BY <1>3, <2>1, PlanFacts
  <2>3. runtime # "running" /\ Terminal(Work(h)) \in Events
    BY <1>3, <2>1, EventForms DEF Sound
  <2>4. Terminal(Work(h)).previous = <<Terminal(Work(h)).decision, "evidence">>
    BY <2>2 DEF Terminal, Evidence, Link
  <2>5. Closing(log', runtime')
    BY <1>2, <1>5, <2>3, <2>4, ClosingGrows
  <2>6. /\ WorldOK(log', lease', owned', effects', runtime')
        /\ RowOK' /\ Onward(log, effects, runtime, log', effects', runtime')
        /\ pending' # None => Sound(pending', effects', runtime')
        /\ \A v \in history' : v \in history \/ Archived(v, log', effects', runtime')
    BY <1>1, <1>5, <2>3, <2>5, LogGrows
  <2>7. In(Terminal(Work(h)), log') /\ (In(Evidence(Work(h)), log) => In(Evidence(Work(h)), log'))
    BY <1>5, <2>3, Appended DEF In
  <2>8. Like(w, Work(h))
    BY <1>3, Marks
  <2>9. w \in Full /\ w.plan = Work(h).plan /\ w.replayed = Work(h).replayed
        /\ w.stopped = Work(h).stopped
    BY <1>3, <2>8 DEF Like, Full
  <2> HIDE DEF w
  <2>10. Sound(w, effects', runtime')
    BY <1>2, <1>3, <2>9 DEF Sound
  <2>11. Reached("complete", Work(h), log', effects')
    <3>1. ReplayDone(Work(h), effects')
      BY <1>2, <1>3 DEF Reached, PastReplay
    <3>2. EvidenceDone(Work(h), log')
      BY <1>3, <2>7 DEF Reached, PastReplay, EvidenceDone
    <3>3. TerminalDone(Work(h), log')
      BY <2>7 DEF TerminalDone
    <3>4. StopDone(Work(h))
      BY <2>2 DEF StopDone
    <3>5. QED
      BY <3>1, <3>2, <3>3, <3>4 DEF Reached, Stopping, Replaying
  <2>12. Reached("complete", w, log', effects')
    BY <2>8, <2>11, LikeSame
  <2>13. Moved(h, "save", "complete", w)
    BY <1>5, <2>9, PersistForm DEF Stages
  <2>14. host' = [host EXCEPT ![h] = host'[h]] /\ Good(host'[h], log', effects', runtime')
    BY <2>10, <2>12, <2>13, MovedGood
  <2>15. Entitled(host'[h], lease', owned')
    BY <1>2, <1>3, <2>13, MovedEntitled
  <2>16. QED
    BY <1>1, <1>2, <2>5, <2>6, <2>14, <2>15, StepKeeps
<1>6. QED
  BY <1>1, <1>4, <1>5

\* So does the look at the container.
LEMMA CheckStopKeeps ==
  ASSUME IInv, NEW h \in Recoverers, CheckStop(h) PROVE IInv'
<1>1. /\ host[h].pc = "stop"
      /\ UNCHANGED <<log, fence, world, pending, history, decided, crashes>>
      /\ End(h) \/ (owned /\ Goto(h, "docker_stop"))
  BY DEF CheckStop, At
<1>2. RowOK'
  BY <1>1 DEF IInv, RowOK
<1>3. /\ Sound(Work(h), effects, runtime) /\ lease = "expired"
      /\ Reached("stop", Work(h), log, effects)
  BY <1>1, WorkFacts DEF Stage
<1>4. Reached("docker_stop", Work(h), log, effects)
  BY <1>3 DEF Reached, PastReplay, PastStop, PastTerminal, Stopping, Replaying
<1>5. "docker_stop" \in Places \ {"observe", "save"}
  BY DEF Places
<1>6. QED
  BY <1>1, <1>2, <1>3, <1>4, <1>5, EndKeeps, GotoKeeps

\* A container only ends.
LEMMA RuntimeEnds ==
  ASSUME IInv, runtime' \in RuntimeStates, runtime' # "running",
         runtime = "absent" => runtime' = "absent",
         UNCHANGED <<log, fence, lease, owned, effects, pending, history, decided, crashes>>
  PROVE  /\ WorldOK(log', lease', owned', effects', runtime') /\ Closing(log', runtime')
         /\ RowOK' /\ Onward(log, effects, runtime, log', effects', runtime')
         /\ pending' # None => Sound(pending', effects', runtime')
         /\ \A w \in history' : w \in history \/ Archived(w, log', effects', runtime')
<1>1. Onward(log, effects, runtime, log', effects', runtime')
  BY DEF Onward
<1>2. WorldOK(log', lease', owned', effects', runtime') /\ Closing(log', runtime') /\ RowOK'
  BY DEF IInv, WorldOK, Closing, RowOK
<1>3. pending' # None => Sound(pending', effects', runtime')
  BY <1>1, GoodKept DEF IInv, FilesOK
<1>4. QED
  BY <1>1, <1>2, <1>3

\* A step of one recoverer that changes the container, or leaves it.
LEMMA RuntimeStep ==
  ASSUME IInv, runtime' \in RuntimeStates, runtime' # "running" \/ runtime' = runtime,
         runtime = "absent" => runtime' = "absent",
         UNCHANGED <<log, fence, lease, owned, effects, pending, history, decided, crashes>>,
         NEW h \in Recoverers, host' = [host EXCEPT ![h] = host'[h]],
         Good(host'[h], log', effects', runtime'), Entitled(host'[h], lease', owned')
  PROVE  IInv'
<1>1. CASE runtime' # "running"
  BY <1>1, RuntimeEnds, StepKeeps
<1>2. CASE runtime' = runtime
  <2>1. UNCHANGED <<log, world, pending, history>> /\ RowOK'
    BY <1>2 DEF world, IInv, RowOK
  <2>2. Good(host'[h], log, effects, runtime) /\ Entitled(host'[h], lease, owned)
    BY <1>2
  <2>3. QED
    BY <2>1, <2>2, HostStepKeeps
<1>3. QED
  BY <1>1, <1>2

\* So does docker stop ...
LEMMA DockerStopKeeps ==
  ASSUME IInv, NEW h \in Recoverers, DockerStop(h) PROVE IInv'
<1>1. /\ host[h].pc = "docker_stop"
      /\ UNCHANGED <<log, fence, lease, owned, effects, pending, history, decided, crashes>>
      /\ \/ End(h) /\ UNCHANGED runtime
         \/ /\ Goto(h, "docker_rm") /\ runtime # "absent"
            /\ runtime' \in {"exited_zero", "exited_nonzero"} \/ UNCHANGED runtime
  BY DEF DockerStop, At
<1>2. runtime \in RuntimeStates
  BY DEF IInv, WorldOK
<1>3. /\ runtime' \in RuntimeStates /\ (runtime' # "running" \/ runtime' = runtime)
      /\ (runtime = "absent" => runtime' = "absent")
      /\ (runtime # "running" => runtime' # "running")
  BY <1>1, <1>2 DEF RuntimeStates
<1>4. /\ Sound(Work(h), effects, runtime) /\ lease = "expired" /\ owned
      /\ Reached("docker_stop", Work(h), log, effects)
  BY <1>1, WorkFacts, HostFacts DEF Stage, Entitled
<1>5. CASE End(h)
  BY <1>1, <1>3, <1>5, EndForm, RuntimeStep
<1>6. CASE Goto(h, "docker_rm")
  <2>1. Moved(h, "docker_rm", host[h].after, Work(h))
    BY <1>6, GotoForm DEF Work, Places
  <2>2. Onward(log, effects, runtime, log', effects', runtime')
    BY <1>1, <1>3 DEF Onward
  <2>3. Sound(Work(h), effects', runtime')
    BY <1>4, <2>2, GoodKept
  <2>4. Reached("docker_rm", Work(h), log', effects')
    BY <1>1, <1>4 DEF Reached, PastReplay, PastStop, PastTerminal, Stopping, Replaying
  <2>5. host' = [host EXCEPT ![h] = host'[h]] /\ Good(host'[h], log', effects', runtime')
    BY <2>1, <2>3, <2>4, MovedGood
  <2>6. Entitled(host'[h], lease', owned')
    BY <1>1, <1>4, <2>1, MovedEntitled
  <2>7. QED
    BY <1>1, <1>3, <2>5, <2>6, RuntimeStep
<1>7. QED
  BY <1>1, <1>5, <1>6

\* ... and docker rm.
LEMMA DockerRemoveKeeps ==
  ASSUME IInv, NEW h \in Recoverers, DockerRemove(h) PROVE IInv'
<1> DEFINE w == [Work(h) EXCEPT !.stopped = TRUE, !.status = "reobserve-required"]
<1>1. /\ host[h].pc = "docker_rm" /\ runtime' = "absent"
      /\ UNCHANGED <<log, fence, lease, owned, effects, pending, history, decided, crashes>>
      /\ End(h) \/ Persist(h, w, "archive_stopped")
  BY DEF DockerRemove, At
<1>2. runtime' \in RuntimeStates /\ runtime' # "running"
  BY <1>1 DEF RuntimeStates
<1>3. /\ Work(h) \in Full /\ Sound(Work(h), effects, runtime) /\ lease = "expired"
      /\ Reached("docker_rm", Work(h), log, effects)
  BY <1>1, WorkFacts DEF Stage
<1>4. CASE End(h)
  BY <1>1, <1>2, <1>4, EndForm, RuntimeStep
<1>5. CASE Persist(h, w, "archive_stopped")
  <2>1. Like(w, Work(h))
    BY <1>3, Marks
  <2>2. w \in Full /\ w.plan = Work(h).plan /\ w.replayed = Work(h).replayed /\ w.stopped
    BY <1>3, <2>1 DEF Like, Full
  <2> HIDE DEF w
  <2>3. Sound(w, effects', runtime')
    BY <1>1, <1>3, <2>2 DEF Sound
  <2>4. Reached("docker_rm", w, log', effects')
    BY <1>1, <1>3, <2>1, LikeSame
  <2>5. Reached("archive_stopped", w, log', effects')
    BY <2>2, <2>4 DEF Reached, PastReplay, PastStop, PastTerminal, Stopping, Replaying,
       StopDone
  <2>6. Moved(h, "save", "archive_stopped", w)
    BY <1>5, <2>2, PersistForm
  <2>7. host' = [host EXCEPT ![h] = host'[h]] /\ Good(host'[h], log', effects', runtime')
    BY <2>3, <2>5, <2>6, MovedGood
  <2>8. Entitled(host'[h], lease', owned')
    <3>1. lease' = "expired" BY <1>1, <1>3
    <3>2. "save" \notin {"docker_stop", "docker_rm"} OBVIOUS
    <3>3. QED BY <2>6, <3>1, <3>2, MovedEntitled
  <2>9. QED
    BY <1>1, <1>2, <2>7, <2>8, RuntimeStep
<1>6. QED
  BY <1>1, <1>4, <1>5

\* So does the last mark on the record.
LEMMA CompleteKeeps ==
  ASSUME IInv, NEW h \in Recoverers, Complete(h) PROVE IInv'
<1> DEFINE w == [Work(h) EXCEPT !.status = "completed"]
<1>1. /\ host[h].pc = "complete" /\ Persist(h, w, "archive")
      /\ UNCHANGED <<log, fence, world, pending, history, decided, crashes>>
  BY DEF Complete, At
<1>2. RowOK'
  BY <1>1 DEF IInv, RowOK
<1>3. /\ Work(h) \in Full /\ Sound(Work(h), effects, runtime) /\ lease = "expired"
      /\ Reached("complete", Work(h), log, effects)
  BY <1>1, WorkFacts DEF Stage
<1>4. Like(w, Work(h))
  BY <1>3, Marks
<1>5. w \in Full /\ w.plan = Work(h).plan /\ w.replayed = Work(h).replayed
      /\ w.stopped = Work(h).stopped
  BY <1>3, <1>4 DEF Like, Full
<1> HIDE DEF w
<1>6. Sound(w, effects, runtime)
  BY <1>3, <1>5 DEF Sound
<1>7. Reached("archive", Work(h), log, effects)
  BY <1>3 DEF Reached, PastReplay, PastStop, PastTerminal, Stopping, Replaying
<1>8. Reached("archive", w, log, effects)
  BY <1>4, <1>7, LikeSame
<1>9. Moved(h, "save", "archive", w)
  BY <1>1, <1>5, PersistForm
<1>10. host' = [host EXCEPT ![h] = host'[h]] /\ Good(host'[h], log, effects, runtime)
  BY <1>6, <1>8, <1>9, MovedGood
<1>11. Entitled(host'[h], lease, owned)
  BY <1>3, <1>9, MovedEntitled
<1>12. QED
  BY <1>1, <1>2, <1>10, <1>11, HostStepKeeps
-----------------------------------------------------------------------------
(* The files, the end of the call, the environment.                        *)

\* Archive keeps the invariant: what it adds to the history was done.
LEMMA ArchiveKeeps ==
  ASSUME IInv, NEW h \in Recoverers, Archive(h) PROVE IInv'
<1>1. /\ host[h].pc \in {"archive", "archive_stopped"}
      /\ UNCHANGED <<log, fence, world, pending, decided, crashes>>
      /\ \/ End(h) /\ UNCHANGED history
         \/ /\ history' = history \cup {Work(h)}
            /\ Goto(h, "unlink") \/ Goto(h, "unlink_stopped")
  BY DEF Archive, At
<1>2. UNCHANGED <<lease, runtime, owned, effects>>
  BY <1>1 DEF world
<1>3. /\ Work(h) \in Full /\ Sound(Work(h), effects, runtime) /\ lease = "expired"
      /\ Reached(host[h].pc, Work(h), log, effects)
  BY <1>1, WorkFacts DEF Stage
<1>4. RowOK'
  BY <1>1 DEF IInv, RowOK
<1>5. CASE End(h) /\ UNCHANGED history
  BY <1>1, <1>4, <1>5, EndKeeps
<1>6. CASE /\ history' = history \cup {Work(h)}
           /\ Goto(h, "unlink") \/ Goto(h, "unlink_stopped")
  <2>1. ReplayDone(Work(h), effects) /\ EvidenceDone(Work(h), log) /\ StopDone(Work(h))
    BY <1>1, <1>3 DEF Reached, PastReplay, PastStop
  <2>2. TerminalDone(Work(h), log)
    <3>1. CASE host[h].pc = "archive"
      BY <1>3, <3>1 DEF Reached, PastTerminal
    <3>2. CASE host[h].pc = "archive_stopped"
      BY <1>3, <3>2, PlanFacts DEF Reached, Stopping, TerminalDone
    <3>3. QED
      BY <1>1, <3>1, <3>2
  <2>3. Archived(Work(h), log', effects', runtime')
    BY <1>1, <1>2, <1>3, <2>1, <2>2 DEF Archived
  <2>4. \A w \in history' : w \in history \/ Archived(w, log', effects', runtime')
    BY <1>6, <2>3
  <2>5. PICK pc \in {"unlink", "unlink_stopped"} : Goto(h, pc)
    BY <1>6
  <2>6. Moved(h, pc, host[h].after, Work(h))
    BY <2>5, GotoForm DEF Work, Places
  <2>7. Reached(pc, Work(h), log, effects)
    BY <2>5 DEF Reached, PastReplay, PastStop, PastTerminal, Stopping, Replaying
  <2>8. host' = [host EXCEPT ![h] = host'[h]] /\ Good(host'[h], log, effects, runtime)
    BY <1>3, <2>5, <2>6, <2>7, MovedGood
  <2>9. Entitled(host'[h], lease, owned)
    BY <1>3, <2>5, <2>6, MovedEntitled
  <2>10. Good(host'[h], log', effects', runtime') /\ Entitled(host'[h], lease', owned')
    BY <1>1, <1>2, <2>8, <2>9
  <2>11. WorldOK(log', lease', owned', effects', runtime') /\ Closing(log', runtime')
    BY <1>1, <1>2 DEF IInv
  <2>12. Onward(log, effects, runtime, log', effects', runtime')
    BY <1>1, <1>2 DEF Onward
  <2>13. pending' # None => Sound(pending', effects', runtime')
    BY <1>1, <1>2 DEF IInv, FilesOK
  <2>14. QED
    BY <1>2, <1>4, <2>4, <2>8, <2>10, <2>11, <2>12, <2>13, StepKeeps
<1>7. QED
  BY <1>1, <1>5, <1>6

\* So does Unlink.
LEMMA UnlinkKeeps ==
  ASSUME IInv, NEW h \in Recoverers, Unlink(h) PROVE IInv'
<1>1. /\ host[h].pc \in {"unlink", "unlink_stopped"} /\ pending' = None
      /\ UNCHANGED <<log, fence, world, history, decided, crashes>>
      /\ Goto(h, "release") \/ Goto(h, "reobserve")
  BY DEF Unlink, At
<1>2. UNCHANGED <<lease, runtime, owned, effects>>
  BY <1>1 DEF world
<1>3. Sound(Work(h), effects, runtime) /\ lease = "expired"
  BY <1>1, WorkFacts
<1>4. PICK pc \in {"release", "reobserve"} : Goto(h, pc)
  BY <1>1
<1>5. Moved(h, pc, host[h].after, Work(h))
  BY <1>4, GotoForm DEF Work, Places
<1>6. Reached(pc, Work(h), log, effects)
  BY <1>4 DEF Reached, PastReplay, PastStop, PastTerminal, Stopping, Replaying
<1>7. host' = [host EXCEPT ![h] = host'[h]] /\ Good(host'[h], log, effects, runtime)
  BY <1>3, <1>4, <1>5, <1>6, MovedGood
<1>8. Entitled(host'[h], lease, owned)
  BY <1>3, <1>4, <1>5, MovedEntitled
<1>9. Good(host'[h], log', effects', runtime') /\ Entitled(host'[h], lease', owned')
  BY <1>1, <1>2, <1>7, <1>8
<1>10. WorldOK(log', lease', owned', effects', runtime') /\ Closing(log', runtime') /\ RowOK'
  BY <1>1, <1>2 DEF IInv, RowOK
<1>11. Onward(log, effects, runtime, log', effects', runtime')
  BY <1>1, <1>2 DEF Onward
<1>12. pending' # None => Sound(pending', effects', runtime')
  BY <1>1
<1>13. \A w \in history' : w \in history \/ Archived(w, log', effects', runtime')
  BY <1>1
<1>14. QED
  BY <1>2, <1>7, <1>9, <1>10, <1>11, <1>12, <1>13, StepKeeps

\* So does Release.
LEMMA ReleaseKeeps ==
  ASSUME IInv, NEW h \in Recoverers, Release(h) PROVE IInv'
<1>1. /\ UNCHANGED <<log, world, pending, history, decided, crashes>> /\ End(h)
      /\ fence' = [fence EXCEPT !.live = FALSE] \/ fence' = fence
  BY DEF Release
<1>2. RowOK'
  BY <1>1 DEF IInv, RowOK
<1>3. QED
  BY <1>1, <1>2, EndKeeps

\* So does a death.
LEMMA CrashKeeps ==
  ASSUME IInv, NEW h \in Recoverers, Crash(h) PROVE IInv'
<1>1. /\ UNCHANGED <<log, fence, world, pending, history, decided>> /\ End(h)
      /\ crashes' = crashes + 1
  BY DEF Crash
<1>2. RowOK'
  BY <1>1 DEF IInv, RowOK
<1>3. QED
  BY <1>1, <1>2, EndKeeps

\* What no recoverer does, but may happen between two of their steps.
LEMMA EnvironmentKeeps ==
  ASSUME IInv, FenceExpires \/ LeaseExpires \/ RuntimeExits
  PROVE  IInv'
<1>1. CASE FenceExpires
  <2>1. UNCHANGED <<log, lease, runtime, owned, effects, pending, history, host>>
    BY <1>1 DEF FenceExpires, world
  <2>2. RowOK'
    BY <1>1 DEF FenceExpires, IInv, RowOK
  <2>3. QED
    BY <2>1, <2>2 DEF IInv, HostsOK, FilesOK
<1>2. CASE LeaseExpires
  <2>1. /\ UNCHANGED <<log, fence, runtime, owned, effects, pending, history, host, decided,
                       crashes>>
        /\ lease' = "expired"
    BY <1>2 DEF LeaseExpires
  <2>2. WorldOK(log', lease', owned', effects', runtime') /\ RowOK'
    BY <2>1 DEF IInv, WorldOK, RowOK
  <2>3. \A h \in Recoverers : Entitled(host'[h], lease', owned')
    BY <2>1 DEF IInv, HostsOK, Entitled
  <2>4. QED
    BY <2>1, <2>2, <2>3 DEF IInv, HostsOK, FilesOK
<1>3. CASE RuntimeExits
  <2>1. /\ UNCHANGED <<log, fence, lease, owned, effects, pending, history, host, decided,
                       crashes>>
        /\ runtime = "running" /\ runtime' \in {"exited_zero", "exited_nonzero"}
    BY <1>3 DEF RuntimeExits
  <2>2. runtime' \in RuntimeStates /\ runtime' # "running" /\ runtime # "absent"
    BY <2>1 DEF RuntimeStates
  <2>3. /\ WorldOK(log', lease', owned', effects', runtime') /\ Closing(log', runtime')
        /\ RowOK' /\ Onward(log, effects, runtime, log', effects', runtime')
        /\ pending' # None => Sound(pending', effects', runtime')
        /\ \A w \in history' : w \in history \/ Archived(w, log', effects', runtime')
    BY <2>1, <2>2, RuntimeEnds
  <2>4. FilesOK'
    <3> SUFFICES ASSUME NEW w \in history' PROVE Archived(w, log', effects', runtime')
      BY <2>3 DEF FilesOK
    <3>1. w \in history => Archived(w, log, effects, runtime)
      BY DEF IInv, FilesOK
    <3>2. QED
      BY <2>3, <3>1, GoodKept
  <2>5. HostsOK'
    <3>1. \A h \in Recoverers : Good(host'[h], log', effects', runtime')
      <4> SUFFICES ASSUME NEW h \in Recoverers
                   PROVE  Good(host'[h], log', effects', runtime')
        OBVIOUS
      <4>1. Good(host[h], log, effects, runtime)
        BY HostFacts
      <4>2. QED
        BY <2>1, <2>3, <4>1, GoodKept
    <3>2. QED
      BY <2>1, <3>1 DEF IInv, HostsOK
  <2>6. QED
    BY <2>3, <2>4, <2>5 DEF IInv
<1>4. QED
  BY <1>1, <1>2, <1>3

-----------------------------------------------------------------------------
(* The invariant, and what follows from it.                                *)

\* The invariant holds at the start.
LEMMA InitHolds == Init => IInv
<1> SUFFICES ASSUME Init PROVE IInv
  OBVIOUS
<1>1. log = << Genesis >> /\ Genesis \in Events
  BY DEF Init, Genesis, Events, Decisions, Links, Lifecycles
<1>2. log \in Seq(Events) /\ Len(log) = 1 /\ log[1] = Genesis /\ DOMAIN log = {1}
  BY <1>1
<1>3. log # << >> /\ \A n \in DOMAIN log : log[n].sequence = n - 1
  BY <1>2 DEF Genesis
<1>4. WorldOK(log, lease, owned, effects, runtime)
  BY <1>2, <1>3, ContainersAssumption DEF Init, WorldOK
<1>5. Closing(log, runtime)
  BY <1>2 DEF Closing, Genesis, IsTerminal, TerminalLifecycles
<1>6. RowOK
  BY DEF Init, RowOK
<1>7. \A h \in Recoverers : host[h] = Idle
  BY DEF Init
<1>8. Idle \in HostSet /\ Idle.pc = "idle"
  BY DEF Idle, HostSet, Places, Works
<1>9. HostsOK
  BY <1>7, <1>8 DEF Init, HostsOK, Good, Entitled
<1>10. FilesOK
  BY DEF Init, FilesOK
<1>11. QED
  BY <1>4, <1>5, <1>6, <1>9, <1>10 DEF IInv

\* Every step keeps it.
LEMMA NextKeeps == IInv /\ [Next]_vars => IInv'
<1> SUFFICES ASSUME IInv, [Next]_vars PROVE IInv'
  OBVIOUS
<1>1. CASE UNCHANGED vars
  BY <1>1 DEF vars, IInv, RowOK, HostsOK, FilesOK
<1>2. ASSUME NEW h \in Recoverers, Step(h) PROVE IInv'
  BY <1>2, LoadKeeps, ObserveKeeps, AcquireKeeps, RefreshKeeps, SaveKeeps,
     ReplayArtifactKeeps, FindRowKeeps, InsertRowKeeps, AppendEvidenceKeeps,
     CheckStopKeeps, DockerStopKeeps, DockerRemoveKeeps, AppendTerminalKeeps,
     CompleteKeeps, ArchiveKeeps, UnlinkKeeps, ReobserveKeeps, ReleaseKeeps DEF Step
<1>3. ASSUME NEW h \in Recoverers, Crash(h) PROVE IInv'
  BY <1>3, CrashKeeps
<1>4. CASE FenceExpires \/ LeaseExpires \/ RuntimeExits
  BY <1>4, EnvironmentKeeps
<1>5. QED
  BY <1>1, <1>2, <1>3, <1>4 DEF Next

\* It holds of every behaviour.
LEMMA Invariant == Spec => []IInv
BY InitHolds, NextKeeps, PTL DEF Spec

\* Every variable keeps its type, for any number of recoverers, any plans and
\* any number of deaths.
THEOREM TypeCorrect == Spec => []TypeOK
<1>1. IInv => TypeOK
  <2> SUFFICES ASSUME IInv PROVE TypeOK
    OBVIOUS
  <2>1. \A n \in DOMAIN log : log[n].lifecycle \in Lifecycles /\ log[n].sequence = n - 1
    <3>1. log \in Seq(Events) /\ \A n \in DOMAIN log : log[n].sequence = n - 1
      BY DEF IInv, WorldOK
    <3>2. \A n \in DOMAIN log : log[n] \in Events
      BY <3>1
    <3>3. QED
      BY <3>1, <3>2 DEF Events
  <2>2. /\ fence \in [holder : Recoverers \cup {None}, token : Nat, live : BOOLEAN]
        /\ lease \in {"active", "expired"} /\ runtime \in RuntimeStates
        /\ owned \in BOOLEAN /\ effects \subseteq {"artifact", "row"}
    BY DEF IInv, RowOK, WorldOK, AllEffects
  <2>3. ASSUME NEW h \in Recoverers
        PROVE  /\ host[h].pc \in Places
               /\ host[h].after \in Stages \cup {"idle", "archive", "archive_stopped"}
    BY HostFacts DEF HostSet
  <2>4. ASSUME NEW h \in Recoverers, host[h].pc = "save" PROVE host[h].after # "idle"
    BY <2>4, HostFacts DEF Good
  <2>5. ASSUME NEW h \in Recoverers
        PROVE  host[h].pc = "save" => host[h].after \in Stages \cup {"archive", "archive_stopped"}
    BY <2>3, <2>4
  <2>6. QED
    BY <2>1, <2>2, <2>3, <2>5 DEF TypeOK, Places
<1>2. QED
  BY <1>1, Invariant, PTL

\* No run is closed but by the record after the evidence of the same decision,
\* however many recoverers work on it and die.
THEOREM EvidencePrecedes == Spec => []TerminalFollowsItsEvidence
<1>1. IInv => TerminalFollowsItsEvidence
  BY DEF IInv, Closing, TerminalFollowsItsEvidence
<1>2. QED
  BY <1>1, Invariant, PTL

\* No run is closed while its container runs.
THEOREM ClosedStopped == Spec => []ClosedMeansStopped
<1>1. IInv => ClosedMeansStopped
  BY DEF IInv, Closing, ClosedMeansStopped, Root
<1>2. QED
  BY <1>1, Invariant, PTL

\* What the custody history says was done was done.
THEOREM HistoryTrue == Spec => []HistoryIsTrue
<1>1. IInv => HistoryIsTrue
  BY DEF IInv, FilesOK, Archived, Sound, ReplayDone, EvidenceDone, TerminalDone, In,
         AllEffects, HistoryIsTrue, RetainedEvent
<1>2. QED
  BY <1>1, Invariant, PTL

\* A container is stopped only for a decision whose evidence is retained, under
\* a lease that is over, and only when it is the run's own.
THEOREM StopRecorded == Spec => StopIsRecorded
<1>1. IInv /\ [Next]_vars =>
        [\A h \in Recoverers :
           At(h, "docker_stop") /\ host'[h].pc = "docker_rm" =>
             /\ RetainedEvent(Evidence(Work(h)))
             /\ owned /\ lease = "expired"]_vars
  <2> SUFFICES ASSUME IInv, NEW h \in Recoverers, At(h, "docker_stop")
               PROVE  RetainedEvent(Evidence(Work(h))) /\ owned /\ lease = "expired"
    OBVIOUS
  <2>1. /\ Work(h) \in Full /\ lease = "expired" /\ owned
        /\ Reached("docker_stop", Work(h), log, effects)
    BY WorkFacts, HostFacts DEF At, Stage, Entitled
  <2>2. Work(h).plan.evidence
    BY <2>1, PlanFacts DEF Reached, Stopping
  <2>3. EvidenceDone(Work(h), log)
    BY <2>1 DEF Reached, PastReplay
  <2>4. QED
    BY <2>1, <2>2, <2>3 DEF EvidenceDone, In, RetainedEvent
<1>2. QED
  BY <1>1, Invariant, PTL DEF Spec, StopIsRecorded

-----------------------------------------------------------------------------
(* One recoverer that dies and restarts.  Two recoverers may read the      *)
(* active file before either holds the fence, and then a decision that is  *)
(* over can come back and replace another one, so this part is about one   *)
(* of them; what such a decision still does is the part on the archive.    *)

OneRecoverer == \A g, h \in Recoverers : g = h

Filing  == {"archive", "archive_stopped"}
Leaving == {"unlink", "unlink_stopped"}

(* What a step of a recoverer does to its record and to the files.         *)

Files == <<pending, history, decided>>

\* Records of one decision that will write the same.
Says(v, w) ==
  v.decision = w.decision /\ v.plan = w.plan /\ v.count = w.count /\ v.root = w.root

Ends(h) == host'[h] = Idle /\ UNCHANGED Files
Fresh(h) ==
  /\ host[h].pc = "idle" /\ pending = None
  /\ host'[h].pc = "observe" /\ host'[h].work = [decision |-> <<decided + 1, 1>>]
  /\ decided' = decided + 1 /\ UNCHANGED <<pending, history>>
Resumes(h) ==
  /\ host[h].pc = "idle" /\ pending # None
  /\ host'[h].pc = "acquire" /\ host'[h].work = pending
  /\ UNCHANGED Files
Builds(h) ==
  /\ host[h].pc = "observe" /\ host'[h].pc = "acquire"
  /\ host'[h].work.decision = Work(h).decision
  /\ UNCHANGED Files
Goes(h) ==
  /\ host[h].pc \notin {"idle", "observe", "save", "reobserve", "release"} \cup Filing \cup Leaving
  /\ host'[h].pc \notin {"idle", "observe", "reobserve", "release"} \cup Filing \cup Leaving
  /\ Stage(host'[h]) \notin Leaving \cup {"idle", "reobserve", "release"}
  /\ Says(host'[h].work, Work(h))
  /\ Stage(host'[h]) = "archive_stopped" => runtime # "absent" /\ runtime' = "absent"
  /\ UNCHANGED Files
Saves(h) ==
  /\ host[h].pc = "save" /\ host'[h].pc = host[h].after
  /\ host[h].after \in Stages \cup Filing
  /\ host'[h].work = Work(h) /\ pending' = Work(h)
  /\ UNCHANGED <<history, decided>>
Archives(h) ==
  /\ host[h].pc \in Filing
  /\ host'[h].pc = IF host[h].pc = "archive" THEN "unlink" ELSE "unlink_stopped"
  /\ host'[h].work = Work(h) /\ history' = history \cup {Work(h)}
  /\ UNCHANGED <<pending, decided>>
Unlinks(h) ==
  /\ host[h].pc \in Leaving
  /\ host'[h].pc = IF host[h].pc = "unlink" THEN "release" ELSE "reobserve"
  /\ host'[h].work = Work(h) /\ pending' = None
  /\ UNCHANGED <<history, decided>>
Reobserves(h) ==
  /\ host[h].pc = "reobserve" /\ host'[h].pc = "save" /\ host'[h].after \in Stages
  /\ host'[h].work.decision = <<Work(h).decision[1], 2>>
  /\ UNCHANGED Files

\* A call that ends.
LEMMA EndShape ==
  ASSUME IInv, NEW h \in Recoverers, End(h), UNCHANGED Files
  PROVE  Ends(h)
BY HostFacts DEF End, Ends

\* The stages that come after a stop is settled.
LEMMA StageFacts ==
  ASSUME NEW w \in Full
  PROVE  /\ TerminalStage(w) \in {"terminal", "complete"}
         /\ StopStage(w) \in Stages
         /\ EvidenceStage(w) \in Stages
         /\ FirstStage(w) \in Stages
         /\ "archive_stopped" \notin Stages
BY DEF TerminalStage, StopStage, EvidenceStage, FirstStage, Stages

\* A record saved next, that says what the one at hand says.
LEMMA PersistShape ==
  ASSUME IInv, NEW h \in Recoverers, NEW w \in Full,
         NEW stage \in Stages \cup Filing, Persist(h, w, stage),
         host[h].pc \notin {"idle", "observe", "save", "reobserve", "release"} \cup Filing \cup Leaving,
         Says(w, Work(h)),
         stage = "archive_stopped" => runtime # "absent" /\ runtime' = "absent",
         UNCHANGED Files
  PROVE  Goes(h)
<1>1. Moved(h, "save", stage, w) BY PersistForm DEF Filing
<1>2. host'[h].pc = "save" /\ host'[h].work = w /\ Stage(host'[h]) = stage
  BY <1>1 DEF Moved, Stage
<1>3. stage \notin Leaving \cup {"idle", "reobserve", "release"}
  BY DEF Stages, Filing, Leaving
<1>4. QED BY <1>2, <1>3 DEF Goes, Says, Filing, Leaving

\* A place taken with a record that says what the one at hand says.
LEMMA PlaceShape ==
  ASSUME IInv, NEW h \in Recoverers, NEW w \in Full,
         NEW pc \in {"refresh", "replay_row", "replay_insert", "docker_stop", "docker_rm"},
         Moved(h, pc, host[h].after, w),
         host[h].pc \notin {"idle", "observe", "save", "reobserve", "release"} \cup Filing \cup Leaving,
         Says(w, Work(h)),
         UNCHANGED Files
  PROVE  Goes(h)
<1>1. host'[h].pc = pc /\ host'[h].work = w /\ Stage(host'[h]) = pc
  BY DEF Moved, Stage
<1>2. pc \notin Leaving \cup Filing \cup {"idle", "observe", "reobserve", "release"}
  BY DEF Filing, Leaving
<1>3. QED BY <1>1, <1>2 DEF Goes, Says, Filing

\* Up to the persisted plan.
LEMMA PlanShape ==
  ASSUME IInv, NEW h \in Recoverers,
         Load(h) \/ Observe(h) \/ Acquire(h) \/ Refresh(h) \/ Save(h)
  PROVE  \/ Ends(h)
         \/ Fresh(h) \/ Resumes(h) \/ Builds(h) \/ Goes(h) \/ Saves(h)
<1>0. host \in [Recoverers -> HostSet] /\ Good(host[h], log, effects, runtime)
  BY HostFacts
<1>1. CASE Load(h)
  BY <1>0, <1>1 DEF Load, At, Fresh, Resumes, Files, Idle
<1>2. CASE Observe(h)
  <2> DEFINE w == Build(Work(h).decision, host[h].plan)
  <2>1. /\ host[h].pc = "observe" /\ UNCHANGED Files
        /\ End(h) \/ GotoWith(h, "acquire", w)
    BY <1>2 DEF Observe, At, Files
  <2>2. Work(h).decision \in Decisions BY <1>0, <2>1 DEF Good, Work
  <2>3. w \in Full BY <2>2, BuildSound DEF Sound
  <2>4. w.decision = Work(h).decision BY DEF Build
  <2> HIDE DEF w
  <2>5. CASE GotoWith(h, "acquire", w)
    <3>1. Moved(h, "acquire", host[h].after, w) BY <2>3, <2>5, GotoWithForm DEF Places
    <3>2. QED BY <2>1, <2>4, <3>1 DEF Moved, Builds
  <2>6. QED BY <2>1, <2>5, EndShape DEF Filing, Leaving
<1>3. CASE Acquire(h)
  <2> DEFINE w == [Work(h) EXCEPT !.holder = h, !.token = fence'.token]
  <2>1. /\ host[h].pc = "acquire" /\ UNCHANGED Files
        /\ \/ End(h)
           \/ /\ fence' = IF fence.live THEN fence
                          ELSE [holder |-> h, token |-> fence.token + 1, live |-> TRUE]
              /\ Persist(h, w, FirstStage(w)) \/ GotoWith(h, "refresh", w)
    BY <1>3 DEF Acquire, At, Files
  <2>2. CASE /\ fence' = IF fence.live THEN fence
                         ELSE [holder |-> h, token |-> fence.token + 1, live |-> TRUE]
             /\ Persist(h, w, FirstStage(w)) \/ GotoWith(h, "refresh", w)
    <3>1. fence'.token \in Nat BY <2>2 DEF IInv, RowOK
    <3>2. Work(h) \in Full BY <2>1, WorkFacts
    <3>3. w \in Full /\ Says(w, Work(h)) /\ w.plan = Work(h).plan
        BY <3>1, <3>2 DEF Full, Says
    <3> HIDE DEF w
    <3>4. CASE Persist(h, w, FirstStage(w))
      BY <2>1, <3>3, <3>4, StageFacts, PersistShape DEF Filing, Leaving
    <3>5. CASE GotoWith(h, "refresh", w)
      <4>1. Moved(h, "refresh", host[h].after, w) BY <3>3, <3>5, GotoWithForm DEF Places
      <4>2. QED BY <2>1, <3>3, <4>1, PlaceShape DEF Filing, Leaving
    <3>6. QED BY <2>2, <3>4, <3>5
  <2>3. QED BY <2>1, <2>2, EndShape DEF Filing, Leaving
<1>4. CASE Refresh(h)
  <2>1. /\ host[h].pc = "refresh" /\ UNCHANGED Files
        /\ End(h) \/ Persist(h, Work(h), FirstStage(Work(h)))
    BY <1>4 DEF Refresh, At, Files
  <2>2. Work(h) \in Full BY <2>1, WorkFacts
  <2>3. CASE Persist(h, Work(h), FirstStage(Work(h)))
    BY <2>1, <2>2, <2>3, StageFacts, PersistShape DEF Says, Filing, Leaving
  <2>4. QED BY <2>1, <2>3, EndShape DEF Filing, Leaving
<1>5. CASE Save(h)
  <2>1. /\ host[h].pc = "save" /\ pending' = Work(h) /\ UNCHANGED <<history, decided>>
        /\ host' = [host EXCEPT ![h].pc = host[h].after, ![h].after = "idle"]
    BY <1>5 DEF Save, At
  <2>2. host[h] \in HostSet /\ host[h].after # "idle" BY <1>0, <2>1 DEF Good
  <2>3. host[h].after \in Stages \cup Filing BY <2>2 DEF HostSet, Filing
  <2>4. host'[h].pc = host[h].after /\ host'[h].work = Work(h)
    BY <1>0, <2>1, <2>2 DEF HostSet, Work
  <2>5. QED BY <2>1, <2>3, <2>4 DEF Saves
<1>6. QED BY <1>1, <1>2, <1>3, <1>4, <1>5

\* The stages of _execute_pending.
LEMMA ExecuteShape ==
  ASSUME IInv, NEW h \in Recoverers,
         \/ ReplayArtifact(h) \/ FindRow(h) \/ InsertRow(h) \/ AppendEvidence(h)
         \/ CheckStop(h) \/ DockerStop(h) \/ DockerRemove(h)
         \/ AppendTerminal(h) \/ Complete(h)
  PROVE  Ends(h) \/ Goes(h)
<1>1. /\ host[h].pc \in {"replay", "replay_row", "replay_insert", "evidence", "stop",
                         "docker_stop", "docker_rm", "terminal", "complete"}
      /\ UNCHANGED Files
  BY DEF ReplayArtifact, FindRow, InsertRow, AppendEvidence, CheckStop, DockerStop,
         DockerRemove, AppendTerminal, Complete, At, Files
<1>2. /\ host[h].pc \notin {"idle", "observe", "save", "reobserve", "release"} \cup Filing \cup Leaving
      /\ host[h].pc \notin Filing \cup Leaving
  BY <1>1 DEF Filing, Leaving
<1>3. Work(h) \in Full BY <1>1, WorkFacts
<1>4. ASSUME End(h) PROVE Ends(h) BY <1>1, <1>4, EndShape
<1>5. ASSUME NEW pc \in {"replay_row", "replay_insert", "docker_stop", "docker_rm"}, Goto(h, pc)
      PROVE  Goes(h)
  <2>1. pc \in Places \ {"save"} BY DEF Places
  <2>2. Moved(h, pc, host[h].after, Work(h)) BY <1>5, <2>1, GotoForm DEF Work
  <2>3. QED BY <1>1, <1>2, <1>3, <2>2, PlaceShape DEF Says
<1>6. CASE Replayed(h)
  <2> DEFINE w == [Work(h) EXCEPT !.replayed = TRUE, !.status = "replay-completed"]
  <2>1. Persist(h, w, EvidenceStage(w)) BY <1>6 DEF Replayed
  <2>2. w \in Full /\ Says(w, Work(h)) /\ w.plan = Work(h).plan
    BY <1>3 DEF Full, Says
  <2> HIDE DEF w
  <2>3. QED BY <1>1, <1>2, <2>1, <2>2, StageFacts, PersistShape
<1>7. ASSUME AppendEvidence(h), ~End(h) PROVE Goes(h)
  <2> DEFINE w == [Work(h) EXCEPT !.evidence = TRUE, !.status = "evidence-appended"]
  <2>1. Persist(h, w, StopStage(w)) BY <1>7 DEF AppendEvidence
  <2>2. w \in Full /\ Says(w, Work(h)) /\ w.plan = Work(h).plan
    BY <1>3 DEF Full, Says
  <2> HIDE DEF w
  <2>3. QED BY <1>1, <1>2, <2>1, <2>2, StageFacts, PersistShape
<1>8. ASSUME DockerRemove(h), ~End(h) PROVE Goes(h)
  <2> DEFINE w == [Work(h) EXCEPT !.stopped = TRUE, !.status = "reobserve-required"]
  <2>1. Persist(h, w, "archive_stopped") /\ runtime # "absent" /\ runtime' = "absent"
    BY <1>8 DEF DockerRemove
  <2>2. w \in Full /\ Says(w, Work(h)) /\ w.plan = Work(h).plan
    BY <1>3 DEF Full, Says
  <2> HIDE DEF w
  <2>3. "archive_stopped" \in Filing BY DEF Filing
  <2>4. QED BY <1>1, <1>2, <2>1, <2>2, <2>3, PersistShape
<1>9. ASSUME AppendTerminal(h), ~End(h) PROVE Goes(h)
  <2> DEFINE w == [Work(h) EXCEPT !.terminal = TRUE, !.status = "terminal-appended"]
  <2>1. Persist(h, w, "complete") /\ host[h].pc = "terminal" BY <1>9 DEF AppendTerminal, At
  <2>2. w \in Full /\ Says(w, Work(h)) /\ w.plan = Work(h).plan
    BY <1>3 DEF Full, Says
  <2> HIDE DEF w
  <2>3. "complete" \in Stages BY DEF Stages
  <2>4. QED BY <1>1, <1>2, <2>1, <2>2, <2>3, PersistShape
<1>10. ASSUME Complete(h) PROVE Goes(h)
  <2> DEFINE w == [Work(h) EXCEPT !.status = "completed"]
  <2>1. Persist(h, w, "archive") /\ host[h].pc = "complete" BY <1>10 DEF Complete, At
  <2>2. w \in Full /\ Says(w, Work(h)) /\ w.plan = Work(h).plan
    BY <1>3 DEF Full, Says
  <2> HIDE DEF w
  <2>3. "archive" \in Filing BY DEF Filing
  <2>4. QED BY <1>1, <1>2, <2>1, <2>2, <2>3, PersistShape
<1>11. CASE ReplayArtifact(h) BY <1>5, <1>11 DEF ReplayArtifact
<1>12. CASE FindRow(h) \/ InsertRow(h)
  BY <1>2, <1>4, <1>5, <1>6, <1>12 DEF FindRow, InsertRow
<1>13. CASE CheckStop(h) BY <1>2, <1>4, <1>5, <1>13 DEF CheckStop
<1>14. CASE DockerStop(h) BY <1>2, <1>4, <1>5, <1>14 DEF DockerStop
<1>15. QED
  BY <1>2, <1>4, <1>7, <1>8, <1>9, <1>10, <1>11, <1>12, <1>13, <1>14

\* Archiving, and the end of reconcile.
LEMMA ArchiveShape ==
  ASSUME IInv, NEW h \in Recoverers,
         Archive(h) \/ Unlink(h) \/ Reobserve(h) \/ Release(h)
  PROVE  \/ Ends(h)
         \/ Archives(h) \/ Unlinks(h) \/ Reobserves(h)
<1>1. CASE Archive(h)
  <2>1. CASE End(h) /\ UNCHANGED history
    BY <1>1, <2>1, EndShape DEF Archive, Files
  <2>2. CASE /\ history' = history \cup {Work(h)}
             /\ Goto(h, IF At(h, "archive") THEN "unlink" ELSE "unlink_stopped")
    <3> DEFINE pc == IF At(h, "archive") THEN "unlink" ELSE "unlink_stopped"
    <3>1. pc \in Places \ {"save"} BY DEF Places
    <3>2. Moved(h, pc, host[h].after, Work(h)) BY <2>2, <3>1, GotoForm DEF Work
    <3>3. host[h].pc \in Filing /\ UNCHANGED <<pending, decided>>
      BY <1>1 DEF Archive, At, Filing
    <3>4. QED BY <2>2, <3>2, <3>3 DEF Moved, Archives, At
  <2>3. QED BY <1>1, <2>1, <2>2 DEF Archive, At, Filing
<1>2. CASE Unlink(h)
  <2> DEFINE pc == IF At(h, "unlink") THEN "release" ELSE "reobserve"
  <2>1. pc \in Places \ {"save"} BY DEF Places
  <2>2. Goto(h, pc) /\ pending' = None /\ UNCHANGED <<history, decided>>
        /\ host[h].pc \in Leaving
    BY <1>2 DEF Unlink, At, Leaving
  <2>3. Moved(h, pc, host[h].after, Work(h)) BY <2>1, <2>2, GotoForm DEF Work
  <2>4. QED BY <2>2, <2>3 DEF Moved, Unlinks, At
<1>3. CASE Reobserve(h)
  <2> DEFINE old == Work(h)
             built == Build(<<old.decision[1], 2>>, host[h].plan)
             new == [built EXCEPT !.holder = old.holder, !.token = old.token]
  <2>1. /\ host[h].pc = "reobserve" /\ UNCHANGED Files
        /\ End(h) \/ (~new.plan.stop /\ Persist(h, new, FirstStage(new)))
    BY <1>3 DEF Reobserve, At, Files
  <2>2. old \in Full BY <2>1, WorkFacts
  <2>3. <<old.decision[1], 2>> \in Decisions BY <2>2 DEF Full, Decisions
  <2>4. built \in Full BY <2>3, BuildSound DEF Sound
  <2>5. built.decision = <<old.decision[1], 2>> BY DEF Build
  <2> HIDE DEF built
  <2>6. old.holder \in Recoverers \cup {None} /\ old.token \in Nat BY <2>2 DEF Full
  <2>7. new \in Full /\ new.decision = <<old.decision[1], 2>>
    BY <2>4, <2>5, <2>6 DEF Full
  <2> HIDE DEF new
  <2>8. CASE ~new.plan.stop /\ Persist(h, new, FirstStage(new))
    <3>1. FirstStage(new) \in Stages BY <2>7, StageFacts
    <3>2. Moved(h, "save", FirstStage(new), new) BY <2>7, <2>8, <3>1, PersistForm
    <3>3. QED BY <2>1, <2>7, <2>8, <3>1, <3>2 DEF Moved, Reobserves
  <2>9. QED BY <2>1, <2>8, EndShape DEF Filing, Leaving
<1>4. CASE Release(h)
  BY <1>4, EndShape DEF Release, At, Files, Filing, Leaving
<1>5. QED BY <1>1, <1>2, <1>3, <1>4

\* A recoverer's step is its own.
Alone(h) == \A k \in Recoverers : k # h => host'[k] = host[k]

LEMMA StepAlone ==
  ASSUME IInv, NEW h \in Recoverers, Step(h) \/ Crash(h) PROVE Alone(h)
<1>0. host \in [Recoverers -> HostSet] BY HostFacts
<1>1. ASSUME NEW r, host' = [host EXCEPT ![h] = r] PROVE Alone(h)
  BY <1>0, <1>1 DEF Alone
<1>2. End(h) => Alone(h) BY <1>1 DEF End
<1>3. \A pc : Goto(h, pc) => Alone(h) BY <1>0 DEF Goto, Alone
<1>4. \A pc, w : GotoWith(h, pc, w) => Alone(h) BY <1>0 DEF GotoWith, Alone
<1>5. \A w, stage : Persist(h, w, stage) => Alone(h) BY <1>0 DEF Persist, Alone
<1>6. Load(h) => Alone(h) BY <1>1 DEF Load
<1>7. Save(h) => Alone(h) BY <1>0 DEF Save, Alone
<1>8. Observe(h) \/ Acquire(h) \/ Refresh(h) => Alone(h)
  BY <1>2, <1>4, <1>5 DEF Observe, Acquire, Refresh
<1>9. ReplayArtifact(h) \/ FindRow(h) \/ InsertRow(h) => Alone(h)
  BY <1>2, <1>3, <1>5 DEF ReplayArtifact, FindRow, InsertRow, Replayed
<1>10. AppendEvidence(h) \/ AppendTerminal(h) \/ Complete(h) => Alone(h)
  BY <1>2, <1>5 DEF AppendEvidence, AppendTerminal, Complete
<1>11. CheckStop(h) \/ DockerStop(h) \/ DockerRemove(h) => Alone(h)
  BY <1>2, <1>3, <1>5 DEF CheckStop, DockerStop, DockerRemove
<1>12. Archive(h) \/ Unlink(h) \/ Reobserve(h) \/ Release(h) \/ Crash(h) => Alone(h)
  BY <1>2, <1>3, <1>5 DEF Archive, Unlink, Reobserve, Release, Crash
<1>13. QED BY <1>6, <1>7, <1>8, <1>9, <1>10, <1>11, <1>12 DEF Step

\* Every step is one of these, or leaves the recoverers and the files.
LEMMA NextShape ==
  ASSUME IInv, [Next]_vars
  PROVE  \/ UNCHANGED host /\ UNCHANGED Files
         \/ \E h \in Recoverers :
              /\ Alone(h)
              /\ \/ Ends(h)
                 \/ Fresh(h) \/ Resumes(h) \/ Builds(h) \/ Goes(h) \/ Saves(h)
                 \/ Archives(h) \/ Unlinks(h) \/ Reobserves(h)
<1>1. CASE UNCHANGED vars BY <1>1 DEF vars, Files
<1>2. CASE FenceExpires \/ LeaseExpires \/ RuntimeExits
  BY <1>2 DEF FenceExpires, LeaseExpires, RuntimeExits, Files
<1>3. ASSUME NEW h \in Recoverers, Crash(h) PROVE Ends(h)
  BY <1>3, EndShape DEF Crash, Files
<1>4. ASSUME NEW h \in Recoverers, Step(h)
      PROVE  \/ Ends(h)
             \/ Fresh(h) \/ Resumes(h) \/ Builds(h) \/ Goes(h) \/ Saves(h)
             \/ Archives(h) \/ Unlinks(h) \/ Reobserves(h)
  BY <1>4, PlanShape, ExecuteShape, ArchiveShape DEF Step
<1>5. QED BY <1>1, <1>2, <1>3, <1>4, StepAlone DEF Next

-----------------------------------------------------------------------------
(* The decision at hand is the one of the active file.                     *)

AtHand ==
  \A h \in Recoverers :
    /\ host[h].pc # "idle" /\ pending # None => pending.decision = host[h].work.decision
    /\ host[h].pc = "reobserve" => pending = None

LEMMA AtHandKept ==
  ASSUME OneRecoverer, IInv, AtHand, [Next]_vars
  PROVE  /\ AtHand'
         /\ pending # None /\ pending' # None => pending'.decision = pending.decision
<1>1. CASE UNCHANGED host /\ UNCHANGED Files BY <1>1 DEF AtHand, Files
<1>2. ASSUME NEW h \in Recoverers, Ends(h)
      PROVE  AtHand' /\ UNCHANGED pending
  BY <1>2 DEF OneRecoverer, AtHand, Ends, Files, Idle
<1>3. ASSUME NEW h \in Recoverers, Fresh(h) \/ Resumes(h) \/ Builds(h) \/ Goes(h)
      PROVE  AtHand' /\ UNCHANGED pending
  BY <1>3 DEF OneRecoverer, AtHand, Fresh, Resumes, Builds, Goes, Says, Files, Work
<1>4. ASSUME NEW h \in Recoverers, Saves(h)
      PROVE  AtHand' /\ (pending # None => pending'.decision = pending.decision)
  BY <1>4 DEF OneRecoverer, AtHand, Saves, Work, Stages, Filing
<1>5. ASSUME NEW h \in Recoverers, Archives(h)
      PROVE  AtHand' /\ UNCHANGED pending
  BY <1>5 DEF OneRecoverer, AtHand, Archives, Work, Filing
<1>6. ASSUME NEW h \in Recoverers, Unlinks(h)
      PROVE  AtHand' /\ pending' = None
  BY <1>6 DEF OneRecoverer, AtHand, Unlinks
<1>7. ASSUME NEW h \in Recoverers, Reobserves(h)
      PROVE  AtHand' /\ UNCHANGED pending
  BY <1>7 DEF OneRecoverer, AtHand, Reobserves, Files
<1>8. QED
  BY <1>1, <1>2, <1>3, <1>4, <1>5, <1>6, <1>7, NextShape DEF Files

\* For one recoverer the decision at hand is always that of the active file.
LEMMA AtHandAlways == ASSUME OneRecoverer PROVE Spec => []AtHand
<1>1. Init => AtHand BY DEF Init, AtHand
<1>2. IInv /\ AtHand /\ [Next]_vars => AtHand' BY AtHandKept
<1>3. QED BY <1>1, <1>2, Invariant, PTL DEF Spec

\* An unfinished decision is resumed and never replaced by another one, for
\* one recoverer and however often and wherever it dies.
THEOREM NeverReplaced == ASSUME OneRecoverer PROVE Spec => PendingNotReplaced
<1>1. IInv /\ AtHand /\ [Next]_vars =>
        [pending # None /\ pending' # None => pending'.decision = pending.decision]_vars
  BY AtHandKept
<1>2. QED BY <1>1, AtHandAlways, Invariant, PTL DEF Spec, PendingNotReplaced

\* Decisions are pairs, wherever they are kept.
LEMMA Pairs ==
  ASSUME IInv
  PROVE  /\ \A w \in history : w \in Full /\ w.decision \in Nat \X Nat
         /\ pending # None => pending \in Full /\ pending.decision \in Nat \X Nat
         /\ \A h \in Recoverers : host[h].pc # "idle" => Work(h).decision \in Nat \X Nat
         /\ decided \in Nat
<1>1. \A w \in Full : w.decision \in Nat \X Nat BY DEF Full, Decisions
<1>2. \A w \in history : w \in Full BY DEF IInv, FilesOK, Archived, Sound
<1>3. pending # None => pending \in Full BY DEF IInv, FilesOK, Sound
<1>4. ASSUME NEW h \in Recoverers, host[h].pc # "idle" PROVE Work(h).decision \in Nat \X Nat
  <2>1. CASE host[h].pc = "observe"
    <3>1. Work(h) \in [decision : Decisions] BY <2>1, HostFacts DEF Good, Work
    <3>2. QED BY <3>1 DEF Decisions
  <2>2. CASE host[h].pc # "observe" BY <1>1, <1>4, <2>2, WorkFacts
  <2>3. QED BY <2>1, <2>2
<1>5. QED BY <1>1, <1>2, <1>3, <1>4 DEF IInv, RowOK

-----------------------------------------------------------------------------
(* What the recoverers append.  A decision keeps its number and its words  *)
(* through every hand and file, so that its evidence, or its terminal      *)
(* event, is one event however often and by whomever it is appended.       *)

Carrying(h)  == host[h].pc \notin {"idle", "observe"}
Observing(h) == host[h].pc = "observe"
\* Between removing the container and the decision that follows.
Removed(h)   == Stage(host[h]) \in {"archive_stopped", "unlink_stopped", "reobserve"}

\* The records in the hands of recoverers and in the files, and the decisions
\* that these or the log are about.
Kept ==
  {Work(h) : h \in {k \in Recoverers : Carrying(k)}} \cup ({pending} \ {None}) \cup history
Taken == {w.decision : w \in Kept} \cup {log[n].decision : n \in DOMAIN log}

\* Records of one decision say the same, and the log has it from them.
OneMeaning ==
  /\ \A v, w \in Kept : v.decision = w.decision => Says(v, w)
  /\ \A w \in Kept : \A n \in DOMAIN log :
       log[n].decision = w.decision => log[n] \in {Evidence(w), Terminal(w)}

\* A decision that is being made has a number of its own,
OwnNumber ==
  /\ \A d \in Taken : d[1] <= decided
  /\ \A h \in Recoverers : Observing(h) =>
       /\ Work(h).decision \notin Taken
       /\ Work(h).decision[1] <= decided /\ Work(h).decision[2] = 1
       /\ \A k \in Recoverers :
            Observing(k) /\ Work(k).decision = Work(h).decision => k = h

\* and one that follows a stop is the only one, since a container is removed once.
OneRemoval ==
  /\ \A g, h \in Recoverers : Removed(g) /\ Removed(h) => g = h
  /\ \A h \in Recoverers : Removed(h) => runtime = "absent" /\ \A d \in Taken : d[2] # 2
  /\ \A d \in Taken : d[2] = 2 => runtime = "absent"

Decisive == OneMeaning /\ OwnNumber /\ OneRemoval

\* The log grows by the events of a record that is carried.
LEMMA LogStep ==
  ASSUME IInv, [Next]_vars
  PROVE  \/ UNCHANGED log
         \/ \E h \in Recoverers : \E e \in Events :
              /\ Carrying(h) /\ e \in {Evidence(Work(h)), Terminal(Work(h))} /\ Appends(e)
<1>1. CASE UNCHANGED vars BY <1>1 DEF vars
<1>2. CASE FenceExpires \/ LeaseExpires \/ RuntimeExits
  BY <1>2 DEF FenceExpires, LeaseExpires, RuntimeExits
<1>3. ASSUME NEW h \in Recoverers, Crash(h) PROVE UNCHANGED log BY <1>3 DEF Crash
<1>4. ASSUME NEW h \in Recoverers, Step(h), ~AppendEvidence(h), ~AppendTerminal(h)
      PROVE  UNCHANGED log
  BY <1>4 DEF Step, Load, Observe, Acquire, Refresh, Save, ReplayArtifact, FindRow, InsertRow,
     CheckStop, DockerStop, DockerRemove, Complete, Archive, Unlink, Reobserve, Release
<1>5. ASSUME NEW h \in Recoverers, AppendEvidence(h)
      PROVE  \/ UNCHANGED log
             \/ Carrying(h) /\ Evidence(Work(h)) \in Events /\ Appends(Evidence(Work(h)))
  <2>1. host[h].pc = "evidence" BY <1>5 DEF AppendEvidence, At
  <2>2. Work(h) \in Full BY <2>1, WorkFacts
  <2>3. QED BY <1>5, <2>1, <2>2, EventForms DEF AppendEvidence, Carrying
<1>6. ASSUME NEW h \in Recoverers, AppendTerminal(h)
      PROVE  \/ UNCHANGED log
             \/ Carrying(h) /\ Terminal(Work(h)) \in Events /\ Appends(Terminal(Work(h)))
  <2>1. host[h].pc = "terminal" BY <1>6 DEF AppendTerminal, At
  <2>2. Work(h) \in Full /\ Work(h).plan.terminal # "none"
    BY <2>1, WorkFacts DEF Reached, Stage
  <2>3. QED BY <1>6, <2>1, <2>2, EventForms DEF AppendTerminal, Carrying
<1>7. QED BY <1>1, <1>2, <1>3, <1>4, <1>5, <1>6 DEF Next

\* Every event of the grown log was there, or is a kept record's.
LEMMA LogFrom ==
  ASSUME IInv, [Next]_vars
  PROVE  \A n \in DOMAIN log' :
           \/ n \in DOMAIN log /\ log'[n] = log[n]
           \/ \E w \in Kept : log'[n] \in {Evidence(w), Terminal(w)}
<1>1. CASE UNCHANGED log BY <1>1
<1>2. ASSUME NEW h \in Recoverers, NEW e \in Events, Carrying(h),
             e \in {Evidence(Work(h)), Terminal(Work(h))}, Appends(e),
             NEW n \in DOMAIN log'
      PROVE  \/ n \in DOMAIN log /\ log'[n] = log[n]
             \/ \E w \in Kept : log'[n] \in {Evidence(w), Terminal(w)}
  <2>1. Work(h) \in Kept BY <1>2 DEF Kept
  <2>2. log \in Seq(Events) /\ log' \in Seq(Events) BY <1>2, Appended DEF IInv, WorldOK
  <2>3. \A m \in DOMAIN log : log'[m] = log[m] BY <1>2, Appended
  <2>4. log' = log \/ (Len(log') = Len(log) + 1 /\ log'[Len(log')] = e)
    BY <1>2, Appended
  <2>5. DOMAIN log = 1 .. Len(log) /\ DOMAIN log' = 1 .. Len(log') /\ Len(log) \in Nat
    BY <2>2
  <2>6. n \in DOMAIN log \/ log'[n] = e
    <3>1. CASE log' = log BY <3>1
    <3>2. CASE Len(log') = Len(log) + 1 /\ log'[Len(log')] = e
      <4>1. n \in 1 .. Len(log) \/ n = Len(log') BY <2>5, <3>2
      <4>2. QED BY <2>5, <3>2, <4>1
    <3>3. QED BY <2>4, <3>1, <3>2
  <2>7. QED BY <1>2, <2>1, <2>3, <2>6
<1>3. QED BY <1>1, <1>2, LogStep

\* The recoverer h does one of the things that a step does to records and files.
Acts(h) ==
  Alone(h) /\ (\/ Ends(h) \/ Fresh(h) \/ Resumes(h) \/ Builds(h) \/ Goes(h) \/ Saves(h)
               \/ Archives(h) \/ Unlinks(h) \/ Reobserves(h))

LEMMA Acting ==
  ASSUME IInv, [Next]_vars
  PROVE  \/ UNCHANGED host /\ UNCHANGED Files
         \/ \E h \in Recoverers : Acts(h)
BY NextShape DEF Acts

\* What is kept after a step says what was kept, but for one new record.
LEMMA KeptFrom ==
  ASSUME NEW h \in Recoverers, Acts(h), NEW v \in Kept'
  PROVE  \/ \E w \in Kept : Says(v, w)
         \/ (Builds(h) \/ Reobserves(h)) /\ v = host'[h].work
<1>1. \A w : Says(w, w) BY DEF Says
<1>2. \A w \in Kept : \E u \in Kept : Says(w, u) BY <1>1
<1>3. CASE \E k \in Recoverers : k # h /\ Carrying(k)' /\ v = Work(k)'
  <2>1. PICK k \in Recoverers : k # h /\ Carrying(k)' /\ v = Work(k)' BY <1>3
  <2>2. host'[k] = host[k] BY <2>1 DEF Acts, Alone
  <2>3. Carrying(k) /\ v = Work(k) BY <2>1, <2>2 DEF Carrying, Work
  <2>4. v \in Kept BY <2>3 DEF Kept
  <2>5. QED BY <1>2, <2>4
<1>4. CASE Carrying(h)' /\ v = Work(h)'
  <2>1. v = host'[h].work /\ host'[h].pc \notin {"idle", "observe"}
    BY <1>4 DEF Carrying, Work
  <2>2. CASE Resumes(h)
    <3>1. v = pending /\ pending # None BY <2>1, <2>2 DEF Resumes
    <3>2. QED BY <1>2, <3>1 DEF Kept
  <2>3. CASE Goes(h) \/ Saves(h) \/ Archives(h) \/ Unlinks(h)
    <3>1. Carrying(h) /\ Says(v, Work(h))
      BY <1>1, <2>1, <2>3 DEF Goes, Saves, Archives, Unlinks, Carrying, Filing, Leaving
    <3>2. QED BY <3>1 DEF Kept
  <2>4. CASE Ends(h) \/ Fresh(h) BY <2>1, <2>4 DEF Ends, Fresh, Idle
  <2>5. QED BY <1>4, <2>1, <2>2, <2>3, <2>4 DEF Acts
<1>5. CASE v = pending' /\ pending' # None
  <2>1. pending' = pending \/ (Saves(h) /\ pending' = Work(h))
    BY <1>5 DEF Acts, Ends, Fresh, Resumes, Builds, Goes, Saves, Archives, Unlinks, Reobserves,
                Files
  <2>2. v \in Kept BY <1>5, <2>1 DEF Kept, Carrying, Saves
  <2>3. QED BY <1>2, <2>2
<1>6. CASE v \in history'
  <2>1. history' = history \/ (Archives(h) /\ history' = history \cup {Work(h)})
    BY DEF Acts, Ends, Fresh, Resumes, Builds, Goes, Saves, Archives, Unlinks, Reobserves, Files
  <2>2. v \in Kept BY <1>6, <2>1 DEF Kept, Carrying, Archives, Filing
  <2>3. QED BY <1>2, <2>2
<1>7. QED BY <1>3, <1>4, <1>5, <1>6 DEF Kept

\* The decision of a new record is one that nothing was about.
LEMMA NewDecision ==
  ASSUME IInv, Decisive, NEW h \in Recoverers, Builds(h) \/ Reobserves(h)
  PROVE  /\ host'[h].work.decision \notin Taken
         /\ host'[h].work.decision[1] <= decided
         /\ Builds(h) => Observing(h) /\ host'[h].work.decision = Work(h).decision
         /\ Reobserves(h) => Removed(h) /\ host'[h].work.decision[2] = 2
<1>1. CASE Builds(h)
  <2>1. Observing(h) /\ host'[h].work.decision = Work(h).decision /\ host[h].pc # "reobserve"
    BY <1>1 DEF Builds, Observing
  <2>2. ~Reobserves(h) BY <2>1 DEF Reobserves
  <2>3. QED BY <2>1, <2>2 DEF Decisive, OwnNumber
<1>2. CASE Reobserves(h)
  <2>1. /\ host[h].pc = "reobserve"
        /\ host'[h].work.decision = <<Work(h).decision[1], 2>>
    BY <1>2 DEF Reobserves
  <2>2. Removed(h) /\ Work(h) \in Kept /\ ~Builds(h)
    BY <2>1 DEF Removed, Stage, Kept, Carrying, Builds
  <2>3. Work(h).decision[1] <= decided BY <2>2 DEF Decisive, OwnNumber, Taken
  <2>4. \A d \in Taken : d[2] # 2 BY <2>2 DEF Decisive, OneRemoval
  <2>5. QED BY <2>1, <2>2, <2>3, <2>4
<1>3. QED BY <1>1, <1>2

\* When nothing moves but the world, what is kept is the same.
LEMMA KeptSame == ASSUME UNCHANGED host, UNCHANGED Files PROVE Kept' = Kept
BY DEF Kept, Carrying, Work, Files

LEMMA SaysSame ==
  ASSUME NEW v, NEW w, Says(v, w)
  PROVE  Evidence(v) = Evidence(w) /\ Terminal(v) = Terminal(w)
BY DEF Says, Evidence, Terminal

\* What records, and events, are about.
LEMMA MeaningKept ==
  ASSUME IInv, OneMeaning, [Next]_vars, NEW new,
         \A v \in Kept' : (\E w \in Kept : Says(v, w)) \/ v = new,
         new \in Kept' => (\E w \in Kept : Says(new, w)) \/ new.decision \notin Taken
  PROVE  /\ OneMeaning'
         /\ \A d \in Taken' : d \in Taken \/ (new \in Kept' /\ d = new.decision)
<1>1. \A v, w : Says(v, w) => v.decision = w.decision BY DEF Says
<1>2. ASSUME NEW n \in DOMAIN log'
      PROVE  \/ n \in DOMAIN log /\ log'[n] = log[n] /\ log'[n].decision \in Taken
             \/ \E u \in Kept : /\ log'[n] \in {Evidence(u), Terminal(u)}
                                /\ log'[n].decision = u.decision /\ u.decision \in Taken
  BY LogFrom DEF Taken, Evidence, Terminal
<1>3. \A w \in Kept : w.decision \in Taken BY DEF Taken
<1>4. ASSUME NEW v \in Kept', NEW w \in Kept', v.decision = w.decision PROVE Says(v, w)
  <2>1. CASE \E u \in Kept : Says(v, u)
    <3>1. PICK u \in Kept : Says(v, u) BY <2>1
    <3>2. w # new \/ \E x \in Kept : Says(new, x) BY <1>1, <1>3, <1>4, <3>1
    <3>3. PICK x \in Kept : Says(w, x) BY <3>2
    <3>4. Says(u, x) BY <1>1, <1>4, <3>1, <3>3 DEF OneMeaning
    <3>5. QED BY <3>1, <3>3, <3>4 DEF Says
  <2>2. CASE v = new /\ ~(\E u \in Kept : Says(v, u))
    <3>1. v.decision \notin Taken BY <2>2
    <3>2. w = new BY <1>1, <1>3, <1>4, <3>1
    <3>3. QED BY <2>2, <3>2 DEF Says
  <2>3. QED BY <2>1, <2>2
<1>5. ASSUME NEW w \in Kept', NEW n \in DOMAIN log', log'[n].decision = w.decision
      PROVE  log'[n] \in {Evidence(w), Terminal(w)}
  <2>1. w.decision \in Taken BY <1>2, <1>5
  <2>2. PICK x \in Kept : Says(w, x) BY <2>1
  <2>3. Evidence(w) = Evidence(x) /\ Terminal(w) = Terminal(x) /\ w.decision = x.decision
    BY <1>1, <2>2, SaysSame
  <2>4. CASE n \in DOMAIN log /\ log'[n] = log[n]
    <3>1. log[n] \in {Evidence(x), Terminal(x)} BY <1>5, <2>3, <2>4 DEF OneMeaning
    <3>2. QED BY <2>3, <2>4, <3>1
  <2>5. CASE \E u \in Kept : /\ log'[n] \in {Evidence(u), Terminal(u)}
                             /\ log'[n].decision = u.decision
    <3>1. PICK u \in Kept : /\ log'[n] \in {Evidence(u), Terminal(u)}
                            /\ log'[n].decision = u.decision
      BY <2>5
    <3>2. Says(u, x) BY <1>5, <2>3, <3>1 DEF OneMeaning
    <3>3. QED BY <2>3, <3>1, <3>2, SaysSame
  <2>6. QED BY <1>2, <2>4, <2>5
<1>6. \A w : Evidence(w)' = Evidence(w) /\ Terminal(w)' = Terminal(w)
  BY DEF Evidence, Terminal
<1>7. OneMeaning' BY <1>4, <1>5, <1>6 DEF OneMeaning
<1>8. ASSUME NEW d \in Taken' PROVE d \in Taken \/ (new \in Kept' /\ d = new.decision)
  <2>1. CASE \E v \in Kept' : d = v.decision
    BY <1>1, <1>3, <2>1
  <2>2. CASE \E n \in DOMAIN log' : d = log'[n].decision
    BY <1>2, <2>2
  <2>3. QED BY <2>1, <2>2 DEF Taken
<1>9. QED BY <1>7, <1>8

\* A container that is gone does not come back.
LEMMA AbsentStays ==
  ASSUME IInv, [Next]_vars, runtime = "absent" PROVE runtime' = "absent"
<1>1. CASE UNCHANGED vars BY <1>1 DEF vars
<1>2. CASE FenceExpires \/ LeaseExpires \/ RuntimeExits
  BY <1>2 DEF FenceExpires, LeaseExpires, RuntimeExits, world
<1>3. ASSUME NEW h \in Recoverers, Crash(h) PROVE runtime' = "absent"
  BY <1>3 DEF Crash, world
<1>4. ASSUME NEW h \in Recoverers, Step(h) PROVE runtime' = "absent"
  BY <1>4 DEF Step, Load, Observe, Acquire, Refresh, Save, ReplayArtifact, FindRow, InsertRow,
     AppendEvidence, AppendTerminal, CheckStop, DockerStop, DockerRemove, Complete, Archive,
     Unlink, Reobserve, Release, world
<1>5. QED BY <1>1, <1>2, <1>3, <1>4 DEF Next

\* Who comes to have removed the container finds it there.
LEMMA RemovedFrom ==
  ASSUME IInv, NEW h \in Recoverers, Acts(h), NEW k \in Recoverers, Removed(k)'
  PROVE  /\ Removed(k) \/ (k = h /\ Goes(h) /\ runtime # "absent" /\ runtime' = "absent")
         /\ k = h => ~Reobserves(h)
<1>1. CASE k # h
  <2>1. host'[k] = host[k] BY <1>1 DEF Acts, Alone
  <2>2. QED BY <1>1, <2>1 DEF Removed, Stage
<1>2. CASE k = h
  <2>1. Stage(host'[h]) \in {"archive_stopped", "unlink_stopped", "reobserve"}
    BY <1>2 DEF Removed, Stage
  <2>2. ~Ends(h) /\ ~Fresh(h) /\ ~Resumes(h) /\ ~Builds(h)
    BY <2>1 DEF Ends, Fresh, Resumes, Builds, Stage, Idle
  <2>3. ~Reobserves(h) BY <2>1 DEF Reobserves, Stage, Stages
  <2>4. CASE Goes(h) BY <1>2, <2>1, <2>3, <2>4 DEF Goes, Leaving
  <2>5. CASE Saves(h)
    <3>1. host'[h].pc = host[h].after /\ host[h].pc = "save" /\ host[h].after # "save"
      BY <2>5 DEF Saves, Stages, Filing
    <3>2. QED BY <1>2, <2>1, <2>3, <3>1 DEF Removed, Stage
  <2>6. CASE Archives(h) \/ Unlinks(h)
    BY <1>2, <2>1, <2>3, <2>6 DEF Archives, Unlinks, Filing, Leaving, Removed, Stage
  <2>7. QED BY <2>2, <2>3, <2>4, <2>5, <2>6 DEF Acts
<1>3. QED BY <1>1, <1>2

\* Decisions are pairs.
LEMMA TakenPairs ==
  ASSUME IInv PROVE \A d \in Taken : d \in Nat \X Nat
<1>1. \A w \in Kept : w.decision \in Nat \X Nat
  BY Pairs DEF Kept, Carrying
<1>2. \A n \in DOMAIN log : log[n].decision \in Nat \X Nat
  <2>1. log \in Seq(Events) BY DEF IInv, WorldOK
  <2>2. \A n \in DOMAIN log : log[n] \in Events BY <2>1
  <2>3. QED BY <2>2 DEF Events, Decisions
<1>3. QED BY <1>1, <1>2 DEF Taken

LEMMA DecisiveActs ==
  ASSUME IInv, Decisive, [Next]_vars, NEW h \in Recoverers, Acts(h)
  PROVE  Decisive'
<1> DEFINE new == host'[h].work
           Makes == Builds(h) \/ Reobserves(h)
<1>1. \A v \in Kept' : (\E w \in Kept : Says(v, w)) \/ (Makes /\ v = new) BY KeptFrom
<1>2. Makes => /\ new.decision \notin Taken /\ new.decision[1] <= decided
               /\ Builds(h) => Observing(h) /\ new.decision = Work(h).decision
               /\ Reobserves(h) => Removed(h) /\ new.decision[2] = 2
  BY NewDecision
<1>3. /\ Fresh(h) => /\ new.decision = <<decided + 1, 1>> /\ decided' = decided + 1
      /\ Fresh(h) => ~Makes
      /\ Work(h)' = new
  BY DEF Fresh, Work, Builds, Reobserves
<1>4. Makes => Builds(h) \/ Reobserves(h) OBVIOUS
<1> HIDE DEF new, Makes
<1>5. /\ OneMeaning'
      /\ \A d \in Taken' : d \in Taken \/ (new \in Kept' /\ d = new.decision)
  BY <1>1, <1>2, MeaningKept DEF Decisive
<1>6. \A d \in Taken' : d \in Taken \/ (Makes /\ d = new.decision)
  BY <1>1, <1>5 DEF Taken, Says
<1>7. \A d \in Taken : d \in Nat \X Nat /\ d[1] <= decided
  BY TakenPairs DEF Decisive, OwnNumber
<1>8. decided \in Nat /\ (decided' = decided \/ (Fresh(h) /\ decided' = decided + 1))
  BY DEF IInv, RowOK, Acts, Ends, Fresh, Resumes, Builds, Goes, Saves, Archives, Unlinks,
     Reobserves, Files
<1>9. Makes => decided' = decided BY <1>3, <1>8
<1>10. OwnNumber'
  <2>1. \A d \in Taken' : d[1] <= decided'
    BY <1>2, <1>6, <1>7, <1>8, <1>9
  <2>2. ASSUME NEW k \in Recoverers, k # h, Observing(k)'
        PROVE  /\ Observing(k) /\ Work(k)' = Work(k)
               /\ Work(k).decision \notin Taken'
               /\ Work(k).decision[1] <= decided /\ Work(k).decision[2] = 1
               /\ Work(k).decision \in Nat \X Nat
    <3>1. Observing(k) /\ Work(k)' = Work(k)
      BY <2>2 DEF Acts, Alone, Observing, Work
    <3>2. /\ Work(k).decision \notin Taken /\ Work(k).decision[1] <= decided
          /\ Work(k).decision[2] = 1
          /\ Observing(h) => Work(h).decision # Work(k).decision
      BY <2>2, <3>1 DEF Decisive, OwnNumber
    <3>3. Makes => Work(k).decision # new.decision
      BY <1>2, <1>4, <3>2
    <3>4. Work(k).decision \in Nat \X Nat BY <3>1, Pairs DEF Observing
    <3>5. QED BY <1>6, <3>1, <3>2, <3>3, <3>4
  <2>3. Observing(h)' => Fresh(h)
    BY DEF Observing, Acts, Ends, Resumes, Builds, Goes, Saves, Archives, Unlinks, Reobserves,
       Idle, Stages, Filing
  <2>4. ASSUME Fresh(h)
        PROVE  /\ new.decision \notin Taken'
               /\ new.decision[1] = decided + 1 /\ new.decision[2] = 1
               /\ decided' = decided + 1
    BY <1>3, <1>6, <1>7, <1>8, <2>4
  <2>5. ASSUME NEW k \in Recoverers, Observing(k)'
        PROVE  /\ (Work(k).decision \notin Taken)'
               /\ (Work(k).decision[1] <= decided)' /\ (Work(k).decision[2] = 1)'
    <3>1. CASE k = h BY <1>3, <1>8, <2>3, <2>4, <2>5, <3>1
    <3>2. CASE k # h BY <1>8, <2>2, <2>5, <3>2
    <3>3. QED BY <3>1, <3>2
  <2>6. ASSUME NEW k \in Recoverers, NEW g \in Recoverers, Observing(k)', Observing(g)',
               (Work(k).decision = Work(g).decision)'
        PROVE  k = g
    <3>1. CASE k # h /\ g # h BY <2>2, <2>6, <3>1 DEF Decisive, OwnNumber
    <3>2. CASE k = h /\ g # h BY <1>3, <1>8, <2>2, <2>3, <2>4, <2>6, <3>2
    <3>3. CASE k # h /\ g = h BY <1>3, <1>8, <2>2, <2>3, <2>4, <2>6, <3>3
    <3>4. QED BY <3>1, <3>2, <3>3
  <2>7. QED BY <2>1, <2>5, <2>6 DEF OwnNumber
<1>11. OneRemoval'
  <2>1. runtime = "absent" => runtime' = "absent" BY AbsentStays
  <2>2. \A k \in Recoverers : Removed(k)' =>
          /\ Removed(k) \/ (k = h /\ Goes(h) /\ runtime # "absent" /\ runtime' = "absent")
          /\ k = h => ~Reobserves(h)
    BY RemovedFrom
  <2>3. Builds(h) => new.decision[2] # 2
    BY <1>2, <1>4 DEF Decisive, OwnNumber, Builds, Observing, Makes
  <2>4. Goes(h) => ~Makes BY DEF Goes, Makes, Builds, Reobserves, Filing, Leaving
  <2>5. \A j, k \in Recoverers : Removed(j)' /\ Removed(k)' => j = k
    BY <2>2 DEF Decisive, OneRemoval
  <2>6. ASSUME NEW k \in Recoverers, Removed(k)'
        PROVE  runtime' = "absent" /\ \A d \in Taken' : d[2] # 2
    <3>1. CASE Removed(k)
      <4>1. runtime = "absent" /\ \A d \in Taken : d[2] # 2
        BY <3>1 DEF Decisive, OneRemoval
      <4>2. Reobserves(h) => FALSE
        BY <1>2, <2>2, <2>6, <3>1 DEF Decisive, OneRemoval, Makes
      <4>3. QED BY <1>4, <1>6, <2>1, <2>3, <4>1, <4>2
    <3>2. CASE Goes(h) /\ runtime # "absent" /\ runtime' = "absent"
      <4>1. \A d \in Taken : d[2] # 2 BY <3>2 DEF Decisive, OneRemoval
      <4>2. QED BY <1>6, <2>4, <3>2, <4>1
    <3>3. QED BY <2>2, <2>6, <3>1, <3>2
  <2>7. ASSUME NEW d \in Taken', d[2] = 2 PROVE runtime' = "absent"
    <3>1. CASE d \in Taken BY <2>1, <2>7, <3>1 DEF Decisive, OneRemoval
    <3>2. CASE Makes /\ d = new.decision
      <4>1. Reobserves(h) BY <1>4, <2>3, <2>7, <3>2
      <4>2. Removed(h) BY <1>2, <3>2, <4>1
      <4>3. QED BY <2>1, <4>2 DEF Decisive, OneRemoval
    <3>3. QED BY <1>6, <3>1, <3>2
  <2>8. QED BY <2>5, <2>6, <2>7 DEF OneRemoval
<1>12. QED BY <1>5, <1>10, <1>11 DEF Decisive

LEMMA DecisiveKept ==
  ASSUME IInv, Decisive, [Next]_vars PROVE Decisive'
<1>1. CASE UNCHANGED host /\ UNCHANGED Files
  <2>1. Kept' = Kept BY <1>1, KeptSame
  <2>2. \A w : Says(w, w) BY DEF Says
  <2>3. OneMeaning' /\ \A d \in Taken' : d \in Taken \/ (None \in Kept' /\ d = None.decision)
    BY <2>1, <2>2, MeaningKept DEF Decisive
  <2>4. \A d \in Taken' : d \in Taken BY <2>1, <2>3 DEF Taken
  <2>5. runtime = "absent" => runtime' = "absent" BY AbsentStays
  <2>6. \A k : /\ Observing(k)' = Observing(k) /\ Removed(k)' = Removed(k)
               /\ Work(k)' = Work(k)
    BY <1>1 DEF Observing, Removed, Work, Stage
  <2>7. decided' = decided BY <1>1 DEF Files
  <2>8. OwnNumber' BY <2>4, <2>6, <2>7 DEF Decisive, OwnNumber
  <2>9. OneRemoval' BY <2>4, <2>5, <2>6 DEF Decisive, OneRemoval
  <2>10. QED BY <2>3, <2>8, <2>9 DEF Decisive
<1>2. QED BY <1>1, Acting, DecisiveActs

LEMMA DecisiveInit == Init => Decisive
<1> SUFFICES ASSUME Init PROVE Decisive
  OBVIOUS
<1>1. \A h \in Recoverers : host[h] = Idle BY DEF Init
<1>2. \A h \in Recoverers : ~Carrying(h) /\ ~Observing(h) /\ ~Removed(h)
  BY <1>1 DEF Carrying, Observing, Removed, Stage, Idle
<1>3. Kept = {} BY <1>2 DEF Kept, Init
<1>4. Taken = {<<0, 0>>} BY <1>3 DEF Taken, Init, Genesis
<1>5. decided = 0 BY DEF Init
<1>6. QED
  BY <1>2, <1>3, <1>4, <1>5 DEF Decisive, OneMeaning, OwnNumber, OneRemoval

LEMMA DecisiveAlways == Spec => []Decisive
<1>1. IInv /\ Decisive /\ [Next]_vars => Decisive' BY DecisiveKept
<1>2. QED BY <1>1, DecisiveInit, Invariant, PTL DEF Spec

\* A function over 1 .. k is a sequence, and Append adds one argument to it.
LEMMA Listed ==
  ASSUME NEW S, NEW k \in Nat, NEW l \in [1 .. k -> S], NEW x \in S
  PROVE  /\ l \in Seq(S) /\ Len(l) = k
         /\ Append(l, x) \in [1 .. k + 1 -> S]
         /\ Append(l, x)[k + 1] = x /\ \A n \in 1 .. k : Append(l, x)[n] = l[n]
<1>1. l \in Seq(S) /\ Len(l) = k OBVIOUS
<1>2. Append(l, x) \in Seq(S) /\ Len(Append(l, x)) = k + 1 BY <1>1
<1>3. Append(l, x) \in [1 .. k + 1 -> S]
  <2>1. \A m \in Seq(S) : m \in [1 .. Len(m) -> S] OBVIOUS
  <2>2. Append(l, x) \in [1 .. Len(Append(l, x)) -> S] BY <1>2, <2>1
  <2>3. QED BY <1>2, <2>2
<1>4. Append(l, x)[k + 1] = x /\ \A n \in 1 .. k : Append(l, x)[n] = l[n] BY <1>1
<1>5. QED BY <1>1, <1>3, <1>4

\* The run's events as an event journal has them.  The authority of a run is one.
AsRow(e) ==
  [run |-> "run", sequence |-> e.sequence, id |-> Link(e), lifecycle |-> e.lifecycle,
   authority |-> "authority"]
AsRunLog == [r \in {"run"} |-> [n \in 1 .. Len(log) |-> AsRow(log[n])]]

RunLogOf == INSTANCE RunLog
  WITH Runs <- {"run"}, EventIds <- Links, Authorities <- {"authority"}, log <- AsRunLog

\* No two events of the log are the same one of one decision, and each follows
\* the one before it.
LogInOrder ==
  /\ \A m, n \in DOMAIN log : Link(log[m]) = Link(log[n]) => m = n
  /\ \A n \in DOMAIN log : n > 1 =>
       /\ log[n].previous = Link(log[n - 1])
       /\ MayFollow(log[n - 1].lifecycle, log[n].lifecycle)

\* An event that is not retained is another than all those that are.
LEMMA AnotherLink ==
  ASSUME IInv, Decisive, NEW h \in Recoverers, Carrying(h),
         NEW e \in {Evidence(Work(h)), Terminal(Work(h))}, ~RetainedEvent(e),
         NEW n \in DOMAIN log
  PROVE  Link(log[n]) # Link(e)
<1> SUFFICES ASSUME Link(log[n]) = Link(e) PROVE FALSE
  OBVIOUS
<1>1. Work(h) \in Kept BY DEF Kept
<1>2. log[n].decision = e.decision /\ log[n].kind = e.kind BY DEF Link
<1>3. e.decision = Work(h).decision BY DEF Evidence, Terminal
<1>4. log[n] \in {Evidence(Work(h)), Terminal(Work(h))}
  BY <1>1, <1>2, <1>3 DEF Decisive, OneMeaning
<1>5. Evidence(Work(h)).kind = "evidence" /\ Terminal(Work(h)).kind = "terminal"
  BY DEF Evidence, Terminal
<1>6. log[n] = e BY <1>2, <1>4, <1>5
<1>7. QED BY <1>6 DEF RetainedEvent

\* The one way in which the log changes.
LEMMA LogChange ==
  ASSUME IInv, Decisive, [Next]_vars
  PROVE  \/ UNCHANGED log
         \/ \E e \in Events :
              /\ log' = Append(log, e) /\ e.sequence = Len(log) /\ e.previous = Link(Root)
              /\ MayFollow(Root.lifecycle, e.lifecycle)
              /\ \A n \in DOMAIN log : Link(log[n]) # Link(e)
<1>1. ASSUME NEW h \in Recoverers, NEW e \in Events, Carrying(h),
             e \in {Evidence(Work(h)), Terminal(Work(h))}, Appends(e), ~RetainedEvent(e)
      PROVE  /\ log' = Append(log, e) /\ e.sequence = Len(log) /\ e.previous = Link(Root)
             /\ MayFollow(Root.lifecycle, e.lifecycle)
             /\ \A n \in DOMAIN log : Link(log[n]) # Link(e)
  BY <1>1, AnotherLink DEF Appends
<1>2. ASSUME NEW e, Appends(e), RetainedEvent(e) PROVE UNCHANGED log
  BY <1>2 DEF Appends
<1>3. QED BY <1>1, <1>2, LogStep

LEMMA LogInOrderKept ==
  ASSUME IInv, Decisive, LogInOrder, [Next]_vars PROVE LogInOrder'
<1>1. CASE UNCHANGED log BY <1>1 DEF LogInOrder, Link
<1>2. ASSUME NEW e \in Events,
             log' = Append(log, e), e.previous = Link(Root),
             MayFollow(Root.lifecycle, e.lifecycle),
             \A n \in DOMAIN log : Link(log[n]) # Link(e)
      PROVE  LogInOrder'
  <2>1. log \in Seq(Events) /\ log # << >> BY DEF IInv, WorldOK
  <2> DEFINE k == Len(log)
  <2>2. k \in Nat \ {0} /\ DOMAIN log = 1 .. k /\ DOMAIN log' = 1 .. k + 1
        /\ log'[k + 1] = e /\ \A n \in 1 .. k : log'[n] = log[n]
    BY <1>2, <2>1
  <2>3. Root = log[k] BY DEF Root
  <2> HIDE DEF k
  <2>4. ASSUME NEW m \in 1 .. k + 1, NEW n \in 1 .. k + 1, Link(log'[m]) = Link(log'[n])
        PROVE  m = n
    <3>1. CASE m \in 1 .. k /\ n \in 1 .. k BY <2>2, <2>4, <3>1 DEF LogInOrder
    <3>2. CASE m = k + 1 /\ n \in 1 .. k BY <1>2, <2>2, <2>4, <3>2
    <3>3. CASE m \in 1 .. k /\ n = k + 1 BY <1>2, <2>2, <2>4, <3>3
    <3>4. QED BY <2>2, <3>1, <3>2, <3>3
  <2>5. ASSUME NEW n \in 1 .. k + 1, n > 1
        PROVE  /\ log'[n].previous = Link(log'[n - 1])
               /\ MayFollow(log'[n - 1].lifecycle, log'[n].lifecycle)
    <3>1. CASE n \in 1 .. k
      <4>1. n - 1 \in 1 .. k BY <2>2, <2>5, <3>1
      <4>2. QED BY <2>2, <2>5, <3>1, <4>1 DEF LogInOrder
    <3>2. CASE n = k + 1
      <4>1. n - 1 = k /\ k \in 1 .. k BY <2>2, <3>2
      <4>2. log'[n - 1] = Root /\ log'[n] = e BY <2>2, <2>3, <3>2, <4>1
      <4>3. QED BY <1>2, <4>2
    <3>3. QED BY <2>2, <3>1, <3>2
  <2>6. QED BY <2>2, <2>4, <2>5 DEF LogInOrder, Link
<1>3. QED BY <1>1, <1>2, LogChange

\* Whoever recovers the run, its log is a chain: every event links to the one
\* before it, continues it, and no event is there twice under one identity.
THEOREM LogStaysChained == Spec => []LogInOrder
<1>1. Init => LogInOrder
  <2> SUFFICES ASSUME Init PROVE LogInOrder
    OBVIOUS
  <2>1. DOMAIN log = {1} BY DEF Init
  <2>2. QED BY <2>1 DEF LogInOrder
<1>2. IInv /\ Decisive /\ LogInOrder /\ [Next]_vars => LogInOrder' BY LogInOrderKept
<1>3. QED BY <1>1, <1>2, Invariant, DecisiveAlways, PTL DEF Spec

\* The recovery of a run adds to its log as the event journal promises: every
\* step is a step of RunLog or leaves the log, for any number of recoverers,
\* deaths and retries.
THEOREM LogIsRunLog == Spec => [][RunLogOf!Next]_AsRunLog
<1>1. IInv /\ Decisive /\ [Next]_vars => [RunLogOf!Next]_AsRunLog
  <2> SUFFICES ASSUME IInv, Decisive, [Next]_vars PROVE [RunLogOf!Next]_AsRunLog
    OBVIOUS
  <2>1. CASE UNCHANGED log BY <2>1 DEF AsRunLog, AsRow, Link
  <2>2. ASSUME NEW e \in Events,
               log' = Append(log, e), e.sequence = Len(log),
               MayFollow(Root.lifecycle, e.lifecycle),
               \A n \in DOMAIN log : Link(log[n]) # Link(e)
        PROVE  RunLogOf!Next
    <3>1. log \in Seq(Events) /\ log # << >> BY DEF IInv, WorldOK
    <3> DEFINE k == Len(log)
               l == AsRunLog["run"]
    <3>2. k \in Nat \ {0} /\ DOMAIN log = 1 .. k /\ Len(log') = k + 1
          /\ log'[k + 1] = e /\ (\A n \in 1 .. k : log'[n] = log[n] /\ log[n] \in Events)
      BY <2>2, <3>1
    <3>3. Root = log[k] BY DEF Root
    <3>4. l = [n \in 1 .. k |-> AsRow(log[n])] BY DEF AsRunLog
    <3>5. AsRunLog' = [r \in {"run"} |-> [n \in 1 .. k + 1 |-> AsRow(log'[n])]]
      BY <3>2 DEF AsRunLog, AsRow, Link
    <3> DEFINE Rows == [run : {"run"}, sequence : Nat, id : Links,
                        lifecycle : Lifecycles, authority : {"authority"}]
    <3>6. (\A n \in 1 .. k : AsRow(log[n]) \in Rows) /\ AsRow(e) \in Rows
      BY <3>2 DEF AsRow, Link, Events, Links
    <3> HIDE DEF k, l, Rows
    <3>7. l \in [1 .. k -> Rows]
      <4>1. \A n \in 1 .. k : l[n] = AsRow(log[n]) BY <3>4
      <4>2. QED BY <3>4, <3>6
    <3>8. Append(l, AsRow(e)) = [n \in 1 .. k + 1 |-> AsRow(log'[n])]
      <4>1. k \in Nat BY <3>2
      <4>2. /\ Append(l, AsRow(e)) \in [1 .. k + 1 -> Rows]
            /\ Append(l, AsRow(e))[k + 1] = AsRow(e)
            /\ \A n \in 1 .. k : Append(l, AsRow(e))[n] = l[n]
        BY <3>6, <3>7, <4>1, Listed
      <4>3. ASSUME NEW n \in 1 .. k + 1
            PROVE  Append(l, AsRow(e))[n] = AsRow(log'[n])
        <5>1. CASE n = k + 1 BY <3>2, <4>2, <5>1
        <5>2. CASE n # k + 1
          <6>1. n \in 1 .. k BY <3>2, <5>2
          <6>2. Append(l, AsRow(e))[n] = l[n] BY <4>2, <6>1
          <6>3. l[n] = AsRow(log[n]) BY <3>4, <6>1
          <6>4. log'[n] = log[n] BY <3>2, <6>1
          <6>5. QED BY <6>2, <6>3, <6>4
        <5>3. QED BY <5>1, <5>2
      <4>4. QED BY <4>2, <4>3
    <3>9. AsRunLog' = [AsRunLog EXCEPT !["run"] = Append(l, AsRow(e))]
      BY <3>5, <3>8 DEF AsRunLog
    <3>10. AsRow(e) \in RunLogOf!Admissible("run")
      <4>1. l \in Seq(Rows) /\ Len(l) = k BY <3>2, <3>6, <3>7, Listed
      <4>2. l # << >> BY <3>2, <4>1
      <4>3. l[k] = AsRow(Root) BY <3>2, <3>3, <3>4
      <4>4. Link(e) \in Links BY <2>2 DEF Link, Links, Events
      <4>5. Link(e) \notin RunLogOf!UsedIds
        <5> SUFFICES ASSUME NEW n \in DOMAIN l, l[n].id = Link(e) PROVE FALSE
          BY DEF RunLogOf!UsedIds, l, AsRunLog
        <5>1. n \in 1 .. k BY <3>7
        <5>2. l[n].id = Link(log[n]) BY <3>4, <5>1 DEF AsRow
        <5>3. QED BY <2>2, <3>2, <5>1, <5>2
      <4>6. /\ e.lifecycle \in RunLogOf!Lifecycles
            /\ RunLogOf!MayFollow(Root.lifecycle, e.lifecycle)
        <5>1. e.lifecycle \in Lifecycles BY DEF Events
        <5>2. QED
          BY <2>2, <5>1 DEF Lifecycles, TerminalLifecycles, MayFollow,
             RunLogOf!Lifecycles, RunLogOf!TerminalLifecycles, RunLogOf!MayFollow
      <4>7. AsRow(e) = [run |-> "run", sequence |-> k, id |-> Link(e),
                        lifecycle |-> e.lifecycle, authority |-> "authority"]
        BY <2>2 DEF AsRow, k
      <4>8. l[k].lifecycle = Root.lifecycle /\ l[k].authority = "authority"
        BY <4>3 DEF AsRow
      <4>9. l = AsRunLog["run"] BY DEF l
      <4>10. QED
        BY <4>1, <4>2, <4>4, <4>5, <4>6, <4>7, <4>8, <4>9 DEF RunLogOf!Admissible
    <3>11. QED BY <3>9, <3>10 DEF RunLogOf!Next, l
  <2>3. QED BY <2>1, <2>2, LogChange
<1>2. QED BY <1>1, Invariant, DecisiveAlways, PTL DEF Spec

-----------------------------------------------------------------------------
(* What is archived is done.                                               *)

\* Whoever carries a decision that was archived finds done what it would do.
LEMMA ArchivedIsDone ==
  ASSUME IInv, Decisive, NEW h \in Recoverers, Carrying(h),
         NEW w \in history, w.decision = Work(h).decision
  PROVE  /\ Work(h) \in Full
         /\ Work(h).plan.replay => effects = AllEffects
         /\ Work(h).plan.evidence => RetainedEvent(Evidence(Work(h)))
         /\ Work(h).plan.terminal # "none" => RetainedEvent(Terminal(Work(h)))
         /\ Work(h).plan.stop => runtime = "absent"
<1>1. w \in Kept /\ Work(h) \in Kept BY DEF Kept
<1>2. Says(w, Work(h)) BY <1>1 DEF Decisive, OneMeaning
<1>3. /\ Evidence(w) = Evidence(Work(h)) /\ Terminal(w) = Terminal(Work(h))
      /\ w.plan = Work(h).plan
  BY <1>2, SaysSame DEF Says
<1>4. Archived(w, log, effects, runtime) BY DEF IInv, FilesOK
<1>5. Work(h) \in Full BY WorkFacts DEF Carrying
<1>6. QED
  BY <1>3, <1>4, <1>5 DEF Archived, Sound, ReplayDone, EvidenceDone, StopDone, TerminalDone,
     In, RetainedEvent

\* A decision that was archived acts no more, whoever still works on it and
\* wherever recoverers died: the journal, the effects and the container stay.
THEOREM ArchivedActs == Spec => ArchivedActsNoMore
<1>1. ASSUME IInv, Decisive, NEW h \in Recoverers, Step(h), ~At(h, "idle"),
             NEW w \in history, w.decision = Work(h).decision
      PROVE  UNCHANGED <<log, effects, runtime>>
  <2>1. CASE \/ Load(h) \/ Observe(h) \/ Acquire(h) \/ Refresh(h) \/ Save(h) \/ FindRow(h)
             \/ CheckStop(h) \/ Complete(h) \/ Archive(h) \/ Unlink(h) \/ Reobserve(h)
             \/ Release(h)
    BY <2>1 DEF Load, Observe, Acquire, Refresh, Save, FindRow, CheckStop, Complete, Archive,
       Unlink, Reobserve, Release, world
  <2>2. ASSUME NEW pc \in {"replay", "replay_insert", "evidence", "terminal", "docker_stop",
                           "docker_rm"}, At(h, pc)
        PROVE  /\ Carrying(h)
               /\ Reached(pc, Work(h), log, effects)
               /\ Work(h).plan.replay => effects = AllEffects
               /\ Work(h).plan.evidence => RetainedEvent(Evidence(Work(h)))
               /\ Work(h).plan.terminal # "none" => RetainedEvent(Terminal(Work(h)))
               /\ Work(h).plan.stop => runtime = "absent"
    <3>1. host[h].pc = pc BY <2>2 DEF At
    <3>2. Carrying(h) BY <3>1 DEF Carrying
    <3>3. Reached(pc, Work(h), log, effects) BY <1>1, <3>1, WorkFacts DEF Stage
    <3>4. QED BY <1>1, <3>2, <3>3, ArchivedIsDone
  <2>3. CASE ReplayArtifact(h) \/ InsertRow(h)
    <3>1. At(h, "replay") \/ At(h, "replay_insert") BY <2>3 DEF ReplayArtifact, InsertRow
    <3>2. effects = AllEffects BY <2>2, <3>1 DEF Reached, Replaying
    <3>3. QED BY <2>3, <3>2 DEF ReplayArtifact, InsertRow, AllEffects
  <2>4. CASE AppendEvidence(h)
    <3>1. At(h, "evidence") BY <2>4 DEF AppendEvidence
    <3>2. RetainedEvent(Evidence(Work(h))) BY <2>2, <3>1 DEF Reached
    <3>3. QED BY <2>4, <3>2 DEF AppendEvidence, Appends, world
  <2>5. CASE AppendTerminal(h)
    <3>1. At(h, "terminal") BY <2>5 DEF AppendTerminal
    <3>2. RetainedEvent(Terminal(Work(h))) BY <2>2, <3>1 DEF Reached
    <3>3. QED BY <2>5, <3>2 DEF AppendTerminal, Appends, world
  <2>6. CASE DockerStop(h) \/ DockerRemove(h)
    <3>1. At(h, "docker_stop") \/ At(h, "docker_rm") BY <2>6 DEF DockerStop, DockerRemove
    <3>2. runtime = "absent" BY <2>2, <3>1 DEF Reached, Stopping
    <3>3. QED BY <2>6, <3>2 DEF DockerStop, DockerRemove
  <2>7. QED BY <1>1, <2>1, <2>3, <2>4, <2>5, <2>6 DEF Step
<1>2. ASSUME IInv, Decisive, [Next]_vars, NEW h \in Recoverers, host'[h] # host[h],
             ~At(h, "idle"), NEW w \in history, w.decision = Work(h).decision
      PROVE  UNCHANGED <<log, effects, runtime>>
  <2>1. host' # host BY <1>2
  <2>2. ~UNCHANGED vars BY <2>1 DEF vars
  <2>3. ~(FenceExpires \/ LeaseExpires \/ RuntimeExits)
    BY <2>1 DEF FenceExpires, LeaseExpires, RuntimeExits
  <2>4. PICK k \in Recoverers : Step(k) \/ Crash(k) BY <1>2, <2>2, <2>3 DEF Next
  <2>5. k = h BY <1>2, <2>4, StepAlone DEF Alone
  <2>6. CASE Crash(h) BY <2>6 DEF Crash, world
  <2>7. QED BY <1>1, <1>2, <2>4, <2>5, <2>6
<1>3. IInv /\ Decisive /\ [Next]_vars =>
        [\A h \in Recoverers :
           /\ host'[h] # host[h] /\ ~At(h, "idle")
           /\ \E w \in history : w.decision = Work(h).decision
           => UNCHANGED <<log, effects, runtime>>]_vars
  BY <1>2
<1>4. QED BY <1>3, DecisiveAlways, Invariant, PTL DEF Spec, ArchivedActsNoMore

-----------------------------------------------------------------------------
(* The classifier against the contract.  Both are lists of which the first *)
(* rule that applies decides; the proof says which rule of the contract    *)
(* comes first when a rule of the code does.                               *)

Observations ==
  [request : {"reconcile", "cancel"}, approval : ApprovalStatuses, lease : LeaseStatuses,
   ownership : Ownerships, process : RuntimeStates, container : RuntimeStates,
   phase : Phases, idempotent : BOOLEAN,
   artifact : EffectStates, database : EffectStates, receipt : EffectStates]

\* The rule of the contract that is the first to apply decides.
LEMMA FirstClause ==
  ASSUME NEW o, NEW k \in 1..10, Applies(o)[k], \A m \in 1..(k - 1) : ~Applies(o)[m]
  PROVE  ContractOutcome(o) = ClauseOutcome(o, k)
<1> DEFINE Holds(n) == Applies(o)[n]
<1> DEFINE holds == {n \in 1..10 : Holds(n)}
<1> HIDE DEF Holds
<1>1. Holds(k) /\ \A m \in 1..(k - 1) : ~Holds(m) BY DEF Holds
<1>2. k \in holds /\ \A m \in holds : k <= m BY <1>1
<1>3. \A n \in holds : (\A m \in holds : n <= m) => n = k BY <1>2
<1>4. (CHOOSE n \in holds : \A m \in holds : n <= m) = k BY <1>2, <1>3
<1>5. holds # {} BY <1>2
<1>6. ContractOutcome(o) =
        IF holds = {} THEN {"defer", "fail"}
        ELSE ClauseOutcome(o, CHOOSE n \in holds : \A m \in holds : n <= m)
  BY DEF ContractOutcome, Holds
<1>7. QED BY <1>4, <1>5, <1>6

\* Without one, the code may defer or fail.
LEMMA NoClause ==
  ASSUME NEW o, \A n \in 1..10 : ~Applies(o)[n]
  PROVE  ContractOutcome(o) = {"defer", "fail"}
BY DEF ContractOutcome

\* The conditions of the code's rules, and of the contract's.
LEMMA RuleConditions ==
  ASSUME NEW o
  PROVE  /\ Rules(o)[1].when <=> (o.lease = "active")
         /\ Rules(o)[2].when <=> (o.lease \in {"missing", "invalid"})
         /\ Rules(o)[3].when <=> (RuntimeOf(o) # {"absent"} /\ o.ownership # "exact")
         /\ Rules(o)[4].when <=> (o.approval = "MISMATCH" /\ Active(o))
         /\ Rules(o)[5].when <=> (o.approval = "MISMATCH")
         /\ Rules(o)[6].when <=> (o.approval # "MATCH")
         /\ Rules(o)[7].when <=> (o.request = "cancel" /\ Active(o))
         /\ Rules(o)[8].when <=> (o.request = "cancel" /\ Unclear(o))
         /\ Rules(o)[9].when <=> (o.request = "cancel")
         /\ Rules(o)[10].when <=> ("exited_nonzero" \in RuntimeOf(o))
         /\ Rules(o)[11].when <=> Active(o)
         /\ Rules(o)[12].when <=> Unclear(o)
         /\ Rules(o)[13].when <=> ("conflicting" \in EffectsOf(o))
         /\ Rules(o)[14].when <=> ("unknown" \in EffectsOf(o))
         /\ Rules(o)[15].when <=> (Undispatched(o) /\ Nothing(o) /\ o.idempotent)
         /\ Rules(o)[16].when <=> (Undispatched(o) /\ Nothing(o))
         /\ Rules(o)[17].when <=> Committed(o)
BY DEF Rules

LEMMA ClauseConditions ==
  ASSUME NEW o
  PROVE  /\ Applies(o)[1] <=> (o.lease # "expired")
         /\ Applies(o)[2] <=> (RuntimeOf(o) # {"absent"} /\ o.ownership # "exact")
         /\ Applies(o)[3] <=> (o.approval # "MATCH")
         /\ Applies(o)[4] <=> (o.request = "cancel")
         /\ Applies(o)[5] <=> ("exited_nonzero" \in RuntimeOf(o))
         /\ Applies(o)[6] <=> Active(o)
         /\ Applies(o)[7] <=> (Unclear(o) \/ "unknown" \in EffectsOf(o))
         /\ Applies(o)[8] <=> ("conflicting" \in EffectsOf(o))
         /\ Applies(o)[9] <=> (Undispatched(o) /\ Nothing(o) /\ o.idempotent)
         /\ Applies(o)[10] <=> Committed(o)
BY DEF Applies

\* What each rule of the code decides.
LEMMA RuleDispositions ==
  ASSUME NEW o
  PROVE  /\ \A n \in {1, 2, 3, 6, 8, 12, 14, 16} : Rules(o)[n].plan.disposition = "defer"
         /\ \A n \in {4, 7, 11} : Rules(o)[n].plan.disposition = "stop_then_reconcile"
         /\ Rules(o)[5].plan.disposition = "stale"
         /\ Rules(o)[9].plan.disposition = "cancel"
         /\ \A n \in {10, 13, 18} : Rules(o)[n].plan.disposition = "fail"
         /\ Rules(o)[15].plan.disposition = "resume"
         /\ Rules(o)[17].plan.disposition = "continue"
<1> USE DEF Plan
<1>1. \A reason : Defer(reason).disposition = "defer"
  BY DEF Defer
<1>2. \A reason : DeferSilently(reason).disposition = "defer"
  BY DEF Defer, DeferSilently
<1>3. \A reason : Stop(reason).disposition = "stop_then_reconcile"
  BY DEF Stop
<1>4. \A v, d, l, reason : Terminate(v, d, l, reason).disposition = d
  BY DEF Terminate
<1>5. Resume.disposition = "resume" /\ Continue(o).disposition = "continue"
  BY DEF Resume, Continue
<1>6. QED BY <1>1, <1>2, <1>3, <1>4, <1>5 DEF Rules

\* Where effects are in conflict and unknown, and nothing comes before them, the
\* code fails the run.
LEMMA OverruledFails ==
  ASSUME NEW o \in Observations, Overruled(o)
  PROVE  DecideRecovery(o).disposition = "fail"
<1> DEFINE When(n) == Rules(o)[n].when
           First(n) == When(n) /\ \A m \in 1..(n - 1) : ~When(m)
           Told(n) == Rules(o)[n].plan.disposition
           first == CHOOSE n \in DOMAIN Rules(o) : First(n)
<1>1. first \in 1..18 /\ First(first)
  <2> HIDE DEF First
  <2>1. \E n \in 1..18 : First(n) BY FirstRule DEF First
  <2>2. DOMAIN Rules(o) = 1..18 BY DEF Rules
  <2>3. QED BY <2>1, <2>2
<1>2. DecideRecovery(o).disposition = Told(first) BY DEF DecideRecovery
<1> HIDE DEF first
<1>3. /\ o.lease = "expired"
      /\ ~(RuntimeOf(o) # {"absent"} /\ o.ownership # "exact")
      /\ o.approval = "MATCH" /\ o.request # "cancel"
      /\ "exited_nonzero" \notin RuntimeOf(o) /\ ~Active(o) /\ ~Unclear(o)
  BY ClauseConditions DEF Overruled
<1>4. "conflicting" \in EffectsOf(o) BY DEF Overruled
<1>5. When(13) BY <1>4, RuleConditions
<1>6. ~When(1) /\ ~When(2) /\ ~When(3) /\ ~When(4) BY <1>3, RuleConditions
<1>7. ~When(5) /\ ~When(6) /\ ~When(7) /\ ~When(8) BY <1>3, RuleConditions
<1>8. ~When(9) /\ ~When(10) /\ ~When(11) /\ ~When(12) BY <1>3, RuleConditions
<1>9. Told(13) = "fail" BY RuleDispositions
<1> HIDE DEF When, Told
<1>10. first = 13 BY <1>1, <1>5, <1>6, <1>7, <1>8
<1>11. QED BY <1>2, <1>9, <1>10

\* Whatever else is observed, the code decides what the contract's first rule
\* says.
LEMMA ContractFollowed ==
  ASSUME NEW o \in Observations, ~Overruled(o)
  PROVE  DecideRecovery(o).disposition \in ContractOutcome(o)
<1> DEFINE When(n) == Rules(o)[n].when
           First(n) == When(n) /\ \A m \in 1..(n - 1) : ~When(m)
           Told(n) == Rules(o)[n].plan.disposition
           A(n) == Applies(o)[n]
           Clause(k) == A(k) /\ \A m \in 1..(k - 1) : ~A(m)
           first == CHOOSE n \in DOMAIN Rules(o) : First(n)
<1>1. first \in 1..18 /\ First(first)
  <2> HIDE DEF First
  <2>1. \E n \in 1..18 : First(n) BY FirstRule DEF First
  <2>2. DOMAIN Rules(o) = 1..18 BY DEF Rules
  <2>3. QED BY <2>1, <2>2
<1>2. DecideRecovery(o).disposition = Told(first) BY DEF DecideRecovery
<1> HIDE DEF first
<1>3. o.lease \in LeaseStatuses BY DEF Observations
<1>4. /\ A(1) <=> When(1) \/ When(2)
      /\ A(2) <=> When(3)
      /\ A(3) <=> When(6)
      /\ A(4) <=> When(9)
      /\ A(5) <=> When(10)
      /\ A(6) <=> When(11)
      /\ A(7) <=> When(12) \/ When(14)
      /\ A(8) <=> When(13)
      /\ A(9) <=> When(15)
      /\ A(10) <=> When(17)
      /\ When(4) <=> o.approval = "MISMATCH" /\ Active(o)
      /\ When(5) <=> o.approval = "MISMATCH"
      /\ When(5) => When(6)
      /\ When(7) <=> When(9) /\ Active(o)
      /\ When(8) <=> When(9) /\ Unclear(o)
      /\ When(15) => When(16)
      /\ When(13) /\ When(14) /\ ~When(12) => \E k \in 1..6 : A(k)
  <2>1. When(13) /\ When(14) /\ ~When(12) => \E k \in 1..6 : A(k)
    BY RuleConditions DEF Overruled
  <2>2. A(1) <=> When(1) \/ When(2)
    <3>1. A(1) <=> o.lease # "expired" BY ClauseConditions
    <3>2. (When(1) <=> o.lease = "active") /\ (When(2) <=> o.lease \in {"missing", "invalid"})
      BY RuleConditions
    <3>3. QED BY <1>3, <3>1, <3>2 DEF LeaseStatuses
  <2>3. A(2) <=> When(3) BY RuleConditions, ClauseConditions
  <2>4. A(3) <=> When(6) BY RuleConditions, ClauseConditions
  <2>5. A(4) <=> When(9) BY RuleConditions, ClauseConditions
  <2>6. (A(5) <=> When(10)) /\ (A(6) <=> When(11)) BY RuleConditions, ClauseConditions
  <2>7. (A(7) <=> When(12) \/ When(14)) /\ (A(8) <=> When(13))
    BY RuleConditions, ClauseConditions
  <2>8. (A(9) <=> When(15)) /\ (A(10) <=> When(17)) BY RuleConditions, ClauseConditions
  <2>9. /\ When(4) <=> o.approval = "MISMATCH" /\ Active(o)
        /\ When(5) <=> o.approval = "MISMATCH"
        /\ When(5) => When(6)
    BY RuleConditions
  <2>10. (When(7) <=> When(9) /\ Active(o)) /\ (When(8) <=> When(9) /\ Unclear(o))
    BY RuleConditions
  <2>11. When(15) => When(16) BY RuleConditions
  <2> HIDE DEF When, A
  <2>12. QED BY <2>1, <2>2, <2>3, <2>4, <2>5, <2>6, <2>7, <2>8, <2>9, <2>10, <2>11
<1>5. /\ \A n \in {1, 2, 3, 6, 8, 12, 14, 16} : Told(n) = "defer"
      /\ \A n \in {4, 7, 11} : Told(n) = "stop_then_reconcile"
      /\ Told(5) = "stale" /\ Told(9) = "cancel"
      /\ \A n \in {10, 13, 18} : Told(n) = "fail"
      /\ Told(15) = "resume" /\ Told(17) = "continue"
  BY RuleDispositions
<1>6. \A k \in 1..10 : Clause(k) => ContractOutcome(o) = ClauseOutcome(o, k)
  BY FirstClause
<1>7. (\A n \in 1..10 : ~A(n)) => ContractOutcome(o) = {"defer", "fail"}
  BY NoClause
<1> HIDE DEF When, Told, A
<1>8. SUFFICES ASSUME NEW n \in 1..18, First(n) PROVE Told(n) \in ContractOutcome(o)
  BY <1>1, <1>2
<1>9. CASE n \in {1, 2}
  <2>1. Clause(1) BY <1>4, <1>8, <1>9
  <2>2. QED BY <1>5, <1>6, <1>9, <2>1 DEF ClauseOutcome
<1>10. CASE n = 3
  <2>1. ~A(1) /\ A(2) BY <1>4, <1>8, <1>10
  <2>2. Clause(2) BY <2>1
  <2>3. QED BY <1>5, <1>6, <1>10, <2>2 DEF ClauseOutcome
<1>11. CASE n \in {4, 5, 6}
  <2>1. ~A(1) /\ ~A(2) /\ A(3) BY <1>4, <1>8, <1>11
  <2>2. Clause(3) BY <2>1
  <2>3. ContractOutcome(o) = ClauseOutcome(o, 3) BY <1>6, <2>2
  <2>4. n = 4 => o.approval = "MISMATCH" /\ Active(o) BY <1>4, <1>8
  <2>5. n = 5 => o.approval = "MISMATCH" /\ ~Active(o) BY <1>4, <1>8
  <2>6. n = 6 => o.approval # "MISMATCH" BY <1>4, <1>8
  <2>7. QED BY <1>5, <1>11, <2>3, <2>4, <2>5, <2>6 DEF ClauseOutcome
<1>12. CASE n \in {7, 8, 9}
  <2>1. ~A(1) /\ ~A(2) /\ ~A(3) /\ A(4) BY <1>4, <1>8, <1>12
  <2>2. Clause(4) BY <2>1
  <2>3. ContractOutcome(o) = ClauseOutcome(o, 4) BY <1>6, <2>2
  <2>4. n = 7 => Active(o) BY <1>4, <1>8
  <2>5. n = 8 => ~Active(o) /\ Unclear(o) BY <1>4, <1>8, <2>1
  <2>6. n = 9 => ~Active(o) /\ ~Unclear(o) BY <1>4, <1>8, <2>1
  <2>7. QED BY <1>5, <1>12, <2>3, <2>4, <2>5, <2>6 DEF ClauseOutcome
<1>13. ASSUME n >= 10 PROVE ~A(1) /\ ~A(2) /\ ~A(3) /\ ~A(4)
  BY <1>4, <1>8, <1>13
<1>14. CASE n = 10
  <2>1. ~A(1) /\ ~A(2) /\ ~A(3) /\ ~A(4) /\ A(5) BY <1>4, <1>8, <1>13, <1>14
  <2>2. Clause(5) BY <2>1
  <2>3. QED BY <1>5, <1>6, <1>14, <2>2 DEF ClauseOutcome
<1>15. CASE n = 11
  <2>1. ~A(1) /\ ~A(2) /\ ~A(3) /\ ~A(4) /\ ~A(5) /\ A(6) BY <1>4, <1>8, <1>13, <1>15
  <2>2. Clause(6) BY <2>1
  <2>3. QED BY <1>5, <1>6, <1>15, <2>2 DEF ClauseOutcome
<1>16. ASSUME n >= 12 PROVE ~A(1) /\ ~A(2) /\ ~A(3) /\ ~A(4) /\ ~A(5) /\ ~A(6)
  BY <1>4, <1>8, <1>13, <1>16
<1>17. CASE n \in {12, 14}
  <2>1. A(7) BY <1>4, <1>8, <1>17
  <2>2. Clause(7) BY <1>16, <1>17, <2>1
  <2>3. QED BY <1>5, <1>6, <1>17, <2>2 DEF ClauseOutcome
<1>18. CASE n = 13
  <2>1. ~When(12) /\ When(13) BY <1>8, <1>18
  <2>2. ~When(14) BY <1>4, <1>16, <1>18, <2>1
  <2>3. ~A(7) /\ A(8) BY <1>4, <2>1, <2>2
  <2>4. Clause(8) BY <1>16, <1>18, <2>3
  <2>5. QED BY <1>5, <1>6, <1>18, <2>4 DEF ClauseOutcome
<1>19. ASSUME n >= 15
       PROVE  /\ ~A(1) /\ ~A(2) /\ ~A(3) /\ ~A(4) /\ ~A(5) /\ ~A(6) /\ ~A(7) /\ ~A(8)
  BY <1>4, <1>8, <1>16, <1>19
<1>20. CASE n = 15
  <2>1. A(9) BY <1>4, <1>8, <1>20
  <2>2. Clause(9) BY <1>19, <1>20, <2>1
  <2>3. QED BY <1>5, <1>6, <1>20, <2>2 DEF ClauseOutcome
<1>21. CASE n = 16
  <2>1. ~A(9) BY <1>4, <1>8, <1>21
  <2>2. A(10) => ~When(16)
    BY RuleConditions, ClauseConditions DEF A, When, Committed, Nothing, EffectsOf
  <2>3. \A k \in 1..10 : ~A(k) BY <1>8, <1>19, <1>21, <2>1, <2>2
  <2>4. QED BY <1>5, <1>7, <1>21, <2>3
<1>22. CASE n = 17
  <2>1. ~A(9) /\ A(10) BY <1>4, <1>8, <1>22
  <2>2. Clause(10) BY <1>19, <1>22, <2>1
  <2>3. QED BY <1>5, <1>6, <1>22, <2>2 DEF ClauseOutcome
<1>23. CASE n = 18
  <2>1. ~A(9) /\ ~A(10) BY <1>4, <1>8, <1>23
  <2>2. \A k \in 1..10 : ~A(k) BY <1>19, <1>23, <2>1
  <2>3. QED BY <1>5, <1>7, <1>23, <2>2
<1>24. QED
  BY <1>8, <1>9, <1>10, <1>11, <1>12, <1>14, <1>15, <1>17, <1>18, <1>20, <1>21, <1>22, <1>23

\* Nothing that does not run is stopped.
LEMMA NothingToStop ==
  ASSUME NEW o, ~Active(o)
  PROVE  DecideRecovery(o).disposition # "stop_then_reconcile"
<1> DEFINE First(n) == Rules(o)[n].when /\ \A m \in 1..(n - 1) : ~Rules(o)[m].when
           first == CHOOSE n \in DOMAIN Rules(o) : First(n)
<1>1. first \in 1..18 /\ Rules(o)[first].when
  <2>1. \E n \in 1..18 : First(n) BY FirstRule
  <2> HIDE DEF First
  <2>2. DOMAIN Rules(o) = 1..18 BY DEF Rules
  <2>3. first \in 1..18 /\ First(first) BY <2>1, <2>2
  <2>4. QED BY <2>3 DEF First
<1>2. DecideRecovery(o).disposition = Rules(o)[first].plan.disposition BY DEF DecideRecovery
<1> HIDE DEF first
<1>3. first \notin {4, 7, 11} BY <1>1, RuleConditions
<1>4. first \in {1, 2, 3, 6, 8, 12, 14, 16} \cup {5, 9, 15, 17} \cup {10, 13, 18}
  BY <1>1, <1>3
<1>5. QED BY <1>2, <1>4, RuleDispositions

\* What is planned is what the classifier decides on what was observed last.
ClassifierInv ==
  /\ seen \in Observations
  /\ planned \in {Undecided, DecideRecovery(seen)}

LEMMA ClassifierInvariant == ClassifierSpec => []ClassifierInv
<1>1. ObservationInit => ClassifierInv
  BY DEF ObservationInit, ClassifierInv, Observations
<1>2. ClassifierInv /\ [ClassifierNext]_classified => ClassifierInv'
  <2> SUFFICES ASSUME ClassifierInv, [ClassifierNext]_classified PROVE ClassifierInv'
    OBVIOUS
  <2>1. CASE Classify BY <2>1 DEF Classify, ClassifierInv
  <2>2. CASE ObserveAgain
    <3>1. seen' \in Observations
      BY <2>2 DEF ObserveAgain, ClassifierInv, Observations, RuntimeStates
    <3>2. QED BY <2>2, <3>1 DEF ObserveAgain, ClassifierInv
  <2>3. CASE UNCHANGED classified BY <2>3 DEF classified, ClassifierInv
  <2>4. QED BY <2>1, <2>2, <2>3 DEF ClassifierNext
<1>3. QED BY <1>1, <1>2, PTL DEF ClassifierSpec

\* The classifier follows the order of precedence of the contract for every
\* observation but those where effects are in conflict and unknown and nothing
\* comes before them: there it fails the run (recovery.py:412).
THEOREM ContractIsFollowed == ClassifierSpec => []FollowsContract
<1>1. ASSUME ClassifierInv, Decided
      PROVE  planned.disposition \in
               IF Overruled(seen) THEN {"fail"} ELSE ContractOutcome(seen)
  <2>1. seen \in Observations /\ planned = DecideRecovery(seen)
    BY <1>1 DEF ClassifierInv, Decided
  <2>2. CASE Overruled(seen) BY <2>1, <2>2, OverruledFails
  <2>3. CASE ~Overruled(seen) BY <2>1, <2>3, ContractFollowed
  <2>4. QED BY <2>2, <2>3
<1>2. ClassifierInv => FollowsContract BY <1>1 DEF FollowsContract
<1>3. QED BY <1>2, ClassifierInvariant, PTL

\* After a stop the second classification settles the run.
THEOREM StopSettles == ClassifierSpec => OneStopSettles
<1>1. ClassifierInv /\ [ClassifierNext]_classified =>
        [Decided /\ seen' # seen => planned'.disposition # "stop_then_reconcile"]_classified
  <2> SUFFICES ASSUME ClassifierInv, ObserveAgain
               PROVE  planned'.disposition # "stop_then_reconcile"
    BY DEF ClassifierNext, Classify
  <2>1. /\ seen' = [seen EXCEPT !.process = "absent", !.container = "absent"]
        /\ planned' = DecideRecovery(seen')
    BY DEF ObserveAgain
  <2>2. seen'.process = "absent" /\ seen'.container = "absent"
    BY <2>1 DEF ClassifierInv, Observations
  <2>3. ~Active(seen)' BY <2>2 DEF Active, RuntimeOf
  <2>4. QED BY <2>1, <2>3, NothingToStop DEF Active, RuntimeOf
<1>2. QED BY <1>1, ClassifierInvariant, PTL DEF ClassifierSpec, OneStopSettles
=============================================================================
