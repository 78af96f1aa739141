--------------------------- MODULE RecoveryExecutor ---------------------------
(***************************************************************************)
(* The recovery executor (recovery_surface.py) over its backend            *)
(* (recovery_probe.py): several recoverers reconcile one interrupted run.  *)
(*                                                                         *)
(* A recoverer is a host process.  Each of its calls that other processes  *)
(* can see (a query, an append, a docker command, the replacement of a     *)
(* file) is one step; it may die between any two of them, and an exception *)
(* ends its call without releasing the fence.  What survives is the        *)
(* journal, the fence row, the container and the files of PendingStore.    *)
(*                                                                         *)
(* RecoveryFence shows that the fence has one live holder at a time, so    *)
(* here it is a holder, a token and whether it has expired yet: a          *)
(* recoverer may stall, so a live fence may expire before any step.        *)
(***************************************************************************)
EXTENDS RecoveryDecision, FiniteSets

CONSTANTS
  Recoverers,    \* recovery holder identities
  Plans,         \* what callers of reconcile pass: request, authority, effects
  Containers,    \* runtime states the interruption may have left behind
  MayExit,       \* whether a running container may end by itself
  CrashPoints,   \* steps before which a recoverer may die
  MaxCrashes,    \* bound: deaths
  MaxDecisions,  \* bound: calls that start from a fresh observation
  MaxToken,      \* bound: the fence expires only below this token
  None           \* no file, no holder

ASSUME BoundAssumption ==
  /\ MaxCrashes \in Nat /\ MaxDecisions \in Nat /\ MaxToken \in Nat
  /\ None \notin Recoverers /\ MayExit \in BOOLEAN

\* An interruption leaves a container in a state the classifier knows.
ASSUME ContainersAssumption == Containers \subseteq RuntimeStates

VARIABLES
  log,      \* the retained events of the run, in sequence order
  fence,    \* the fence row
  lease,    \* the workflow lease: "active" until it expires
  runtime,  \* the run's container
  owned,    \* whether its identity and labels are exactly the run's
  effects,  \* effects of the replayed step: its "artifact", its result "row"
  pending,  \* the active file of PendingStore, or None
  history,  \* the history files: archived pending records by decision
  host,     \* host[h]: the state of recoverer h
  decided,  \* decisions started from a fresh observation so far
  crashes

vars ==
  <<log, fence, lease, runtime, owned, effects, pending, history, host, decided, crashes>>
world == <<lease, runtime, owned, effects>>

Idle == [pc |-> "idle", after |-> "idle", plan |-> None, work |-> None,
         resumed |-> FALSE]

Genesis == [decision |-> <<0, 0>>, kind |-> "run", lifecycle |-> "running",
            sequence |-> 0, previous |-> <<<<0, 0>>, "genesis">>]

Init ==
  /\ log = << Genesis >>
  /\ fence = [holder |-> None, token |-> 0, live |-> FALSE]
  /\ lease \in {"active", "expired"}
  /\ runtime \in Containers
  /\ owned \in BOOLEAN
  /\ runtime = "absent" => owned
  /\ effects = {}
  /\ pending = None
  /\ history = {}
  /\ host = [h \in Recoverers |-> Idle]
  /\ decided = 0
  /\ crashes = 0

-----------------------------------------------------------------------------
(* Records, the append function, observations. *)

Root == log[Len(log)]
Link(event) == <<event.decision, event.kind>>

\* Mutant of Evidence: the record is built anew, on the root as it is by then.
EvidenceAnew(w) ==
  [decision |-> w.decision, kind |-> "evidence", lifecycle |-> "running",
   sequence |-> Len(log), previous |-> Link(Root)]

Evidence(w) ==
  [decision |-> w.decision, kind |-> "evidence", lifecycle |-> "running",
   sequence |-> w.count, previous |-> w.root]
Terminal(w) ==
  [decision |-> w.decision, kind |-> "terminal", lifecycle |-> w.plan.terminal,
   sequence |-> w.count + (IF w.plan.evidence THEN 1 ELSE 0),
   previous |-> IF w.plan.evidence THEN Link(Evidence(w)) ELSE w.root]

RetainedEvent(event) == \E n \in DOMAIN log : log[n] = event

\* Mutants of Appends: the place of the record is not compared; a refused
\* record is taken for an appended one.
AppendsAnywhere(event) ==
  IF RetainedEvent(event) THEN Len(log) = event.sequence + 1 /\ UNCHANGED log
  ELSE ~IsTerminal(Root.lifecycle) /\ log' = Append(log, event)
AppendsQuietly(event) ==
  IF ~IsTerminal(Root.lifecycle) /\ event.sequence = Len(log)
  THEN log' = Append(log, event) ELSE UNCHANGED log

\* Whether append_record returns, and with which journal (see Journal).
Appends(event) ==
  IF RetainedEvent(event) THEN Len(log) = event.sequence + 1 /\ UNCHANGED log
  ELSE /\ ~IsTerminal(Root.lifecycle)
       /\ event.sequence = Len(log)
       /\ event.previous = Link(Root)
       /\ MayFollow(Root.lifecycle, event.lifecycle)
       /\ log' = Append(log, event)
Refused(event) ==
  IF RetainedEvent(event) THEN Len(log) # event.sequence + 1
  ELSE \/ IsTerminal(Root.lifecycle)
       \/ event.sequence # Len(log)
       \/ event.previous # Link(Root)
       \/ ~MayFollow(Root.lifecycle, event.lifecycle)

\* What the classifier is given: the caller's plan and the world.
Observed(plan) ==
  [request |-> plan.request, approval |-> plan.approval, lease |-> lease,
   ownership |-> IF owned \/ runtime = "absent" THEN "exact" ELSE "unowned",
   process |-> runtime, container |-> runtime,
   phase |-> plan.phase, idempotent |-> plan.idempotent,
   artifact |-> plan.artifact, database |-> plan.database, receipt |-> plan.receipt]

\* build_pending: the observation it stands on and everything it will write.
Build(decision, plan) ==
  [decision |-> decision, plan |-> DecideRecovery(Observed(plan)),
   count |-> Len(log), root |-> Link(Root), runtime |-> runtime,
   holder |-> None, token |-> 0,
   replayed |-> FALSE, evidence |-> FALSE, stopped |-> FALSE, terminal |-> FALSE,
   status |-> "planned"]

Drifted(w) ==
  w.count # Len(log) \/ w.root # Link(Root) \/ w.runtime # runtime

\* The order of _execute_pending.
TerminalStage(w) == IF w.plan.terminal # "none" THEN "terminal" ELSE "complete"
StopStage(w) == IF w.plan.stop /\ ~w.stopped THEN "stop" ELSE TerminalStage(w)

\* Mutant of EvidenceStage: the stop comes before its evidence.
StopFirst(w) ==
  IF w.plan.stop /\ ~w.stopped THEN "stop"
  ELSE IF w.plan.evidence THEN "evidence" ELSE TerminalStage(w)

EvidenceStage(w) == IF w.plan.evidence THEN "evidence" ELSE StopStage(w)
FirstStage(w) == IF w.plan.replay /\ ~w.replayed THEN "replay" ELSE EvidenceStage(w)

-----------------------------------------------------------------------------
(* Helpers of the steps.  Goto changes the recoverer only. *)

At(h, pc) == host[h].pc = pc
Work(h) == host[h].work

Goto(h, pc) == host' = [host EXCEPT ![h].pc = pc]
GotoWith(h, pc, w) == host' = [host EXCEPT ![h].pc = pc, ![h].work = w]
\* Set w in memory, write it to the active file next, then go on at stage.
Persist(h, w, stage) ==
  host' = [host EXCEPT ![h].pc = "save", ![h].work = w, ![h].after = stage,
                       ![h].resumed = FALSE]
\* The call returns, or raises: what the recoverer knew is gone.
End(h) == host' = [host EXCEPT ![h] = Idle]

-----------------------------------------------------------------------------
(* reconcile, up to the persisted plan. *)

\* Mutant of Load: every call starts from a fresh observation.
LoadAfresh(h) ==
  /\ At(h, "idle")
  /\ decided < MaxDecisions
  /\ decided' = decided + 1
  /\ \E plan \in Plans :
       host' = [host EXCEPT ![h] = [Idle EXCEPT
         !.pc = "observe", !.plan = plan, !.work = [decision |-> <<decided + 1, 1>>]]]
  /\ UNCHANGED <<log, fence, world, pending, history, crashes>>

\* The active file is read before anything else, the fence included.
Load(h) ==
  /\ At(h, "idle")
  /\ \E plan \in Plans :
       \/ /\ pending = None
          /\ decided < MaxDecisions
          /\ decided' = decided + 1
          /\ host' = [host EXCEPT ![h] = [Idle EXCEPT
               !.pc = "observe", !.plan = plan,
               !.work = [decision |-> <<decided + 1, 1>>]]]
       \/ /\ pending # None
          /\ host' = [host EXCEPT ![h] = [Idle EXCEPT
               !.pc = "acquire", !.plan = plan, !.work = pending, !.resumed = TRUE]]
          /\ UNCHANGED decided
  /\ UNCHANGED <<log, fence, world, pending, history, crashes>>

\* A closed run cannot be observed; a decision without effects ends the call.
Observe(h) ==
  /\ At(h, "observe")
  /\ LET w == Build(Work(h).decision, host[h].plan) IN
     IF IsTerminal(Root.lifecycle) \/ ~NeedsFence(w.plan)
     THEN End(h)
     ELSE GotoWith(h, "acquire", w)
  /\ UNCHANGED <<log, fence, world, pending, history, decided, crashes>>

\* Mutant of Acquire: the resumed record keeps the fence token it had.
AcquireOldToken(h) ==
  /\ At(h, "acquire")
  /\ IF lease = "active" \/ (fence.live /\ fence.holder # h)
     THEN End(h) /\ UNCHANGED fence
     ELSE /\ fence' = IF fence.live THEN fence
                      ELSE [holder |-> h, token |-> fence.token + 1, live |-> TRUE]
          /\ IF host[h].resumed THEN Persist(h, Work(h), FirstStage(Work(h)))
             ELSE GotoWith(h, "refresh",
                           [Work(h) EXCEPT !.holder = h, !.token = fence'.token])
  /\ UNCHANGED <<log, world, pending, history, decided, crashes>>

Acquire(h) ==
  /\ At(h, "acquire")
  /\ IF lease = "active" \/ (fence.live /\ fence.holder # h)
     THEN End(h) /\ UNCHANGED fence
     ELSE /\ fence' = IF fence.live THEN fence
                      ELSE [holder |-> h, token |-> fence.token + 1, live |-> TRUE]
          /\ LET w == [Work(h) EXCEPT !.holder = h, !.token = fence'.token] IN
             IF host[h].resumed THEN Persist(h, w, FirstStage(w))
             ELSE GotoWith(h, "refresh", w)
  /\ UNCHANGED <<log, world, pending, history, decided, crashes>>

\* The second observation must equal the first: IS_RECOVERY_DRIFT otherwise.
Refresh(h) ==
  /\ At(h, "refresh")
  /\ IF Drifted(Work(h)) THEN End(h) ELSE Persist(h, Work(h), FirstStage(Work(h)))
  /\ UNCHANGED <<log, fence, world, pending, history, decided, crashes>>

\* PendingStore.save: the active file is replaced, whatever it holds.
Save(h) ==
  /\ At(h, "save")
  /\ pending' = Work(h)
  /\ host' = [host EXCEPT ![h].pc = host[h].after, ![h].after = "idle"]
  /\ UNCHANGED <<log, fence, world, history, decided, crashes>>

-----------------------------------------------------------------------------
(* _execute_pending. *)

Replayed(h) ==
  LET w == [Work(h) EXCEPT !.replayed = TRUE, !.status = "replay-completed"]
  IN Persist(h, w, EvidenceStage(w))

\* replay_step runs the fixed step and writes its artifact unless it is there ...
ReplayArtifact(h) ==
  /\ At(h, "replay")
  /\ effects' = effects \cup {"artifact"}
  /\ Goto(h, "replay_row")
  /\ UNCHANGED <<log, fence, lease, runtime, owned, pending, history, decided, crashes>>

\* ... looks for the result row, which it may find ...
FindRow(h) ==
  /\ At(h, "replay_row")
  /\ IF "row" \in effects THEN Replayed(h) ELSE Goto(h, "replay_insert")
  /\ UNCHANGED <<log, fence, world, pending, history, decided, crashes>>

\* ... and inserts it: the primary key refuses a row that came in between.
InsertRow(h) ==
  /\ At(h, "replay_insert")
  /\ IF "row" \in effects THEN End(h) ELSE Replayed(h)
  /\ effects' = effects \cup {"row"}
  /\ UNCHANGED <<log, fence, lease, runtime, owned, pending, history, decided, crashes>>

\* The evidence is appended on every pass, its flag notwithstanding.
AppendEvidence(h) ==
  /\ At(h, "evidence")
  /\ \/ /\ Appends(Evidence(Work(h)))
        /\ LET w == [Work(h) EXCEPT !.evidence = TRUE, !.status = "evidence-appended"]
           IN Persist(h, w, StopStage(w))
     \/ Refused(Evidence(Work(h))) /\ End(h) /\ UNCHANGED log
  /\ UNCHANGED <<fence, world, pending, history, decided, crashes>>

\* stop_runtime looks at the container and at the fence ...
CheckStop(h) ==
  /\ At(h, "stop")
  /\ IF /\ owned /\ runtime = "running"
        /\ fence.live /\ fence.holder = Work(h).holder /\ fence.token = Work(h).token
     THEN Goto(h, "docker_stop")
     ELSE End(h)
  /\ UNCHANGED <<log, fence, world, pending, history, decided, crashes>>

\* ... stops it (docker stop succeeds on a container that has exited) ...
DockerStop(h) ==
  /\ At(h, "docker_stop")
  /\ IF runtime = "absent" THEN End(h) /\ UNCHANGED runtime
     ELSE /\ Goto(h, "docker_rm")
          /\ IF runtime = "running" THEN runtime' \in {"exited_zero", "exited_nonzero"}
             ELSE UNCHANGED runtime
  /\ UNCHANGED <<log, fence, lease, owned, effects, pending, history, decided, crashes>>

\* ... and removes it.
DockerRemove(h) ==
  /\ At(h, "docker_rm")
  /\ IF runtime = "absent" THEN End(h)
     ELSE Persist(h, [Work(h) EXCEPT !.stopped = TRUE, !.status = "reobserve-required"],
                  "archive_stopped")
  /\ runtime' = "absent"
  /\ UNCHANGED <<log, fence, lease, owned, effects, pending, history, decided, crashes>>

AppendTerminal(h) ==
  /\ At(h, "terminal")
  /\ \/ /\ Appends(Terminal(Work(h)))
        /\ Persist(h, [Work(h) EXCEPT !.terminal = TRUE, !.status = "terminal-appended"],
                   "complete")
     \/ Refused(Terminal(Work(h))) /\ End(h) /\ UNCHANGED log
  /\ UNCHANGED <<fence, world, pending, history, decided, crashes>>

Complete(h) ==
  /\ At(h, "complete")
  /\ Persist(h, [Work(h) EXCEPT !.status = "completed"], "archive")
  /\ UNCHANGED <<log, fence, world, pending, history, decided, crashes>>

-----------------------------------------------------------------------------
(* PendingStore.archive, and the end of reconcile. *)

\* The history file of a decision is written once; other bytes conflict.
Archive(h) ==
  /\ At(h, "archive") \/ At(h, "archive_stopped")
  /\ IF \E old \in history : old.decision = Work(h).decision /\ old # Work(h)
     THEN End(h) /\ UNCHANGED history
     ELSE /\ history' = history \cup {Work(h)}
          /\ Goto(h, IF At(h, "archive") THEN "unlink" ELSE "unlink_stopped")
  /\ UNCHANGED <<log, fence, world, pending, decided, crashes>>

\* The active file is removed, whoever wrote it last.
Unlink(h) ==
  /\ At(h, "unlink") \/ At(h, "unlink_stopped")
  /\ pending' = None
  /\ Goto(h, IF At(h, "unlink") THEN "release" ELSE "reobserve")
  /\ UNCHANGED <<log, fence, world, history, decided, crashes>>

\* After a stop: a new observation, a new decision, a new pending record.
Reobserve(h) ==
  /\ At(h, "reobserve")
  /\ LET old == Work(h)
         new == [Build(<<old.decision[1], 2>>, host[h].plan) EXCEPT
                   !.holder = old.holder, !.token = old.token] IN
     IF IsTerminal(Root.lifecycle) \/ new.plan.stop
     THEN End(h)
     ELSE Persist(h, new, FirstStage(new))
  /\ UNCHANGED <<log, fence, world, pending, history, decided, crashes>>

\* The fence is released when it is still the caller's; the call ends.
Release(h) ==
  /\ At(h, "release")
  /\ fence' = IF fence.live /\ fence.holder = h /\ fence.token = Work(h).token
              THEN [fence EXCEPT !.live = FALSE] ELSE fence
  /\ End(h)
  /\ UNCHANGED <<log, world, pending, history, decided, crashes>>

-----------------------------------------------------------------------------
(* The environment. *)

Crash(h) ==
  /\ ~At(h, "idle")
  /\ <<host[h].pc, host[h].after>> \in CrashPoints
  /\ crashes < MaxCrashes
  /\ crashes' = crashes + 1
  /\ End(h)
  /\ UNCHANGED <<log, fence, world, pending, history, decided>>

FenceExpires ==
  /\ fence.live /\ fence.token < MaxToken
  /\ fence' = [fence EXCEPT !.live = FALSE]
  /\ UNCHANGED <<log, world, pending, history, host, decided, crashes>>

LeaseExpires ==
  /\ lease = "active" /\ lease' = "expired"
  /\ UNCHANGED <<log, fence, runtime, owned, effects, pending, history, host, decided,
                 crashes>>

RuntimeExits ==
  /\ MayExit
  /\ runtime = "running"
  /\ runtime' \in {"exited_zero", "exited_nonzero"}
  /\ UNCHANGED <<log, fence, lease, owned, effects, pending, history, host, decided,
                 crashes>>

Step(h) ==
  \/ Load(h) \/ Observe(h) \/ Acquire(h) \/ Refresh(h) \/ Save(h)
  \/ ReplayArtifact(h) \/ FindRow(h) \/ InsertRow(h) \/ AppendEvidence(h)
  \/ CheckStop(h) \/ DockerStop(h) \/ DockerRemove(h)
  \/ AppendTerminal(h) \/ Complete(h)
  \/ Archive(h) \/ Unlink(h) \/ Reobserve(h) \/ Release(h)

Next ==
  \/ \E h \in Recoverers : Step(h) \/ Crash(h)
  \/ FenceExpires
  \/ LeaseExpires
  \/ RuntimeExits

Spec == Init /\ [][Next]_vars

\* A recoverer that lives goes on, and somebody keeps calling reconcile; the
\* leases are short and end by the clock.
FairSpec ==
  /\ Spec
  /\ \A h \in Recoverers : WF_vars(Step(h))
  /\ WF_vars(FenceExpires)
  /\ WF_vars(LeaseExpires)

-----------------------------------------------------------------------------
(* Properties. *)

Stages == {"replay", "evidence", "stop", "terminal", "complete"}

TypeOK ==
  /\ \A n \in DOMAIN log : log[n].lifecycle \in Lifecycles /\ log[n].sequence = n - 1
  /\ fence \in [holder : Recoverers \cup {None}, token : Nat, live : BOOLEAN]
  /\ lease \in {"active", "expired"} /\ runtime \in RuntimeStates /\ owned \in BOOLEAN
  /\ effects \subseteq {"artifact", "row"}
  /\ \A h \in Recoverers :
       /\ host[h].pc \in Stages \cup {"idle", "replay_row", "replay_insert", "observe", "acquire", "refresh", "save",
            "docker_stop", "docker_rm", "archive", "archive_stopped", "unlink",
            "unlink_stopped", "reobserve", "release"}
       /\ host[h].pc = "save" => host[h].after \in Stages \cup {"archive", "archive_stopped"}

\* A run is never closed by recovery without the evidence for closing it: the
\* event before a terminal one is the evidence of the same decision, however
\* many recoverers, deaths and expired fences came between the two appends.
TerminalFollowsItsEvidence ==
  \A n \in DOMAIN log : IsTerminal(log[n].lifecycle) =>
    /\ n > 1
    /\ log[n - 1].kind = "evidence"
    /\ log[n - 1].decision = log[n].decision

\* A run is never closed while its container still runs: neither a stale
\* pending record nor a second recoverer closes a run on an old observation.
ClosedMeansStopped == IsTerminal(Root.lifecycle) => runtime # "running"

\* What the custody history says was done was done: the journal holds every
\* record an archived decision planned, and its effects are there.
HistoryIsTrue ==
  \A w \in history :
    /\ w.plan.replay => effects = {"artifact", "row"}
    /\ w.plan.evidence => RetainedEvent(Evidence(w))
    /\ w.status = "completed" /\ w.plan.terminal # "none" => RetainedEvent(Terminal(w))
    /\ w.stopped => runtime = "absent"

\* A container is stopped only for a decision whose evidence is retained, and
\* only under a workflow lease that is over.
StopIsRecorded ==
  [][\A h \in Recoverers :
       At(h, "docker_stop") /\ host'[h].pc = "docker_rm" =>
         /\ RetainedEvent(Evidence(Work(h)))
         /\ owned /\ lease = "expired"]_vars

\* An interrupted decision is finished in the end: some later call resumes it
\* and clears the active file.
PendingResolved == pending # None ~> pending = None

\* A decision that was archived acts no more.  A recoverer that read the active
\* file before it held the fence, and one that resumes a file that was archived
\* and not removed yet, work on such a decision again (recovery_surface.py:177,
\* 394): they change neither the journal nor the effects nor the container.
ArchivedActsNoMore ==
  [][\A h \in Recoverers :
       /\ host'[h] # host[h] /\ ~At(h, "idle")
       /\ \E w \in history : w.decision = Work(h).decision
       => UNCHANGED <<log, effects, runtime>>]_vars

\* "Serialize, execute, and durably resume one frozen recovery decision at a
\* time" (recovery_surface.py): an unfinished decision is resumed by the calls
\* that follow, never replaced by another one.
PendingNotReplaced ==
  [][pending # None /\ pending' # None => pending'.decision = pending.decision]_vars
=============================================================================
