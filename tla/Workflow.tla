------------------------------- MODULE Workflow -------------------------------
(***************************************************************************)
(* verify: execute_workflow and its run archive (workflow.py).             *)
(*                                                                         *)
(* A host process executes the steps of an approved workflow, one          *)
(* container each, and appends what happened to the archive of the run.    *)
(* An active pointer names the unfinished run of the workflow, so that a   *)
(* later call resumes it.  Archive, pointer and containers outlive the     *)
(* process; the position at which it appends next does not.  The process   *)
(* may die or be interrupted from the keyboard before any of its effects,  *)
(* and nothing keeps a second process out.                                 *)
(***************************************************************************)
EXTENDS Naturals, Sequences, FiniteSets

CONSTANTS
  Hosts,            \* host processes that call verify
  Steps,            \* the steps of the manifest
  DependsOn,        \* DependsOn[s]: the steps s depends on
  Required,         \* the steps its claim requires
  Approvals,        \* what the approval inspection may answer
  StepEnds,         \* how a step may end
  CrashPoints,      \* positions at which a process may die
  Tears,            \* whether a death may tear the event being written
  InterruptPoints,  \* positions at which the operator may interrupt
  MaxMishaps,       \* bound: deaths and interrupts
  MaxRuns,          \* bound: attempts created
  None

ASSUME ManifestAssumption ==
  /\ DependsOn \in [Steps -> SUBSET Steps]
  /\ Required \subseteq Steps
  /\ Approvals \subseteq {"match", "lost"}
  /\ StepEnds \subseteq {"good", "bad", "flood"}
  /\ Tears \in BOOLEAN
\* Before there is an attempt, an interrupt only ends the call.
ASSUME InterruptAssumption == "idle" \notin InterruptPoints
ASSUME BoundAssumption == MaxMishaps \in Nat /\ MaxRuns \in Nat

VARIABLES
  approval,    \* what the external approval inspection answers
  pointer,     \* the active pointer: an attempt, or None
  archive,     \* archive[r]: the events of attempt r, as they are in its file
  containers,  \* the labelled containers that exist
  made,        \* containers created so far
  host,        \* host[h]: the state of process h
  mishaps      \* deaths and interrupts so far

vars == <<approval, pointer, archive, containers, made, host, mishaps>>

Idle == [pc |-> "idle", run |-> 0, sequence |-> 0, open |-> None, done |-> {},
         step |-> None, box |-> 0, outcome |-> "none", results |-> {},
         verdict |-> "none", handling |-> FALSE]

Init ==
  /\ approval \in Approvals
  /\ pointer = None
  /\ archive = << >>
  /\ containers = {}
  /\ made = 0
  /\ host = [h \in Hosts |-> Idle]
  /\ mishaps = 0

-----------------------------------------------------------------------------
(* Events and archives. *)

Terminal == {"run.completed", "run.cancelled", "run.failed", "run.stale"}

\* An event: its type, the steps and the container it is about, its verdict.
Event(type, steps, box, verdict) ==
  [type |-> type, steps |-> steps, box |-> box, verdict |-> verdict]
Plain(type) == Event(type, {}, 0, "none")
About(type, s, box) == Event(type, {s}, box, "none")
Completed(verdict) == Event("run.completed", {}, 0, verdict)
Queued == [type |-> "run.queued", steps |-> {}, box |-> 0, verdict |-> "none", sequence |-> 0]

Ended(events) == events # << >> /\ events[Len(events)].type \in Terminal

\* read_archive_events: every line is whole, in its place, and none follows a
\* terminal one.
Readable(events) ==
  /\ events # << >>
  /\ \A n \in DOMAIN events :
       /\ events[n].type # "torn"
       /\ events[n].sequence = n - 1
       /\ n < Len(events) => events[n].type \notin Terminal

IsStep(event, type, s) == event.type = type /\ event.steps = {s}
DoneIn(events) == {s \in Steps : \E n \in DOMAIN events : IsStep(events[n], "step.completed", s)}

\* The step that was started and not finished, or None.
OpenIn(events) ==
  LET unfinished == {n \in DOMAIN events :
        /\ events[n].type = "step.started"
        /\ \A m \in (n + 1)..Len(events) :
             events[m].type # "step.started"
             /\ ~(events[m].type \in {"step.completed", "step.failed"}
                  /\ events[m].steps = events[n].steps)}
  IN  IF unfinished = {} THEN None ELSE events[CHOOSE n \in unfinished : TRUE]

At(h, pc) == host[h].pc = pc
Go(h, pc) == host' = [host EXCEPT ![h].pc = pc]
End(h) == host' = [host EXCEPT ![h] = Idle]
\* An exception reaches a handler; what is appended there is not retried.
Handle(h, pc) == host' = [host EXCEPT ![h].pc = pc, ![h].handling = TRUE]
HandleWith(h, pc, verdict) ==
  host' = [host EXCEPT ![h].pc = pc, ![h].verdict = verdict, ![h].handling = TRUE]

\* RunArchive.append: the event gets the sequence this process counts.
Append1(h, event) ==
  LET e == [type |-> event.type, steps |-> event.steps, box |-> event.box,
            verdict |-> event.verdict, sequence |-> host[h].sequence]
  IN  archive' = [archive EXCEPT ![host[h].run] = Append(archive[host[h].run], e)]

\* Mutant of Write: the sequence is not counted on.
WriteUncounted(h, event, changes) ==
  Append1(h, event) /\ host' = [host EXCEPT ![h] = changes]

Write(h, event, changes) ==
  /\ Append1(h, event)
  /\ host' = [host EXCEPT ![h] = [changes EXCEPT !.sequence = host[h].sequence + 1]]

Moved(h, pc) == [host[h] EXCEPT !.pc = pc]

outside == <<approval, mishaps>>
files == <<pointer, archive>>
docker == <<containers, made>>

-----------------------------------------------------------------------------
(* Opening the attempt. *)

\* Preflight, staging and the second inspection of the approval.
Begin(h) ==
  /\ At(h, "idle") /\ approval = "match"
  /\ pointer = None => Len(archive) < MaxRuns
  /\ host' = [host EXCEPT ![h] =
       IF pointer = None THEN [Idle EXCEPT !.pc = "create"]
       ELSE [Idle EXCEPT !.pc = "resume", !.run = pointer]]
  /\ UNCHANGED <<outside, files, docker>>

\* Mutant of Resume: a file that cannot be read ends the call.
ResumeStrict(h) ==
  /\ At(h, "resume")
  /\ LET events == archive[host[h].run] IN
     IF ~Readable(events) \/ Ended(events) THEN End(h)
     ELSE host' = [host EXCEPT ![h].pc = "restart", ![h].sequence = Len(events),
                     ![h].open = OpenIn(events), ![h].done = DoneIn(events)]
  /\ UNCHANGED <<outside, files, docker>>

\* Of a file that cannot be read the process knows no sequence.
Resume(h) ==
  /\ At(h, "resume")
  /\ LET events == archive[host[h].run] IN
     IF ~Readable(events) THEN HandleWith(h, "error", "INVALID")
     ELSE IF Ended(events)
     THEN host' = [host EXCEPT ![h].pc = "error", ![h].verdict = "INVALID",
                     ![h].handling = TRUE, ![h].sequence = Len(events)]
     ELSE host' = [host EXCEPT ![h].pc = "restart", ![h].sequence = Len(events),
                     ![h].open = OpenIn(events), ![h].done = DoneIn(events)]
  /\ UNCHANGED <<outside, files, docker>>

Restart(h) ==
  /\ At(h, "restart")
  /\ Write(h, Plain("run.started"), Moved(h, "docker"))
  /\ UNCHANGED <<outside, pointer, docker>>

Create(h) ==
  /\ At(h, "create") /\ Len(archive) < MaxRuns
  /\ archive' = Append(archive, << Queued >>)
  /\ host' = [host EXCEPT ![h].pc = "create_started", ![h].run = Len(archive) + 1,
                          ![h].sequence = 1]
  /\ UNCHANGED <<outside, pointer, docker>>

CreateStarted(h) ==
  /\ At(h, "create_started")
  /\ Write(h, Plain("run.started"), Moved(h, "point"))
  /\ UNCHANGED <<outside, pointer, docker>>

Point(h) ==
  /\ At(h, "point")
  /\ pointer' = host[h].run
  /\ Go(h, "docker")
  /\ UNCHANGED <<outside, archive, docker>>

\* The docker executable and the runtime images are there, or the run fails.
FindDocker(h) ==
  /\ At(h, "docker")
  /\ Go(h, "reobserve") \/ Handle(h, "failed")
  /\ UNCHANGED <<outside, files, docker>>

Candidates(r) == {c \in containers : c.run = r}

\* _recover_exact_container; a call that cancels goes on to cancel.
Recover(h, open, changes, after) ==
  LET found == Candidates(host[h].run)
      exact == IF open = None THEN {} ELSE {c \in found : {c.step} = open.steps}
      owned == {c \in exact : c.id = open.box}
      goto(pc) == [changes EXCEPT !.pc = pc]
      judge(v) == [changes EXCEPT !.pc = "close", !.verdict = v]
  IN  /\ containers' = IF Cardinality(exact) = 1 THEN containers \ owned ELSE containers
      /\ host' = [host EXCEPT ![h] =
           IF found = {} THEN goto(after)
           ELSE IF Cardinality(exact) > 1 THEN judge("FAIL")
           ELSE IF exact = {} \/ owned = {} THEN judge("INCONCLUSIVE")
           ELSE [goto("interrupted") EXCEPT !.open = open]]

\* A docker command that fails here fails the run.
Reobserve(h) ==
  /\ At(h, "reobserve")
  /\ \/ Recover(h, host[h].open, host[h], "dispatch")
     \/ Handle(h, "failed") /\ UNCHANGED containers
  /\ UNCHANGED <<outside, files, made>>

\* The interrupted step has been stopped and removed; it is recorded as failed.
RecordInterrupted(h) ==
  /\ At(h, "interrupted")
  /\ Write(h, [host[h].open EXCEPT !.type = "step.failed"],
           Moved(h, IF host[h].handling THEN "cancelled" ELSE "dispatch"))
  /\ UNCHANGED <<outside, pointer, docker>>

-----------------------------------------------------------------------------
(* The steps. *)

\* Mutant of Ready: dependencies are not looked at.
NotDone(h) == Steps \ host[h].done

Ready(h) == {s \in Steps \ host[h].done : DependsOn[s] \subseteq host[h].done}

\* Mutant of Authorize: the approval inspected at the start is relied on.
AuthorizeAtStart(h) ==
  /\ At(h, "dispatch") /\ Ready(h) # {}
  /\ \E s \in Ready(h) : host' = [host EXCEPT ![h].pc = "create_box", ![h].step = s]
  /\ UNCHANGED <<outside, files, docker>>

\* The approval is inspected before every step.
Authorize(h) ==
  /\ At(h, "dispatch") /\ Ready(h) # {}
  /\ \/ /\ approval # "match" /\ Handle(h, "stale") /\ UNCHANGED archive
     \/ /\ approval = "match"
        /\ \E s \in Ready(h) :
             Write(h, About("policy.checked", s, 0),
                   [host[h] EXCEPT !.pc = "create_box", !.step = s])
  /\ UNCHANGED <<outside, pointer, docker>>

\* Names are per attempt and step: a second container of that name fails.
CreateBox(h) ==
  /\ At(h, "create_box")
  /\ IF \E c \in Candidates(host[h].run) : c.step = host[h].step
     THEN Handle(h, "failed") /\ UNCHANGED docker
     ELSE /\ made' = made + 1
          /\ containers' = containers \cup
               {[id |-> made', run |-> host[h].run, step |-> host[h].step,
                 state |-> "created"]}
          /\ host' = [host EXCEPT ![h].pc = "step_started", ![h].box = made']
  /\ UNCHANGED <<outside, files>>

StepStarted(h) ==
  /\ At(h, "step_started")
  /\ Write(h, About("step.started", host[h].step, host[h].box), Moved(h, "start"))
  /\ UNCHANGED <<outside, pointer, docker>>

Box(h) == {c \in containers : c.id = host[h].box}
Become(h, state) ==
  containers' = (containers \ Box(h)) \cup {[c EXCEPT !.state = state] : c \in Box(h)}

\* A container that is gone, or an attach that fails, fails the run.
StartBox(h) ==
  /\ At(h, "start")
  /\ \/ /\ Box(h) # {} /\ Become(h, "running") /\ Go(h, "wait")
     \/ /\ UNCHANGED containers
        /\ host' = [host EXCEPT ![h].pc = "remove", ![h].outcome = "gone"]
  /\ UNCHANGED <<outside, files, made>>

\* The deadline has passed: the container is stopped, killed after a second,
\* unless it ends by itself before that; or docker stop fails.
Timeout(h) ==
  /\ At(h, "wait")
  /\ \E c \in Box(h) : c.state = "running"
  /\ \/ /\ \E state \in StepEnds \cup {"bad"} : Become(h, state)
        /\ UNCHANGED host
     \/ /\ host' = [host EXCEPT ![h].pc = "remove", ![h].outcome = "gone"]
        /\ UNCHANGED containers
  /\ UNCHANGED <<outside, files, made>>

\* The step record is written under its digest: writing it again is harmless.
Exited(h) ==
  /\ At(h, "wait")
  /\ \/ /\ Box(h) = {}
        /\ host' = [host EXCEPT ![h].pc = "remove", ![h].outcome = "gone"]
     \/ \E c \in Box(h) :
          /\ c.state # "running"
          /\ host' = [host EXCEPT ![h].pc = "remove", ![h].outcome = c.state]
  /\ UNCHANGED <<outside, files, docker>>

\* Mutant of RemoveBox: only the container of a failed step is removed.
RemoveFailedBox(h) ==
  /\ At(h, "remove")
  /\ containers' = IF host[h].outcome = "good" THEN containers ELSE containers \ Box(h)
  /\ CASE host[h].outcome \in {"good", "bad"} -> Go(h, "result")
       [] host[h].outcome = "flood" -> HandleWith(h, "error", "INCONCLUSIVE")
       [] OTHER -> Handle(h, "failed")
  /\ UNCHANGED <<outside, files, made>>

\* The container is removed whatever happened; then the outcome is judged.  A
\* docker rm that fails fails the run.
RemoveBox(h) ==
  /\ At(h, "remove")
  /\ \/ /\ containers' = containers \ Box(h)
        /\ CASE host[h].outcome \in {"good", "bad"} -> Go(h, "result")
             [] host[h].outcome = "flood" -> HandleWith(h, "error", "INCONCLUSIVE")
             [] OTHER -> Handle(h, "failed")
     \/ Handle(h, "failed") /\ UNCHANGED containers
  /\ UNCHANGED <<outside, files, made>>

\* Mutant of RecordResult: the exit code is not judged.
RecordAnyResult(h) ==
  /\ At(h, "result")
  /\ LET s == host[h].step IN
     Write(h, About(IF host[h].outcome = "good" THEN "step.completed" ELSE "step.failed", s, 0),
       [host[h] EXCEPT !.pc = "dispatch", !.done = host[h].done \cup {s},
                       !.results = host[h].results \cup {s}])
  /\ UNCHANGED <<outside, pointer, docker>>

RecordResult(h) ==
  /\ At(h, "result")
  /\ LET s == host[h].step IN
     IF host[h].outcome = "good"
     THEN Write(h, About("step.completed", s, 0),
            [host[h] EXCEPT !.pc = "dispatch", !.done = host[h].done \cup {s},
                            !.results = host[h].results \cup {s}])
     ELSE Write(h, About("step.failed", s, 0),
            [host[h] EXCEPT !.pc = "close", !.verdict = "FAIL"])
  /\ UNCHANGED <<outside, pointer, docker>>

\* The receipt lists the steps this process ran itself.
Receipt(h) ==
  /\ At(h, "dispatch") /\ host[h].done = Steps
  /\ Write(h, Event("evidence.recorded", host[h].results, 0, "none"),
       [host[h] EXCEPT !.pc = "close",
          !.verdict = IF Required \subseteq host[h].done THEN "PASS" ELSE "INCONCLUSIVE"])
  /\ UNCHANGED <<outside, pointer, docker>>

-----------------------------------------------------------------------------
(* Closing the attempt. *)

Close(h) ==
  /\ At(h, "close")
  /\ Write(h, Completed(host[h].verdict), Moved(h, "unlink"))
  /\ UNCHANGED <<outside, pointer, docker>>

\* A rejected run gets an error event and its verdict; a failed, stale or
\* cancelled one gets the event of that lifecycle.
RecordError(h) ==
  /\ At(h, "error")
  /\ Write(h, Plain("step.failed"), Moved(h, "close"))
  /\ UNCHANGED <<outside, pointer, docker>>

Give(h, pc, type) ==
  /\ At(h, pc)
  /\ Write(h, Plain(type), Moved(h, "unlink"))
  /\ UNCHANGED <<outside, pointer, docker>>
Fail(h) == Give(h, "failed", "run.failed")
Stale(h) == Give(h, "stale", "run.stale")
Cancelled(h) == Give(h, "cancelled", "run.cancelled")

Unlink(h) ==
  /\ At(h, "unlink")
  /\ pointer' = None
  /\ End(h)
  /\ UNCHANGED <<outside, archive, docker>>

-----------------------------------------------------------------------------
(* KeyboardInterrupt.  A step's container is removed on the way out, unless *)
(* docker create has not returned its id yet.  Docker is not asked when it  *)
(* was not found yet.                                                       *)

Mishap == mishaps < MaxMishaps /\ mishaps' = mishaps + 1
BeforeDocker == {"resume", "restart", "create_started", "point", "docker"}

Interrupt(h) ==
  /\ host[h].pc \in InterruptPoints \ {"create"} /\ ~host[h].handling
  /\ Mishap
  /\ Handle(h, IF host[h].pc \in BeforeDocker THEN "cancelled" ELSE "cancel")
  /\ \/ /\ containers' = IF host[h].pc \in {"step_started", "start", "wait", "remove"}
                         THEN containers \ Box(h) ELSE containers
        /\ made' = made
     \/ /\ At(h, "create_box")
        /\ \A c \in Candidates(host[h].run) : c.step # host[h].step
        /\ made' = made + 1
        /\ containers' = containers \cup
             {[id |-> made', run |-> host[h].run, step |-> host[h].step,
               state |-> "created"]}
  /\ UNCHANGED <<approval, files>>

\* RunArchive.append, interrupted after the event is written and before it is
\* counted.  Where docker was found the handler counts the file anew, and the
\* moment is no other than the one before the next step; before that it goes on
\* from the old count.
InterruptUncounted(h) ==
  /\ host[h].pc \in InterruptPoints /\ ~host[h].handling
  /\ Mishap
  /\ \/ /\ host[h].pc \in {"restart", "create_started"}
        /\ Append1(h, Plain("run.started"))
        /\ Handle(h, "cancelled")
     \/ /\ At(h, "create") /\ Len(archive) < MaxRuns
        /\ archive' = Append(archive, << Queued >>)
        /\ host' = [host EXCEPT ![h].pc = "cancelled", ![h].run = Len(archive) + 1,
                                ![h].handling = TRUE]
  /\ UNCHANGED <<approval, pointer, docker>>

\* The handler reads the archive again and looks for a container to stop; an
\* archive it cannot read, or a docker command that fails, ends the call.
Cancel(h) ==
  /\ At(h, "cancel")
  /\ \/ End(h) /\ UNCHANGED containers
     \/ LET events == archive[host[h].run] IN
        /\ Readable(events)
        /\ Recover(h, OpenIn(events), [host[h] EXCEPT !.sequence = Len(events)], "cancelled")
  /\ UNCHANGED <<outside, files, made>>

-----------------------------------------------------------------------------
(* The environment. *)

Writing == {"restart", "create_started", "interrupted", "dispatch", "step_started",
            "result", "close", "error", "failed", "stale", "cancelled"}

\* A torn event is a line of its own here.  In the file it has no end of line and
\* the next event is glued to it: of the two lines, neither can be read either way.
Crash(h) ==
  /\ host[h].pc \in CrashPoints
  /\ Mishap
  /\ End(h)
  /\ \/ UNCHANGED archive
     \/ Tears /\ host[h].pc \in Writing /\ Append1(h, Plain("torn"))
  /\ UNCHANGED <<approval, pointer, docker>>

\* A step ends as expected, unexpectedly, or with more output than is allowed.
BoxExits ==
  \E c \in containers : \E state \in StepEnds :
    /\ c.state = "running"
    /\ containers' = (containers \ {c}) \cup {[c EXCEPT !.state = state]}
    /\ UNCHANGED <<outside, files, made, host>>

ApprovalChanges ==
  /\ approval' \in Approvals \ {approval}
  /\ UNCHANGED <<files, docker, host, mishaps>>

Step(h) ==
  \/ Begin(h) \/ Resume(h) \/ Restart(h) \/ Create(h) \/ CreateStarted(h) \/ Point(h)
  \/ FindDocker(h) \/ Reobserve(h) \/ RecordInterrupted(h)
  \/ Authorize(h) \/ CreateBox(h) \/ StepStarted(h) \/ StartBox(h) \/ Timeout(h)
  \/ Exited(h) \/ RemoveBox(h) \/ RecordResult(h) \/ Receipt(h)
  \/ Close(h) \/ RecordError(h) \/ Fail(h) \/ Stale(h) \/ Cancelled(h) \/ Unlink(h)
  \/ Cancel(h)

Next ==
  \/ \E h \in Hosts : Step(h) \/ Interrupt(h) \/ InterruptUncounted(h) \/ Crash(h)
  \/ BoxExits
  \/ ApprovalChanges

Spec == Init /\ [][Next]_vars

\* A process that lives goes on, and the operator calls verify again and again;
\* every step has a deadline.
FairSpec == Spec /\ \A h \in Hosts : WF_vars(Step(h))

-----------------------------------------------------------------------------
(* Properties. *)

Attempts == DOMAIN archive
EventTypes == Terminal \cup {"run.queued", "run.started", "policy.checked",
  "step.started", "step.completed", "step.failed", "evidence.recorded", "torn"}

TypeOK ==
  /\ pointer \in Attempts \cup {None}
  /\ \A r \in Attempts : \A n \in DOMAIN archive[r] :
       /\ archive[r][n].type \in EventTypes /\ archive[r][n].steps \subseteq Steps
       /\ archive[r][n].sequence \in Nat /\ archive[r][n].box \in 0..made
  /\ \A c \in containers :
       /\ c.id \in 1..made /\ c.run \in Attempts /\ c.step \in Steps
       /\ c.state \in {"created", "running", "good", "bad", "flood"}
  /\ \A h \in Hosts : host[h].done \subseteq Steps /\ host[h].run \in Attempts \cup {0}

Passed(r) == \E n \in DOMAIN archive[r] :
  archive[r][n].type = "run.completed" /\ archive[r][n].verdict = "PASS"

\* PASS is never given away: whatever deaths, interrupts, resumed or concurrent
\* calls came before, every required step is recorded as completed.
PassIsEarned == \A r \in Attempts : Passed(r) => Required \subseteq DoneIn(archive[r])

\* No step is started before all it depends on is recorded as completed.
DependenciesFirst ==
  \A r \in Attempts : \A n \in DOMAIN archive[r] : \A s \in Steps :
    IsStep(archive[r][n], "step.started", s)
      => DependsOn[s] \subseteq DoneIn(SubSeq(archive[r], 1, n))

\* "The command rechecks approval before every step"
\* (docs/workflow-verification-contract.md): each start of a step, a replay
\* included, has a check of its own since the step was last started.
CheckedBeforeStep ==
  \A r \in Attempts : \A n \in DOMAIN archive[r] : \A s \in Steps :
    IsStep(archive[r][n], "step.started", s) =>
      \E m \in 1..(n - 1) :
        /\ IsStep(archive[r][m], "policy.checked", s)
        /\ \A k \in m..(n - 1) : ~IsStep(archive[r][k], "step.started", s)

\* A step that is recorded as completed is never executed again.
NeverRunsDone ==
  \A c \in containers : c.state = "running" => c.step \notin DoneIn(archive[c.run])

\* Steps run in their order and once: none is started before all it depends on
\* is recorded as completed, and none runs again after it is, however the
\* attempt was interrupted and resumed (workflow.py:798).
StepsInOrder == DependenciesFirst /\ NeverRunsDone

\* Nothing of an attempt that passed is left behind in Docker.
NothingLeftBehind == \A c \in containers : ~Passed(c.run)

\* Events keep their places: every event of an attempt carries the sequence of
\* its line, however often the attempt was interrupted and resumed by processes
\* that count for themselves (workflow.py:357, 390), unless a torn or terminal
\* event stands before it.  Only an operator who interrupts before docker is
\* found gets a run.cancelled out of its place: with sequence 0, of a process
\* that has not counted the file (workflow.py:749), or with that of the event
\* before it, which was written and not counted (workflow.py:388-390).
EventsInPlace ==
  \A r \in Attempts : \A n \in DOMAIN archive[r] :
    \/ archive[r][n].sequence = n - 1
    \/ archive[r][n].type = "torn"
    \/ archive[r][n].type = "run.cancelled" /\ archive[r][n].sequence \in {0, n - 2}
    \/ \E m \in 1..(n - 1) : archive[r][m].type \in Terminal \cup {"torn"}

\* An unfinished attempt that has a pointer is settled by later calls, whatever
\* it was interrupted in, as long as it stays approved.
AttemptSettles == pointer # None ~> (pointer = None \/ approval = "lost")
=============================================================================
