---------------------------- MODULE WorkflowProofs ----------------------------
(***************************************************************************)
(* Proofs about verify, for any number of processes on any number of       *)
(* attempts, of deaths anywhere, interrupts, torn events and containers.   *)
(*                                                                         *)
(* The argument: whatever a process believes to be done is recorded in the *)
(* archive of its attempt, which only grows.  A process is good of an      *)
(* archive in that sense; it stays good when the archive grows, by its own *)
(* events or by another's, and a verdict or a start is written only by a   *)
(* process that is good.                                                   *)
(*                                                                         *)
(* The last part is about one process at a time, which knows exactly what  *)
(* its attempt holds: two on one attempt do not.                           *)
(***************************************************************************)
EXTENDS Workflow, SequenceTheorems, FiniteSetTheorems, TLAPS

Verdicts == {"none", "PASS", "FAIL", "INCONCLUSIVE", "INVALID"}
Places ==
  {"idle", "create", "create_started", "point", "resume", "restart", "docker", "reobserve",
   "interrupted", "dispatch", "create_box", "step_started", "start", "wait", "remove",
   "result", "close", "unlink", "error", "failed", "stale", "cancelled", "cancel"}
States == {"none", "gone", "created", "running", "good", "bad", "flood"}

Events ==
  [type : EventTypes, steps : SUBSET (Steps \cup {None}), box : Nat, verdict : Verdicts,
   sequence : Nat]
Boxes == [id : Nat, run : Nat, step : Steps \cup {None}, state : States]
Processes ==
  [pc : Places, run : Nat, sequence : Nat, open : Events \cup {None},
   done : SUBSET Steps, step : Steps \cup {None}, box : Nat, outcome : States,
   results : SUBSET Steps, verdict : Verdicts, handling : BOOLEAN]

WithStep == {"create_box", "step_started", "start", "wait", "remove", "result"}

\* What process x believes is so in the archives.
Unborn(x) == x.run = 0 /\ x.pc \in {"idle", "create"} /\ x.verdict = "none" /\ x.done = {}
Informed(x, files0) ==
  /\ x.run \in DOMAIN files0 /\ x.pc # "create"
  /\ x.done \subseteq DoneIn(files0[x.run])
  /\ x.verdict = "PASS" => Required \subseteq DoneIn(files0[x.run])
  /\ x.pc \in WithStep => x.step \in Steps /\ DependsOn[x.step] \subseteq DoneIn(files0[x.run])
  /\ x.pc = "interrupted" => x.open \in Events
Good(x, files0) == x \in Processes /\ (Unborn(x) \/ Informed(x, files0))

Typed ==
  /\ archive \in Seq(Seq(Events)) /\ pointer \in DOMAIN archive \cup {None}
  /\ made \in Nat /\ containers \subseteq Boxes
Hosted == host \in [Hosts -> Processes] /\ \A h \in Hosts : Good(host[h], archive)

\* The steps that the first n events of an attempt complete.
DoneBy(events, n) ==
  {s \in Steps : \E m \in 1..n : IsStep(events[m], "step.completed", s)}
InOrder(events) ==
  \A n \in DOMAIN events : \A s \in Steps :
    IsStep(events[n], "step.started", s) => DependsOn[s] \subseteq DoneBy(events, n)
Earned(events) ==
  (\E n \in DOMAIN events : events[n].type = "run.completed" /\ events[n].verdict = "PASS")
    => Required \subseteq DoneIn(events)
Recorded == \A r \in DOMAIN archive : InOrder(archive[r]) /\ Earned(archive[r])

IInv == Typed /\ Hosted /\ Recorded

-----------------------------------------------------------------------------
\* The steps that the first events complete are those of the prefix.
LEMMA PrefixDone ==
  ASSUME NEW events \in Seq(Events), NEW n \in DOMAIN events
  PROVE  DoneIn(SubSeq(events, 1, n)) = DoneBy(events, n)
<1>1. /\ Len(SubSeq(events, 1, n)) = n /\ DOMAIN SubSeq(events, 1, n) = 1..n
      /\ \A m \in 1..n : SubSeq(events, 1, n)[m] = events[m]
  OBVIOUS
<1>2. QED BY <1>1 DEF DoneIn, DoneBy

\* An event that an attempt gets leaves what was done done, and is the last.
LEMMA Longer ==
  ASSUME NEW events \in Seq(Events), NEW e \in Events
  PROVE  /\ Append(events, e) \in Seq(Events)
         /\ DoneIn(events) \subseteq DoneIn(Append(events, e))
         /\ \A s \in Steps : IsStep(e, "step.completed", s) => s \in DoneIn(Append(events, e))
<1> DEFINE longer == Append(events, e)
<1>1. /\ longer \in Seq(Events) /\ DOMAIN longer = 1..(Len(events) + 1)
      /\ DOMAIN events = 1..Len(events) /\ Len(events) \in Nat
      /\ \A n \in 1..Len(events) : longer[n] = events[n]
      /\ longer[Len(events) + 1] = e
  OBVIOUS
<1>2. QED BY <1>1 DEF DoneIn

\* An event that may be written: a start after its prerequisites, PASS after
\* all that is required.
Fits(e, events) ==
  /\ \A s \in Steps : IsStep(e, "step.started", s) => DependsOn[s] \subseteq DoneIn(events)
  /\ e.type = "run.completed" /\ e.verdict = "PASS" => Required \subseteq DoneIn(events)

LEMMA StillInOrder ==
  ASSUME NEW events \in Seq(Events), NEW e \in Events, InOrder(events), Earned(events),
         Fits(e, events)
  PROVE  InOrder(Append(events, e)) /\ Earned(Append(events, e))
<1> DEFINE longer == Append(events, e)
<1>1. /\ longer \in Seq(Events) /\ DOMAIN longer = 1..(Len(events) + 1)
      /\ DOMAIN events = 1..Len(events) /\ Len(events) \in Nat
      /\ \A n \in 1..Len(events) : longer[n] = events[n]
      /\ longer[Len(events) + 1] = e
  OBVIOUS
<1>2. DoneIn(events) \subseteq DoneIn(longer) BY Longer
<1>3. ASSUME NEW n \in DOMAIN longer, NEW s \in Steps, IsStep(longer[n], "step.started", s)
      PROVE  DependsOn[s] \subseteq DoneBy(longer, n)
  <2>1. CASE n \in DOMAIN events
    <3>1. DependsOn[s] \subseteq DoneBy(events, n) BY <1>1, <1>3, <2>1 DEF InOrder
    <3>2. DoneBy(events, n) \subseteq DoneBy(longer, n) BY <1>1, <2>1 DEF DoneBy
    <3>3. QED BY <3>1, <3>2
  <2>2. CASE n = Len(events) + 1
    <3>1. DependsOn[s] \subseteq DoneIn(events) BY <1>1, <1>3, <2>2 DEF Fits
    <3>2. DoneIn(events) \subseteq DoneBy(longer, n) BY <1>1, <2>2 DEF DoneIn, DoneBy
    <3>3. QED BY <3>1, <3>2
  <2>3. QED BY <1>1, <2>1, <2>2
<1>4. InOrder(longer) BY <1>3 DEF InOrder
<1>5. Earned(longer) BY <1>1, <1>2 DEF Earned, Fits
<1>6. QED BY <1>4, <1>5

-----------------------------------------------------------------------------
\* The archive after an event of attempt r.
Grown(files0, r, e) == [files0 EXCEPT ![r] = Append(files0[r], e)]

LEMMA GrownKeeps ==
  ASSUME NEW files0 \in Seq(Seq(Events)), NEW r \in DOMAIN files0, NEW e \in Events
  PROVE  /\ Grown(files0, r, e) \in Seq(Seq(Events))
         /\ DOMAIN Grown(files0, r, e) = DOMAIN files0
         /\ \A q \in DOMAIN files0 : DoneIn(files0[q]) \subseteq DoneIn(Grown(files0, r, e)[q])
         /\ \A s \in Steps : IsStep(e, "step.completed", s) => s \in DoneIn(Grown(files0, r, e)[r])
<1>1. files0[r] \in Seq(Events) OBVIOUS
<1>2. Append(files0[r], e) \in Seq(Events) BY <1>1, Longer
<1>3. /\ Grown(files0, r, e) \in Seq(Seq(Events))
      /\ DOMAIN Grown(files0, r, e) = DOMAIN files0
  BY <1>2 DEF Grown
<1>4. \A q \in DOMAIN files0 : q # r => Grown(files0, r, e)[q] = files0[q]
  BY DEF Grown
<1>5. Grown(files0, r, e)[r] = Append(files0[r], e) BY DEF Grown
<1>6. QED BY <1>1, <1>3, <1>4, <1>5, Longer

\* What is good of an archive is good of one that has grown.
LEMMA GoodStays ==
  ASSUME NEW files0, NEW files1, NEW x, Good(x, files0), DOMAIN files0 \subseteq DOMAIN files1,
         \A q \in DOMAIN files0 : DoneIn(files0[q]) \subseteq DoneIn(files1[q])
  PROVE  Good(x, files1)
BY DEF Good, Informed

\* A step of a process that writes nothing keeps the invariant if the process
\* stays good.
LEMMA Quiet ==
  ASSUME NEW h \in Hosts, NEW x, IInv, host' = [host EXCEPT ![h] = x], Good(x, archive),
         UNCHANGED archive, Typed'
  PROVE  IInv'
<1>1. Hosted' BY DEF IInv, Hosted, Good
<1>2. Recorded' BY DEF IInv, Recorded
<1>3. QED BY <1>1, <1>2 DEF IInv

\* A step that writes keeps it if the event fits and the process is good after.
LEMMA Writes ==
  ASSUME NEW h \in Hosts, NEW x, NEW e \in Events, IInv,
         host[h].run \in DOMAIN archive, archive' = Grown(archive, host[h].run, e),
         Fits(e, archive[host[h].run]),
         host' = [host EXCEPT ![h] = x], Good(x, archive'),
         pointer' = pointer, containers' = containers, made' = made
  PROVE  IInv'
<1> DEFINE r == host[h].run
<1>1. archive \in Seq(Seq(Events)) BY DEF IInv, Typed
<1>2. /\ archive' \in Seq(Seq(Events)) /\ DOMAIN archive' = DOMAIN archive
      /\ \A q \in DOMAIN archive : DoneIn(archive[q]) \subseteq DoneIn(archive'[q])
  BY <1>1, GrownKeeps
<1>3. Typed' BY <1>2 DEF IInv, Typed
<1>4. Hosted'
  <2>1. \A g \in Hosts : Good(host[g], archive') BY <1>2, GoodStays DEF IInv, Hosted
  <2>2. QED BY <2>1 DEF IInv, Hosted, Good
<1>5. Recorded'
  <2>1. archive[r] \in Seq(Events) BY <1>1
  <2>2. InOrder(Append(archive[r], e)) /\ Earned(Append(archive[r], e))
    BY <2>1, StillInOrder DEF IInv, Recorded
  <2>3. \A q \in DOMAIN archive : archive'[q] = IF q = r THEN Append(archive[r], e) ELSE archive[q]
    BY <1>1 DEF Grown
  <2>4. QED BY <1>2, <2>2, <2>3 DEF IInv, Recorded
<1>6. QED BY <1>3, <1>4, <1>5 DEF IInv

\* The same for an event as the actions write it.
LEMMA Written ==
  ASSUME NEW h \in Hosts, NEW event, NEW x, IInv, Write(h, event, x),
         event.type \in EventTypes, event.steps \in SUBSET (Steps \cup {None}),
         event.box \in Nat, event.verdict \in Verdicts,
         host[h].run \in DOMAIN archive, Fits(event, archive[host[h].run]),
         Good(x, archive) \/ Good(x, archive'),
         pointer' = pointer, containers' = containers, made' = made
  PROVE  IInv'
<1> DEFINE e == [type |-> event.type, steps |-> event.steps, box |-> event.box,
                 verdict |-> event.verdict, sequence |-> host[h].sequence]
           y == [x EXCEPT !.sequence = host[h].sequence + 1]
<1>1. host[h] \in Processes /\ x \in Processes BY DEF IInv, Hosted, Good
<1>2. e \in Events /\ host[h].sequence + 1 \in Nat BY <1>1 DEF Processes, Events
<1>3. archive' = Grown(archive, host[h].run, e) /\ host' = [host EXCEPT ![h] = y]
  BY DEF Write, Append1, Grown
<1>4. archive \in Seq(Seq(Events)) BY DEF IInv, Typed
<1>5. DOMAIN archive' = DOMAIN archive
      /\ \A q \in DOMAIN archive : DoneIn(archive[q]) \subseteq DoneIn(archive'[q])
  BY <1>2, <1>3, <1>4, GrownKeeps
<1>6. Good(x, archive') BY <1>5, GoodStays
<1>7. /\ y \in Processes /\ y.pc = x.pc /\ y.run = x.run /\ y.done = x.done
      /\ y.verdict = x.verdict /\ y.step = x.step /\ y.open = x.open
  BY <1>1, <1>2 DEF Processes
<1>8. Good(y, archive') BY <1>6, <1>7 DEF Good, Unborn, Informed
<1>9. Fits(e, archive[host[h].run]) BY DEF Fits, IsStep
<1>10. QED BY <1>2, <1>3, <1>8, <1>9, Writes

\* A process past its start is at an attempt.
LEMMA Born ==
  ASSUME NEW h \in Hosts, IInv, host[h].pc \notin {"idle", "create"}
  PROVE  host[h] \in Processes /\ Informed(host[h], archive)
BY DEF IInv, Hosted, Good, Unborn

\* A process that only goes elsewhere, or gives up its verdict, stays good.
LEMMA Elsewhere ==
  ASSUME NEW h \in Hosts, IInv, host[h].pc \notin {"idle", "create"}, NEW pc \in Places,
         pc # "create" /\ pc # "interrupted" /\ (pc \in WithStep => host[h].pc \in WithStep)
  PROVE  /\ Good(Moved(h, pc), archive)
         /\ Good([host[h] EXCEPT !.pc = pc, !.handling = TRUE], archive)
         /\ \A v \in Verdicts \ {"PASS"} :
              Good([host[h] EXCEPT !.pc = pc, !.verdict = v, !.handling = TRUE], archive)
BY Born, ZenonT(30) DEF Good, Informed, Moved, Processes

\* The types of the events that the actions write, and what fits.
LEMMA PlainFits ==
  ASSUME NEW type \in EventTypes, type # "step.started", NEW events
  PROVE  /\ Plain(type).type \in EventTypes /\ Plain(type).steps \in SUBSET (Steps \cup {None})
         /\ Plain(type).box \in Nat /\ Plain(type).verdict \in Verdicts
         /\ Fits(Plain(type), events)
<1>1. /\ Plain(type).type = type /\ Plain(type).steps = {} /\ Plain(type).box = 0
      /\ Plain(type).verdict = "none"
  BY DEF Plain, Event
<1>2. Fits(Plain(type), events)
  <2>1. \A s \in Steps : ~IsStep(Plain(type), "step.started", s) BY <1>1 DEF IsStep
  <2>2. QED BY <1>1, <2>1 DEF Fits
<1>3. {} \in SUBSET (Steps \cup {None}) /\ 0 \in Nat /\ "none" \in Verdicts BY DEF Verdicts
<1>4. QED BY <1>1, <1>2, <1>3, Zenon
LEMMA AboutFits ==
  ASSUME NEW type \in EventTypes, NEW s \in Steps, NEW b \in Nat, NEW events,
         type = "step.started" => DependsOn[s] \subseteq DoneIn(events)
  PROVE  /\ About(type, s, b).type \in EventTypes
         /\ About(type, s, b).steps \in SUBSET (Steps \cup {None})
         /\ About(type, s, b).box \in Nat /\ About(type, s, b).verdict \in Verdicts
         /\ Fits(About(type, s, b), events)
<1>1. /\ About(type, s, b).type = type /\ About(type, s, b).steps = {s}
      /\ About(type, s, b).box = b /\ About(type, s, b).verdict = "none"
  BY DEF About, Event
<1>2. \A t \in Steps : IsStep(About(type, s, b), "step.started", t) =>
        t = s /\ type = "step.started"
  BY <1>1 DEF IsStep
<1>3. Fits(About(type, s, b), events) BY <1>1, <1>2 DEF Fits
<1>4. {s} \in SUBSET (Steps \cup {None}) /\ "none" \in Verdicts BY DEF Verdicts
<1>5. QED BY <1>1, <1>3, <1>4, Zenon

\* What was started and not finished is an event.
LEMMA OpenTyped ==
  ASSUME NEW events \in Seq(Events)
  PROVE  OpenIn(events) \in Events \cup {None}
<1> DEFINE unfinished == {n \in DOMAIN events :
        /\ events[n].type = "step.started"
        /\ \A m \in (n + 1)..Len(events) :
             events[m].type # "step.started"
             /\ ~(events[m].type \in {"step.completed", "step.failed"}
                  /\ events[m].steps = events[n].steps)}
<1>1. CASE unfinished = {} BY <1>1 DEF OpenIn
<1>2. CASE unfinished # {}
  <2>1. (CHOOSE n \in unfinished : TRUE) \in DOMAIN events BY <1>2
  <2>2. \A n \in DOMAIN events : events[n] \in Events OBVIOUS
  <2>3. QED BY <1>2, <2>1, <2>2 DEF OpenIn
<1>3. QED BY <1>1, <1>2

-----------------------------------------------------------------------------
\* A step that changes no file and nothing in Docker.
LEMMA Moves ==
  ASSUME NEW h \in Hosts, NEW x, IInv, host' = [host EXCEPT ![h] = x], Good(x, archive),
         UNCHANGED <<files, docker>>
  PROVE  IInv'
<1>1. Typed' BY DEF IInv, Typed, files, docker
<1>2. QED BY <1>1, Quiet DEF files

\* An exception that is handled, or the end of the call.
LEMMA Handles ==
  ASSUME NEW h \in Hosts, NEW pc \in Places, IInv, host[h].pc \notin {"idle", "create"},
         pc # "create" /\ pc # "interrupted" /\ pc \notin WithStep,
         \/ Handle(h, pc) \/ \E v \in Verdicts \ {"PASS"} : HandleWith(h, pc, v)
         \/ Go(h, pc),
         UNCHANGED archive, Typed'
  PROVE  IInv'
<1>1. host[h] \in Processes BY Born
<1>2. CASE Handle(h, pc)
  <2>1. host' = [host EXCEPT ![h] = [host[h] EXCEPT !.pc = pc, !.handling = TRUE]]
    BY <1>1, <1>2 DEF Handle, IInv, Hosted
  <2>2. QED BY <2>1, Elsewhere, Quiet
<1>3. CASE Go(h, pc)
  <2>1. host' = [host EXCEPT ![h] = Moved(h, pc)]
    BY <1>1, <1>3 DEF Go, Moved, IInv, Hosted
  <2>2. QED BY <2>1, Elsewhere, Quiet
<1>4. ASSUME NEW v \in Verdicts \ {"PASS"}, HandleWith(h, pc, v) PROVE IInv'
  <2>1. host' = [host EXCEPT ![h] = [host[h] EXCEPT !.pc = pc, !.verdict = v, !.handling = TRUE]]
    BY <1>1, <1>4 DEF HandleWith, IInv, Hosted
  <2>2. QED BY <2>1, Elsewhere, Quiet
<1>5. QED BY <1>2, <1>3, <1>4

LEMMA IdleGood == Good(Idle, archive) /\ Good(Idle, archive')
BY DEF Good, Idle, Unborn, Processes, Places, Verdicts, States

LEMMA Ends ==
  ASSUME NEW h \in Hosts, IInv, End(h), UNCHANGED archive, Typed'
  PROVE  IInv'
BY IdleGood, Quiet DEF End

\* The plain events of an attempt.
LEMMA WritesPlain ==
  ASSUME NEW h \in Hosts, NEW type \in EventTypes, NEW pc \in Places, IInv,
         host[h].pc \notin {"idle", "create"}, type # "step.started",
         pc # "create" /\ pc # "interrupted" /\ pc \notin WithStep,
         Write(h, Plain(type), Moved(h, pc)),
         pointer' = pointer, containers' = containers, made' = made
  PROVE  IInv'
<1>1. host[h].run \in DOMAIN archive BY Born DEF Informed
<1>2. Good(Moved(h, pc), archive) BY Elsewhere
<1>3. QED BY <1>1, <1>2, PlainFits, Written

LEMMA OneMore ==
  ASSUME NEW a \in Seq(Seq(Events)), NEW events \in Seq(Events)
  PROVE  /\ Append(a, events) \in Seq(Seq(Events))
         /\ DOMAIN Append(a, events) = 1..(Len(a) + 1)
         /\ \A q \in DOMAIN a : Append(a, events)[q] = a[q]
         /\ Append(a, events)[Len(a) + 1] = events
OBVIOUS

\* A process that creates an attempt is at it from then on.
LEMMA BornAnew ==
  ASSUME NEW h \in Hosts, NEW x \in Processes, IInv, host[h].pc = "create",
         archive' = Append(archive, <<Queued>>), host' = [host EXCEPT ![h] = x],
         UNCHANGED <<pointer, containers, made>>,
         x.run = Len(archive) + 1, x.done = host[h].done, x.verdict = host[h].verdict,
         x.pc \notin WithStep, x.pc # "interrupted", x.pc # "create"
  PROVE  IInv'
<1>1. Unborn(host[h]) BY DEF IInv, Hosted, Good, Informed
<1>2. Queued \in Events BY DEF Queued, Events, EventTypes, Verdicts
<1>3. <<Queued>> \in Seq(Events) BY <1>2
<1>4. /\ archive \in Seq(Seq(Events)) /\ Len(archive) \in Nat
      /\ DOMAIN archive = 1..Len(archive)
  BY DEF IInv, Typed
<1>5. /\ archive' \in Seq(Seq(Events)) /\ DOMAIN archive' = 1..(Len(archive) + 1)
      /\ \A q \in DOMAIN archive : archive'[q] = archive[q]
      /\ archive'[Len(archive) + 1] = <<Queued>>
  BY <1>3, <1>4, OneMore
<1>6. Typed' BY <1>4, <1>5 DEF IInv, Typed
<1>7. Good(x, archive')
  <2>1. Len(archive) + 1 \in DOMAIN archive' BY <1>4, <1>5
  <2>2. x.done = {} /\ x.verdict = "none" BY <1>1 DEF Unborn
  <2>3. QED BY <2>1, <2>2 DEF Good, Informed
<1>8. Hosted'
  <2>1. DOMAIN archive \subseteq DOMAIN archive' BY <1>4, <1>5
  <2>2. \A q \in DOMAIN archive : DoneIn(archive[q]) \subseteq DoneIn(archive'[q]) BY <1>5
  <2>3. \A g \in Hosts : Good(host[g], archive') BY <2>1, <2>2, GoodStays DEF IInv, Hosted
  <2>4. QED BY <1>7, <2>3 DEF IInv, Hosted, Good
<1>9. Recorded'
  <2>1. InOrder(<<Queued>>) /\ Earned(<<Queued>>)
    BY DEF InOrder, Earned, IsStep, Queued
  <2>2. \A q \in DOMAIN archive' : q \in DOMAIN archive \/ archive'[q] = <<Queued>>
    BY <1>4, <1>5
  <2>3. QED BY <1>5, <2>1, <2>2 DEF IInv, Recorded
<1>10. QED BY <1>6, <1>8, <1>9 DEF IInv

\* Opening the attempt keeps the invariant.
LEMMA OpeningKeeps ==
  ASSUME NEW h \in Hosts, IInv,
         Begin(h) \/ Resume(h) \/ Restart(h) \/ Create(h) \/ CreateStarted(h) \/ Point(h)
                  \/ FindDocker(h)
  PROVE  IInv'
<1> USE DEF Places
<1>1. CASE Begin(h)
  <2> DEFINE x == IF pointer = None THEN [Idle EXCEPT !.pc = "create"]
                  ELSE [Idle EXCEPT !.pc = "resume", !.run = pointer]
  <2>1. pointer # None => pointer \in DOMAIN archive /\ pointer \in Nat
    BY DEF IInv, Typed
  <2>2. Good(x, archive)
    BY <2>1 DEF Good, Unborn, Informed, Idle, Processes, Verdicts, States, WithStep
  <2>3. host' = [host EXCEPT ![h] = x] /\ UNCHANGED <<files, docker>> BY <1>1 DEF Begin
  <2>4. QED BY <2>2, <2>3, Moves
<1>2. CASE Resume(h)
  <2> DEFINE events == archive[host[h].run]
             x == [host[h] EXCEPT !.pc = "error", !.verdict = "INVALID",
                     !.handling = TRUE, !.sequence = Len(events)]
             y == [host[h] EXCEPT !.pc = "restart", !.sequence = Len(events),
                     !.open = OpenIn(events), !.done = DoneIn(events)]
  <2>1. host[h].pc = "resume" BY <1>2 DEF Resume, At
  <2>2. host[h] \in Processes /\ Informed(host[h], archive) BY <2>1, Born
  <2>3. events \in Seq(Events) BY <2>2 DEF IInv, Typed, Informed
  <2>4. Len(events) \in Nat /\ OpenIn(events) \in Events \cup {None}
        /\ DoneIn(events) \in SUBSET Steps
    BY <2>3, OpenTyped DEF DoneIn
  <2>5. UNCHANGED <<files, docker>> /\ UNCHANGED archive /\ Typed'
    BY <1>2 DEF Resume, IInv, Typed, files, docker
  <2>6. CASE HandleWith(h, "error", "INVALID")
    BY <2>1, <2>5, <2>6, Handles DEF WithStep, Verdicts
  <2>7. CASE host' = [host EXCEPT ![h] = x]
    <3>1. Good(x, archive)
      <4>1. /\ x \in Processes /\ x.pc = "error" /\ x.verdict = "INVALID"
            /\ x.run = host[h].run /\ x.done = host[h].done
        BY <2>2, <2>4 DEF Processes, Verdicts
      <4>2. QED BY <2>2, <4>1 DEF Good, Informed, WithStep
    <3>2. QED BY <2>5, <2>7, <3>1, Moves
  <2>8. CASE host' = [host EXCEPT ![h] = y]
    <3>1. Good(y, archive)
      <4>1. /\ y \in Processes /\ y.pc = "restart" /\ y.verdict = host[h].verdict
            /\ y.run = host[h].run /\ y.done = DoneIn(events)
        BY <2>2, <2>4 DEF Processes
      <4>2. QED BY <2>2, <4>1 DEF Good, Informed, WithStep
    <3>2. QED BY <2>5, <2>8, <3>1, Moves
  <2>9. CASE host' = [host EXCEPT ![h].pc = "error", ![h].verdict = "INVALID",
                        ![h].handling = TRUE, ![h].sequence = Len(events)]
    BY <2>2, <2>7, <2>9 DEF IInv, Hosted
  <2>10. CASE host' = [host EXCEPT ![h].pc = "restart", ![h].sequence = Len(events),
                        ![h].open = OpenIn(events), ![h].done = DoneIn(events)]
    BY <2>2, <2>8, <2>10 DEF IInv, Hosted
  <2>11. QED BY <1>2, <2>6, <2>9, <2>10 DEF Resume
<1>3. CASE Restart(h) \/ CreateStarted(h)
  BY <1>3, WritesPlain DEF Restart, CreateStarted, At, docker, EventTypes, WithStep
<1>4. CASE Create(h)
  <2> DEFINE x == [host[h] EXCEPT !.pc = "create_started", !.run = Len(archive) + 1,
                                  !.sequence = 1]
  <2>1. host[h].pc = "create" BY <1>4 DEF Create, At
  <2>2. host[h] \in Processes BY DEF IInv, Hosted, Good
  <2>3. host' = [host EXCEPT ![h] = x]
    BY <1>4, <2>2 DEF Create, IInv, Hosted
  <2>4. Len(archive) + 1 \in Nat BY DEF IInv, Typed
  <2>5. /\ x \in Processes /\ x.pc = "create_started" /\ x.run = Len(archive) + 1
        /\ x.done = host[h].done /\ x.verdict = host[h].verdict
    BY <2>2, <2>4 DEF Processes
  <2>6. x.pc \notin WithStep /\ x.pc # "interrupted" /\ x.pc # "create"
    BY <2>5 DEF WithStep
  <2>7. archive' = Append(archive, <<Queued>>) /\ UNCHANGED <<pointer, containers, made>>
    BY <1>4 DEF Create, docker
  <2>8. QED BY <2>1, <2>3, <2>5, <2>6, <2>7, BornAnew
<1>5. CASE Point(h)
  <2>1. host[h].pc = "point" BY <1>5 DEF Point, At
  <2>2. host[h].run \in DOMAIN archive BY <2>1, Born DEF Informed
  <2>3. Typed' BY <1>5, <2>2 DEF Point, IInv, Typed, docker
  <2>4. QED BY <1>5, <2>1, <2>3, Handles DEF Point, WithStep
<1>6. CASE FindDocker(h)
  <2>1. Typed' /\ UNCHANGED archive BY <1>6 DEF FindDocker, IInv, Typed, files, docker
  <2>2. QED BY <1>6, <2>1, Handles DEF FindDocker, At, WithStep
<1>7. QED BY <1>1, <1>2, <1>3, <1>4, <1>5, <1>6

-----------------------------------------------------------------------------
\* A container that is found is taken over, or the run is judged, never passed.
LEMMA RecoverKeeps ==
  ASSUME NEW h \in Hosts, IInv, NEW open \in Events \cup {None}, NEW y \in Processes,
         Informed(y, archive), NEW after \in {"dispatch", "cancelled"},
         Recover(h, open, y, after), UNCHANGED <<files, made>>
  PROVE  IInv'
<1> DEFINE found == Candidates(host[h].run)
           exact == IF open = None THEN {} ELSE {c \in found : {c.step} = open.steps}
           owned == {c \in exact : c.id = open.box}
           goto == [y EXCEPT !.pc = after]
           judge(v) == [y EXCEPT !.pc = "close", !.verdict = v]
           take == [y EXCEPT !.pc = "interrupted", !.open = open]
           x == IF found = {} THEN goto
                ELSE IF Cardinality(exact) > 1 THEN judge("FAIL")
                ELSE IF exact = {} \/ owned = {} THEN judge("INCONCLUSIVE") ELSE take
<1>1. host' = [host EXCEPT ![h] = x]
  BY DEF Recover, Processes
<1>2. containers' \subseteq containers BY DEF Recover
<1>3. Typed' BY <1>2 DEF IInv, Typed, files
<1>4. Good(goto, archive) BY DEF Good, Informed, Processes, Places, WithStep
<1>5. Good(judge("FAIL"), archive) /\ Good(judge("INCONCLUSIVE"), archive)
  BY ZenonT(30) DEF Good, Informed, Processes, Places, Verdicts, WithStep
<1>6. exact # {} => Good(take, archive)
  BY DEF Good, Informed, Processes, Places, WithStep
<1>7. Good(x, archive) BY <1>4, <1>5, <1>6
<1>8. QED BY <1>1, <1>3, <1>7, Quiet DEF files

\* The steps of a process at work keep the invariant.
LEMMA WorkKeeps ==
  ASSUME NEW h \in Hosts, IInv,
         Reobserve(h) \/ RecordInterrupted(h) \/ Authorize(h) \/ CreateBox(h) \/ StepStarted(h)
  PROVE  IInv'
<1> USE DEF Places
<1>1. host[h].pc \notin {"idle", "create"}
  BY DEF Reobserve, RecordInterrupted, Authorize, CreateBox, StepStarted, At
<1>2. host[h] \in Processes /\ Informed(host[h], archive) BY <1>1, Born
<1>3. host[h].run \in DOMAIN archive /\ archive[host[h].run] \in Seq(Events)
  BY <1>2 DEF IInv, Typed, Informed
<1>4. CASE Reobserve(h)
  <2>1. UNCHANGED <<files, made>> BY <1>4 DEF Reobserve
  <2>2. CASE Recover(h, host[h].open, host[h], "dispatch")
    BY <1>2, <2>1, <2>2, RecoverKeeps DEF Processes
  <2>3. CASE Handle(h, "failed") /\ UNCHANGED containers
    <3>1. Typed' /\ UNCHANGED archive BY <2>1, <2>3 DEF IInv, Typed, files
    <3>2. QED BY <1>1, <2>3, <3>1, Handles DEF WithStep
  <2>4. QED BY <1>4, <2>2, <2>3 DEF Reobserve
<1>5. CASE RecordInterrupted(h)
  <2> DEFINE event == [host[h].open EXCEPT !.type = "step.failed"]
             pc == IF host[h].handling THEN "cancelled" ELSE "dispatch"
  <2>1. host[h].open \in Events BY <1>2, <1>5 DEF Informed, RecordInterrupted, At
  <2>2. /\ event.type \in EventTypes /\ event.type = "step.failed"
        /\ event.steps \in SUBSET (Steps \cup {None})
        /\ event.box \in Nat /\ event.verdict \in Verdicts
    BY <2>1 DEF Events, EventTypes
  <2>3. Fits(event, archive[host[h].run]) BY <2>2 DEF Fits, IsStep
  <2>4. Good(Moved(h, pc), archive) BY <1>1, Elsewhere DEF WithStep
  <2>5. Write(h, event, Moved(h, pc)) /\ pointer' = pointer /\ containers' = containers
        /\ made' = made
    BY <1>5 DEF RecordInterrupted, docker
  <2>6. QED BY <1>3, <2>2, <2>3, <2>4, <2>5, Written
<1>6. CASE Authorize(h)
  <2>1. CASE Handle(h, "stale") /\ UNCHANGED archive
    <3>1. Typed' BY <1>6, <2>1 DEF Authorize, IInv, Typed, docker
    <3>2. QED BY <1>1, <2>1, <3>1, Handles DEF WithStep
  <2>2. ASSUME NEW s \in Ready(h),
               Write(h, About("policy.checked", s, 0),
                     [host[h] EXCEPT !.pc = "create_box", !.step = s])
        PROVE  IInv'
    <3> DEFINE x == [host[h] EXCEPT !.pc = "create_box", !.step = s]
    <3>1. s \in Steps /\ DependsOn[s] \subseteq DoneIn(archive[host[h].run])
      BY <1>2 DEF Ready, Informed
    <3>2. Good(x, archive)
      <4>1. /\ x \in Processes /\ x.pc = "create_box" /\ x.step = s
            /\ x.verdict = host[h].verdict /\ x.run = host[h].run /\ x.done = host[h].done
        BY <1>2, <3>1 DEF Processes
      <4>2. QED BY <1>2, <3>1, <4>1 DEF Good, Informed, WithStep
    <3>3. pointer' = pointer /\ containers' = containers /\ made' = made
      BY <1>6 DEF Authorize, docker
    <3>4. "policy.checked" \in EventTypes /\ 0 \in Nat BY DEF EventTypes
    <3>5. QED BY <1>3, <2>2, <3>1, <3>2, <3>3, <3>4, AboutFits, Written
  <2>3. QED BY <1>6, <2>1, <2>2 DEF Authorize
<1>7. CASE CreateBox(h)
  <2>1. CASE Handle(h, "failed") /\ UNCHANGED docker
    <3>1. Typed' /\ UNCHANGED archive
      BY <1>7, <2>1 DEF CreateBox, IInv, Typed, files, docker
    <3>2. QED BY <1>1, <2>1, <3>1, Handles DEF WithStep
  <2>2. CASE /\ made' = made + 1
             /\ containers' = containers \cup
                  {[id |-> made', run |-> host[h].run, step |-> host[h].step,
                    state |-> "created"]}
             /\ host' = [host EXCEPT ![h].pc = "step_started", ![h].box = made']
    <3> DEFINE x == [host[h] EXCEPT !.pc = "step_started", !.box = made']
    <3>1. made' \in Nat BY <2>2 DEF IInv, Typed
    <3>2. [id |-> made', run |-> host[h].run, step |-> host[h].step, state |-> "created"] \in Boxes
      BY <1>2, <3>1 DEF Processes, Boxes, States
    <3>3. Typed' /\ UNCHANGED archive
      BY <1>7, <2>2, <3>1, <3>2 DEF CreateBox, IInv, Typed, files
    <3>4. Good(x, archive)
      <4>1. host[h].pc = "create_box" BY <1>7 DEF CreateBox, At
      <4>2. /\ x \in Processes /\ x.pc = "step_started" /\ x.step = host[h].step
            /\ x.verdict = host[h].verdict /\ x.run = host[h].run /\ x.done = host[h].done
        BY <1>2, <3>1 DEF Processes
      <4>3. QED BY <1>2, <4>1, <4>2 DEF Good, Informed, WithStep
    <3>5. host' = [host EXCEPT ![h] = x] BY <1>2, <2>2 DEF IInv, Hosted
    <3>6. QED BY <3>3, <3>4, <3>5, Quiet
  <2>3. QED BY <1>7, <2>1, <2>2 DEF CreateBox
<1>8. CASE StepStarted(h)
  <2>1. host[h].step \in Steps /\ DependsOn[host[h].step] \subseteq DoneIn(archive[host[h].run])
    BY <1>2, <1>8 DEF Informed, StepStarted, At, WithStep
  <2>2. host[h].box \in Nat /\ "step.started" \in EventTypes
    BY <1>2 DEF Processes, EventTypes
  <2>3. Good(Moved(h, "start"), archive)
    BY <1>1, <1>8, Elsewhere DEF StepStarted, At, WithStep
  <2>4. Write(h, About("step.started", host[h].step, host[h].box), Moved(h, "start"))
        /\ pointer' = pointer /\ containers' = containers /\ made' = made
    BY <1>8 DEF StepStarted, docker
  <2>5. QED BY <1>3, <2>1, <2>2, <2>3, <2>4, AboutFits, Written
<1>9. QED BY <1>4, <1>5, <1>6, <1>7, <1>8

\* What becomes of the containers keeps their types.
LEMMA BecomeTyped ==
  ASSUME NEW h \in Hosts, IInv, NEW state \in States, Become(h, state),
         UNCHANGED <<files, made>>
  PROVE  Typed'
BY DEF IInv, Typed, Become, Box, Boxes, files

\* So do the steps of a process whose container is there.
LEMMA BoxKeeps ==
  ASSUME NEW h \in Hosts, IInv,
         StartBox(h) \/ Timeout(h) \/ Exited(h) \/ RemoveBox(h) \/ RecordResult(h) \/ Receipt(h)
  PROVE  IInv'
<1> USE DEF Places
<1>1. host[h].pc \notin {"idle", "create"}
  BY DEF StartBox, Timeout, Exited, RemoveBox, RecordResult, Receipt, At
<1>2. host[h] \in Processes /\ Informed(host[h], archive) BY <1>1, Born
<1>3. host[h].run \in DOMAIN archive /\ archive[host[h].run] \in Seq(Events)
  BY <1>2 DEF IInv, Typed, Informed
<1>4. CASE StartBox(h)
  <2>1. host[h].pc = "start" /\ UNCHANGED <<files, made, archive>>
    BY <1>4 DEF StartBox, At, files
  <2>2. CASE Become(h, "running") /\ Go(h, "wait")
    <3>1. Typed' BY <2>1, <2>2, BecomeTyped DEF States
    <3>2. host' = [host EXCEPT ![h] = Moved(h, "wait")]
      BY <1>2, <2>2 DEF Go, Moved, IInv, Hosted
    <3>3. Good(Moved(h, "wait"), archive) BY <2>1, Elsewhere DEF WithStep
    <3>4. QED BY <2>1, <3>1, <3>2, <3>3, Quiet
  <2>3. CASE UNCHANGED containers
             /\ host' = [host EXCEPT ![h].pc = "remove", ![h].outcome = "gone"]
    <3> DEFINE x == [host[h] EXCEPT !.pc = "remove", !.outcome = "gone"]
    <3>1. Typed' BY <2>1, <2>3 DEF IInv, Typed, files
    <3>2. Good(x, archive)
      <4>1. /\ x \in Processes /\ x.pc = "remove" /\ x.run = host[h].run
            /\ x.done = host[h].done /\ x.verdict = host[h].verdict /\ x.step = host[h].step
        BY <1>2 DEF Processes, States
      <4>2. Informed(x, archive) BY <1>2, <2>1, <4>1 DEF Informed, WithStep
      <4>3. QED BY <4>1, <4>2 DEF Good
    <3>3. host' = [host EXCEPT ![h] = x] BY <1>2, <2>3 DEF IInv, Hosted
    <3>4. QED BY <2>1, <3>1, <3>2, <3>3, Quiet
  <2>4. QED BY <1>4, <2>2, <2>3 DEF StartBox
<1>5. CASE Timeout(h)
  <2>1. host[h].pc = "wait" /\ UNCHANGED <<files, made, archive>>
    BY <1>5 DEF Timeout, At, files
  <2>2. ASSUME NEW state \in StepEnds \cup {"bad"}, Become(h, state), UNCHANGED host
        PROVE  IInv'
    <3>1. state \in States BY ManifestAssumption DEF States
    <3>2. Typed' BY <2>1, <2>2, <3>1, BecomeTyped
    <3>3. QED BY <2>1, <2>2, <3>2 DEF IInv, Hosted, Recorded
  <2>3. CASE UNCHANGED containers
             /\ host' = [host EXCEPT ![h].pc = "remove", ![h].outcome = "gone"]
    <3> DEFINE x == [host[h] EXCEPT !.pc = "remove", !.outcome = "gone"]
    <3>1. Typed' BY <2>1, <2>3 DEF IInv, Typed, files
    <3>2. Good(x, archive)
      <4>1. /\ x \in Processes /\ x.pc = "remove" /\ x.run = host[h].run
            /\ x.done = host[h].done /\ x.verdict = host[h].verdict /\ x.step = host[h].step
        BY <1>2 DEF Processes, States
      <4>2. Informed(x, archive) BY <1>2, <2>1, <4>1 DEF Informed, WithStep
      <4>3. QED BY <4>1, <4>2 DEF Good
    <3>3. host' = [host EXCEPT ![h] = x] BY <1>2, <2>3 DEF IInv, Hosted
    <3>4. QED BY <2>1, <3>1, <3>2, <3>3, Quiet
  <2>4. QED BY <1>5, <2>2, <2>3 DEF Timeout
<1>6. CASE Exited(h)
  <2>1. PICK o \in States : host' = [host EXCEPT ![h].pc = "remove", ![h].outcome = o]
    <3>1. \A c \in containers : c.state \in States BY DEF IInv, Typed, Boxes
    <3>2. QED BY <1>6, <3>1 DEF Exited, Box, States
  <2> DEFINE x == [host[h] EXCEPT !.pc = "remove", !.outcome = o]
  <2>2. Good(x, archive)
    <3>1. /\ x \in Processes /\ x.pc = "remove" /\ x.run = host[h].run
          /\ x.done = host[h].done /\ x.verdict = host[h].verdict /\ x.step = host[h].step
      BY <1>2 DEF Processes
    <3>2. host[h].pc = "wait" BY <1>6 DEF Exited, At
    <3>3. Informed(x, archive) BY <1>2, <3>1, <3>2 DEF Informed, WithStep
    <3>4. QED BY <3>1, <3>3 DEF Good
  <2>3. host' = [host EXCEPT ![h] = x] BY <1>2, <2>1 DEF IInv, Hosted
  <2>4. QED BY <1>6, <2>2, <2>3, Moves DEF Exited
<1>7. CASE RemoveBox(h)
  <2>1. Typed' /\ UNCHANGED archive BY <1>7 DEF RemoveBox, IInv, Typed, files
  <2>2. host[h].pc = "remove" BY <1>7 DEF RemoveBox, At
  <2>3. CASE Go(h, "result")
    <3>1. host' = [host EXCEPT ![h] = Moved(h, "result")]
      BY <1>2, <2>3 DEF Go, Moved, IInv, Hosted
    <3>2. Good(Moved(h, "result"), archive) BY <2>2, Elsewhere DEF WithStep
    <3>3. QED BY <2>1, <3>1, <3>2, Quiet
  <2>4. CASE HandleWith(h, "error", "INCONCLUSIVE") \/ Handle(h, "failed")
    BY <1>1, <2>1, <2>4, Handles DEF WithStep, Verdicts
  <2>5. QED BY <1>7, <2>3, <2>4 DEF RemoveBox
<1>8. CASE RecordResult(h)
  <2> DEFINE s == host[h].step
  <2>1. s \in Steps BY <1>2, <1>8 DEF Informed, RecordResult, At, WithStep
  <2>2. pointer' = pointer /\ containers' = containers /\ made' = made
    BY <1>8 DEF RecordResult, docker
  <2>3. {"step.completed", "step.failed"} \subseteq EventTypes /\ 0 \in Nat BY DEF EventTypes
  <2>4. CASE Write(h, About("step.completed", s, 0),
            [host[h] EXCEPT !.pc = "dispatch", !.done = host[h].done \cup {s},
                            !.results = host[h].results \cup {s}])
    <3> DEFINE x == [host[h] EXCEPT !.pc = "dispatch", !.done = host[h].done \cup {s},
                                    !.results = host[h].results \cup {s}]
               event == About("step.completed", s, 0)
               e == [type |-> event.type, steps |-> event.steps, box |-> event.box,
                     verdict |-> event.verdict, sequence |-> host[h].sequence]
    <3>1. /\ event.type \in EventTypes /\ event.steps \in SUBSET (Steps \cup {None})
          /\ event.box \in Nat /\ event.verdict \in Verdicts
          /\ Fits(event, archive[host[h].run])
      BY <2>1, <2>3, AboutFits
    <3>2. e \in Events /\ IsStep(e, "step.completed", s)
      <4>1. host[h].sequence \in Nat BY <1>2 DEF Processes
      <4>2. e \in Events BY <3>1, <4>1 DEF Events
      <4>3. event.type = "step.completed" /\ event.steps = {s} BY DEF About, Event
      <4>4. QED BY <4>2, <4>3 DEF IsStep
    <3>3. archive' = Grown(archive, host[h].run, e) BY <2>4 DEF Write, Append1, Grown
    <3>4. archive \in Seq(Seq(Events)) BY DEF IInv, Typed
    <3>5. /\ DOMAIN archive' = DOMAIN archive
          /\ \A q \in DOMAIN archive : DoneIn(archive[q]) \subseteq DoneIn(archive'[q])
          /\ s \in DoneIn(archive'[host[h].run])
      BY <1>3, <2>1, <3>2, <3>3, <3>4, GrownKeeps
    <3>6. Good(x, archive')
      <4>1. x \in Processes /\ x.pc = "dispatch" /\ x.run = host[h].run
            /\ x.verdict = host[h].verdict /\ x.done = host[h].done \cup {s}
        BY <1>2, <2>1 DEF Processes
      <4>2. QED BY <1>2, <1>3, <3>5, <4>1 DEF Good, Informed, WithStep
    <3>7. QED BY <1>3, <2>2, <2>4, <3>1, <3>6, Written
  <2>5. CASE Write(h, About("step.failed", s, 0),
            [host[h] EXCEPT !.pc = "close", !.verdict = "FAIL"])
    <3> DEFINE x == [host[h] EXCEPT !.pc = "close", !.verdict = "FAIL"]
    <3>1. Good(x, archive)
      <4>1. /\ x \in Processes /\ x.pc = "close" /\ x.verdict = "FAIL"
            /\ x.run = host[h].run /\ x.done = host[h].done
        BY <1>2 DEF Processes, Verdicts
      <4>2. Informed(x, archive) BY <1>2, <4>1 DEF Informed, WithStep
      <4>3. QED BY <4>1, <4>2 DEF Good
    <3>2. QED BY <1>3, <2>1, <2>2, <2>3, <2>5, <3>1, AboutFits, Written
  <2>6. QED BY <1>8, <2>4, <2>5 DEF RecordResult
<1>9. CASE Receipt(h)
  <2> DEFINE event == Event("evidence.recorded", host[h].results, 0, "none")
             v == IF Required \subseteq host[h].done THEN "PASS" ELSE "INCONCLUSIVE"
             x == [host[h] EXCEPT !.pc = "close", !.verdict = v]
  <2>1. /\ event.type = "evidence.recorded" /\ event.type \in EventTypes
        /\ event.steps \in SUBSET (Steps \cup {None})
        /\ event.box \in Nat /\ event.verdict \in Verdicts
    BY <1>2 DEF Event, EventTypes, Processes, Verdicts
  <2>2. Fits(event, archive[host[h].run]) BY <2>1 DEF Fits, IsStep
  <2>3. Good(x, archive)
    <3>1. /\ x \in Processes /\ x.pc = "close" /\ x.verdict = v
          /\ x.run = host[h].run /\ x.done = host[h].done
      BY <1>2 DEF Processes, Verdicts
    <3>2. Informed(x, archive) BY <1>2, <3>1 DEF Informed, WithStep
    <3>3. QED BY <3>1, <3>2 DEF Good
  <2>4. Write(h, event, x) /\ pointer' = pointer /\ containers' = containers /\ made' = made
    BY <1>9 DEF Receipt, docker
  <2>5. QED BY <1>3, <2>1, <2>2, <2>3, <2>4, Written
<1>10. QED BY <1>4, <1>5, <1>6, <1>7, <1>8, <1>9

\* So does the closing of the attempt: PASS is written only when it is earned.
LEMMA ClosingKeeps ==
  ASSUME NEW h \in Hosts, IInv,
         Close(h) \/ RecordError(h) \/ Fail(h) \/ Stale(h) \/ Cancelled(h) \/ Unlink(h)
                  \/ Cancel(h)
  PROVE  IInv'
<1> USE DEF Places
<1>1. host[h].pc \notin {"idle", "create"}
  BY DEF Close, RecordError, Fail, Stale, Cancelled, Unlink, Cancel, Give, At
<1>2. host[h] \in Processes /\ Informed(host[h], archive) BY <1>1, Born
<1>3. host[h].run \in DOMAIN archive /\ archive[host[h].run] \in Seq(Events)
  BY <1>2 DEF IInv, Typed, Informed
<1>4. CASE Close(h)
  <2> DEFINE event == Completed(host[h].verdict)
  <2>1. /\ event.type = "run.completed" /\ event.verdict = host[h].verdict
        /\ event.type \in EventTypes /\ event.steps \in SUBSET (Steps \cup {None})
        /\ event.box \in Nat /\ event.verdict \in Verdicts
    BY <1>2 DEF Completed, Event, EventTypes, Terminal, Processes
  <2>2. Fits(event, archive[host[h].run]) BY <1>2, <2>1 DEF Informed, Fits, IsStep
  <2>3. Good(Moved(h, "unlink"), archive) BY <1>1, Elsewhere DEF WithStep
  <2>4. Write(h, event, Moved(h, "unlink")) /\ pointer' = pointer
        /\ containers' = containers /\ made' = made
    BY <1>4 DEF Close, docker
  <2>5. QED BY <1>3, <2>1, <2>2, <2>3, <2>4, Written
<1>5. CASE RecordError(h) \/ Fail(h) \/ Stale(h) \/ Cancelled(h)
  BY <1>1, <1>5, WritesPlain
     DEF RecordError, Fail, Stale, Cancelled, Give, docker, EventTypes, Terminal, WithStep
<1>6. CASE Unlink(h)
  <2>1. Typed' BY <1>6 DEF Unlink, IInv, Typed, docker
  <2>2. QED BY <1>6, <2>1, Ends DEF Unlink
<1>7. CASE Cancel(h)
  <2> DEFINE events == archive[host[h].run]
             y == [host[h] EXCEPT !.sequence = Len(events)]
  <2>1. CASE End(h) /\ UNCHANGED containers
    <3>1. Typed' /\ UNCHANGED archive BY <1>7, <2>1 DEF Cancel, IInv, Typed, files
    <3>2. QED BY <2>1, <3>1, Ends
  <2>2. CASE Recover(h, OpenIn(events), y, "cancelled")
    <3>1. Len(events) \in Nat /\ OpenIn(events) \in Events \cup {None}
      BY <1>3, OpenTyped
    <3>2. y \in Processes /\ Informed(y, archive)
      BY <1>2, <3>1, SMTT(30) DEF Informed, Processes
    <3>3. UNCHANGED <<files, made>> BY <1>7 DEF Cancel
    <3>4. QED BY <2>2, <3>1, <3>2, <3>3, RecoverKeeps
  <2>3. QED BY <1>7, <2>1, <2>2 DEF Cancel
<1>8. QED BY <1>4, <1>5, <1>6, <1>7

\* An interrupt between an event and its count leaves the event.
LEMMA UncountedKeeps ==
  ASSUME NEW h \in Hosts, IInv, InterruptUncounted(h)
  PROVE  IInv'
<1>1. UNCHANGED <<pointer, containers, made>> BY DEF InterruptUncounted, docker
<1>2. host[h] \in Processes BY DEF IInv, Hosted, Good
<1>3. CASE /\ host[h].pc \in {"restart", "create_started"}
           /\ Append1(h, Plain("run.started"))
           /\ Handle(h, "cancelled")
  <2> DEFINE event == Plain("run.started")
             e == [type |-> event.type, steps |-> event.steps, box |-> event.box,
                   verdict |-> event.verdict, sequence |-> host[h].sequence]
             x == [host[h] EXCEPT !.pc = "cancelled", !.handling = TRUE]
  <2>1. host[h].run \in DOMAIN archive BY <1>3, Born DEF Informed
  <2>2. /\ event.type \in EventTypes /\ event.steps \in SUBSET (Steps \cup {None})
        /\ event.box \in Nat /\ event.verdict \in Verdicts
        /\ Fits(event, archive[host[h].run])
    BY PlainFits DEF EventTypes
  <2>3. e \in Events BY <1>2, <2>2 DEF Events, Processes
  <2>4. Fits(e, archive[host[h].run]) BY <2>2 DEF Fits, IsStep
  <2>5. archive' = Grown(archive, host[h].run, e) BY <1>3 DEF Append1, Grown
  <2>6. host' = [host EXCEPT ![h] = x] BY <1>2, <1>3 DEF Handle, IInv, Hosted
  <2>7. Good(x, archive) BY <1>3, Elsewhere DEF Places, WithStep
  <2>8. Good(x, archive')
    <3>1. archive \in Seq(Seq(Events)) BY DEF IInv, Typed
    <3>2. DOMAIN archive' = DOMAIN archive
          /\ \A q \in DOMAIN archive : DoneIn(archive[q]) \subseteq DoneIn(archive'[q])
      BY <2>1, <2>3, <2>5, <3>1, GrownKeeps
    <3>3. QED BY <2>7, <3>2, GoodStays
  <2> HIDE DEF x, e
  <2>9. QED BY <1>1, <2>1, <2>3, <2>4, <2>5, <2>6, <2>8, Writes
<1>4. CASE /\ At(h, "create")
           /\ archive' = Append(archive, << Queued >>)
           /\ host' = [host EXCEPT ![h].pc = "cancelled", ![h].run = Len(archive) + 1,
                                   ![h].handling = TRUE]
  <2> DEFINE x == [host[h] EXCEPT !.pc = "cancelled", !.run = Len(archive) + 1,
                                  !.handling = TRUE]
  <2>1. host' = [host EXCEPT ![h] = x] BY <1>2, <1>4 DEF IInv, Hosted
  <2>2. Len(archive) + 1 \in Nat BY DEF IInv, Typed
  <2>3. /\ x \in Processes /\ x.pc = "cancelled" /\ x.run = Len(archive) + 1
        /\ x.done = host[h].done /\ x.verdict = host[h].verdict
    BY <1>2, <2>2 DEF Processes, Places
  <2>4. x.pc \notin WithStep /\ x.pc # "interrupted" /\ x.pc # "create"
    BY <2>3 DEF WithStep
  <2>5. host[h].pc = "create" BY <1>4 DEF At
  <2>6. QED BY <1>1, <1>4, <2>1, <2>3, <2>4, <2>5, BornAnew
<1>5. QED BY <1>3, <1>4 DEF InterruptUncounted

\* An interrupt and a death leave what is recorded as it is.
LEMMA InterruptKeeps ==
  ASSUME NEW h \in Hosts, IInv, Interrupt(h)
  PROVE  IInv'
<1> USE DEF Places
<1>1. host[h].pc \notin {"idle", "create"} BY InterruptAssumption DEF Interrupt
<1>2. host[h] \in Processes /\ Informed(host[h], archive) BY <1>1, Born
<1>3. Typed' /\ UNCHANGED archive
  <2>1. CASE containers' \subseteq containers /\ made' = made
    BY <2>1 DEF Interrupt, IInv, Typed, files
  <2>2. CASE /\ made' = made + 1
             /\ containers' = containers \cup
                  {[id |-> made', run |-> host[h].run, step |-> host[h].step,
                    state |-> "created"]}
    <3>1. made' \in Nat BY <2>2 DEF IInv, Typed
    <3>2. [id |-> made', run |-> host[h].run, step |-> host[h].step, state |-> "created"] \in Boxes
      BY <1>2, <3>1 DEF Processes, Boxes, States
    <3>3. QED BY <2>2, <3>1, <3>2 DEF Interrupt, IInv, Typed, files
  <2>3. QED BY <2>1, <2>2 DEF Interrupt
<1>4. QED BY <1>1, <1>3, Handles DEF Interrupt, WithStep
LEMMA CrashKeeps ==
  ASSUME NEW h \in Hosts, IInv, Crash(h)
  PROVE  IInv'
<1>1. CASE UNCHANGED archive
  <2>1. Typed' BY <1>1 DEF Crash, IInv, Typed, docker
  <2>2. QED BY <1>1, <2>1, Ends DEF Crash
<1>2. CASE host[h].pc \in Writing /\ Append1(h, Plain("torn"))
  <2> DEFINE event == Plain("torn")
             e == [type |-> event.type, steps |-> event.steps, box |-> event.box,
                   verdict |-> event.verdict, sequence |-> host[h].sequence]
  <2>1. host[h] \in Processes /\ host[h].run \in DOMAIN archive
    BY <1>2, Born DEF Writing, Informed
  <2>2. /\ event.type \in EventTypes /\ event.steps \in SUBSET (Steps \cup {None})
        /\ event.box \in Nat /\ event.verdict \in Verdicts
        /\ Fits(event, archive[host[h].run])
    BY PlainFits DEF EventTypes
  <2>3. e \in Events BY <2>1, <2>2 DEF Events, Processes
  <2>4. Fits(e, archive[host[h].run]) BY <2>2 DEF Fits, IsStep
  <2>5. archive' = Grown(archive, host[h].run, e) BY <1>2 DEF Append1, Grown
  <2>6. host' = [host EXCEPT ![h] = Idle] /\ pointer' = pointer
        /\ containers' = containers /\ made' = made
    BY DEF Crash, End, docker
  <2>7. QED BY <2>1, <2>3, <2>4, <2>5, <2>6, IdleGood, Writes
<1>3. QED BY <1>1, <1>2 DEF Crash

-----------------------------------------------------------------------------
\* The invariant holds of every behaviour.
LEMMA Invariant == Spec => []IInv
<1>1. Init => IInv
  <2> SUFFICES ASSUME Init PROVE IInv
    OBVIOUS
  <2>1. Typed BY DEF Init, Typed
  <2>2. Hosted BY IdleGood DEF Init, Hosted, Good
  <2>3. Recorded BY DEF Init, Recorded
  <2>4. QED BY <2>1, <2>2, <2>3 DEF IInv
<1>2. IInv /\ [Next]_vars => IInv'
  <2> SUFFICES ASSUME IInv, [Next]_vars PROVE IInv'
    OBVIOUS
  <2>1. ASSUME NEW h \in Hosts, Step(h) PROVE IInv'
    BY <2>1, OpeningKeeps, WorkKeeps, BoxKeeps, ClosingKeeps DEF Step
  <2>2. ASSUME NEW h \in Hosts, Interrupt(h) \/ InterruptUncounted(h) \/ Crash(h) PROVE IInv'
    BY <2>2, InterruptKeeps, UncountedKeeps, CrashKeeps
  <2>3. CASE BoxExits
    <3>1. Typed'
      <4>1. \A c \in Boxes : \A state \in StepEnds : [c EXCEPT !.state = state] \in Boxes
        BY ManifestAssumption DEF Boxes, States
      <4>2. QED BY <2>3, <4>1 DEF BoxExits, IInv, Typed, files
    <3>2. UNCHANGED <<archive, host>> BY <2>3 DEF BoxExits, files
    <3>3. QED BY <3>1, <3>2 DEF IInv, Hosted, Recorded
  <2>4. CASE ApprovalChanges \/ UNCHANGED vars
    <3>1. UNCHANGED <<archive, host, pointer, containers, made>>
      BY <2>4 DEF ApprovalChanges, vars, files, docker
    <3>2. QED BY <3>1 DEF IInv, Typed, Hosted, Recorded
  <2>5. QED BY <2>1, <2>2, <2>3, <2>4 DEF Next
<1>3. QED BY <1>1, <1>2, PTL DEF Spec

\* Every attempt that is closed with PASS has all its required steps recorded
\* as completed, for any number of processes, deaths, interrupts and steps.
THEOREM PassEarned == Spec => []PassIsEarned
<1>1. IInv => PassIsEarned
  BY DEF IInv, Recorded, Earned, PassIsEarned, Passed, Attempts
<1>2. QED BY <1>1, Invariant, PTL

\* No step is started before all it depends on is recorded as completed, even
\* when several processes work on one attempt.
THEOREM DependenciesKept == Spec => []DependenciesFirst
<1>1. IInv => DependenciesFirst
  <2> SUFFICES ASSUME IInv, NEW r \in Attempts, NEW n \in DOMAIN archive[r], NEW s \in Steps,
                      IsStep(archive[r][n], "step.started", s)
               PROVE  DependsOn[s] \subseteq DoneIn(SubSeq(archive[r], 1, n))
    BY DEF DependenciesFirst
  <2>1. archive[r] \in Seq(Events) BY DEF IInv, Typed, Attempts
  <2>2. DependsOn[s] \subseteq DoneBy(archive[r], n)
    BY DEF IInv, Recorded, InOrder, Attempts
  <2>3. QED BY <2>1, <2>2, PrefixDone
<1>2. QED BY <1>1, Invariant, PTL

-----------------------------------------------------------------------------
(* One process at a time.  Nothing keeps a second one out, and with two the *)
(* rest does not hold; so the theorems that follow are about behaviours in  *)
(* which one process calls verify, again and again.  While such a process   *)
(* is at work, its attempt is open and whole, it counts the events of the   *)
(* attempt and knows the steps that are done, and between two steps the     *)
(* attempt has no container; at any time it has at most one.                *)

OneProcess == \A g, h \in Hosts : g = h

Over == Terminal \cup {"torn"}
Clean(events) == \A n \in DOMAIN events : events[n].type \notin Over
PassedIn(events) ==
  \E n \in DOMAIN events : events[n].type = "run.completed" /\ events[n].verdict = "PASS"

\* The properties, of one attempt.
Placed(events) ==
  \A n \in DOMAIN events :
    \/ events[n].sequence = n - 1
    \/ events[n].type = "torn"
    \/ events[n].type = "run.cancelled" /\ events[n].sequence \in {0, n - 2}
    \/ \E m \in 1..(n - 1) : events[m].type \in Over
Checked(events) ==
  \A n \in DOMAIN events : \A s \in Steps :
    IsStep(events[n], "step.started", s) =>
      \E m \in 1..(n - 1) : /\ IsStep(events[m], "policy.checked", s)
                            /\ \A k \in m..(n - 1) : ~IsStep(events[k], "step.started", s)

AtWork == {"restart", "create_started", "point", "docker", "reobserve", "dispatch"} \cup WithStep
Working(x) == x.pc \in AtWork \/ (x.pc = "interrupted" /\ ~x.handling)

\* Until its attempt is closed a process counts its events, but one that was
\* interrupted before docker was found.
Counts(x, events) ==
  Clean(events) =>
    /\ x.pc \in {"error", "interrupted", "close", "failed", "stale"} => x.sequence = Len(events)
    /\ x.pc = "cancelled" => x.sequence \in {0, Len(events) - 1, Len(events)}

\* An event in its place, or one that need not be.
InPlace(e, events) ==
  \/ e.sequence = Len(events) \/ e.type = "torn" \/ ~Clean(events)
  \/ e.type = "run.cancelled" /\ e.sequence \in {0, Len(events) - 1}

\* What process x knows of the events of its attempt.
Knows(x, events) ==
  /\ x.pc \in {"create", "resume"} => ~x.handling /\ x.sequence = 0
  /\ x.pc = "cancel" => x.handling
  /\ x.pc = "error" => x.verdict # "PASS"
  /\ Working(x) => /\ ~x.handling /\ Clean(events)
                   /\ x.sequence = Len(events) /\ x.done = DoneIn(events)
  /\ Counts(x, events)
  /\ x.pc \in WithStep => x.step \notin x.done
  /\ x.pc \in {"create_box", "step_started"} =>
       Len(events) > 0 /\ IsStep(events[Len(events)], "policy.checked", x.step)

\* The containers of its attempt: none, or the one of the step it is at.
Between(x) ==
  \/ x.pc \in {"dispatch", "create_box", "result"}
  \/ x.pc = "interrupted" /\ ~x.handling
  \/ x.pc = "close" /\ x.verdict = "PASS"
WithBox == {"step_started", "start", "wait", "remove"}
Holds(x, boxes) ==
  /\ Between(x) => \A c \in boxes : c.run # x.run
  /\ x.pc \in WithBox => \A c \in boxes : /\ c.run = x.run <=> c.id = x.box
                                          /\ c.id = x.box => c.step = x.step

\* The containers, each of one attempt that has not passed and has no other.
OnlyOpen ==
  /\ \A c \in containers :
       /\ c.run \in DOMAIN archive /\ c.id \in 1..made
       /\ ~PassedIn(archive[c.run])
       /\ c.state = "running" => c.step \notin DoneIn(archive[c.run])
  /\ \A c, d \in containers : c.id = d.id \/ c.run = d.run => c = d

Whole == \A r \in DOMAIN archive :
  Len(archive[r]) > 0 /\ Placed(archive[r]) /\ Checked(archive[r])

SInv ==
  /\ Whole /\ OnlyOpen
  /\ \A h \in Hosts : Knows(host[h], archive[host[h].run]) /\ Holds(host[h], containers)

-----------------------------------------------------------------------------
\* What an event does to what is said of an attempt.
LEMMA Extended ==
  ASSUME NEW events \in Seq(Events), NEW e \in Events
  PROVE  LET longer == Append(events, e) IN
         /\ Len(longer) = Len(events) + 1 /\ longer[Len(longer)] = e
         /\ Clean(longer) <=> Clean(events) /\ e.type \notin Over
         /\ Placed(events) /\ InPlace(e, events) => Placed(longer)
         /\ PassedIn(longer) =>
              PassedIn(events) \/ (e.type = "run.completed" /\ e.verdict = "PASS")
         /\ \A t \in DoneIn(longer) : t \in DoneIn(events) \/ IsStep(e, "step.completed", t)
         /\ DoneIn(events) \subseteq DoneIn(longer)
<1> DEFINE longer == Append(events, e)
<1>1. /\ longer \in Seq(Events) /\ Len(longer) = Len(events) + 1
      /\ DOMAIN longer = 1..(Len(events) + 1)
      /\ DOMAIN events = 1..Len(events) /\ Len(events) \in Nat
      /\ \A n \in 1..Len(events) : longer[n] = events[n]
      /\ longer[Len(events) + 1] = e
  OBVIOUS
<1> HIDE DEF longer
<1>2. Clean(longer) <=> Clean(events) /\ e.type \notin Over BY <1>1 DEF Clean
<1>3. ASSUME Placed(events), InPlace(e, events)
      PROVE  Placed(longer)
  <2>1. ASSUME NEW n \in DOMAIN events
        PROVE  \/ longer[n].sequence = n - 1
               \/ longer[n].type = "torn"
               \/ longer[n].type = "run.cancelled" /\ longer[n].sequence \in {0, n - 2}
               \/ \E m \in 1..(n - 1) : longer[m].type \in Over
    BY <1>1, <1>3 DEF Placed
  <2> DEFINE k == Len(events) + 1
  <2>2. \/ longer[k].sequence = k - 1
        \/ longer[k].type = "torn"
        \/ longer[k].type = "run.cancelled" /\ longer[k].sequence \in {0, k - 2}
        \/ \E m \in 1..(k - 1) : longer[m].type \in Over
    <3>1. CASE ~Clean(events) BY <1>1, <3>1 DEF Clean
    <3>2. CASE Clean(events)
      <4>1. k - 1 = Len(events) /\ k - 2 = Len(events) - 1 BY <1>1
      <4>2. QED BY <1>1, <1>3, <3>2, <4>1 DEF InPlace
    <3>3. QED BY <3>1, <3>2
  <2>3. \A n \in DOMAIN longer : n \in DOMAIN events \/ n = k BY <1>1
  <2> HIDE DEF k
  <2>4. QED BY <2>1, <2>2, <2>3 DEF Placed
<1>4. PassedIn(longer) => PassedIn(events) \/ (e.type = "run.completed" /\ e.verdict = "PASS")
  BY <1>1 DEF PassedIn
<1>5. \A t \in DoneIn(longer) : t \in DoneIn(events) \/ IsStep(e, "step.completed", t)
  BY <1>1 DEF DoneIn
<1>6. DoneIn(events) \subseteq DoneIn(longer) BY <1>1 DEF DoneIn
<1>7. QED BY <1>1, <1>2, <1>3, <1>4, <1>5, <1>6 DEF longer

LEMMA StillChecked ==
  ASSUME NEW events \in Seq(Events), NEW e \in Events, Checked(events),
         \A s \in Steps : IsStep(e, "step.started", s) =>
            Len(events) > 0 /\ IsStep(events[Len(events)], "policy.checked", s)
  PROVE  Checked(Append(events, e))
<1> DEFINE longer == Append(events, e)
<1>1. /\ longer \in Seq(Events) /\ DOMAIN longer = 1..(Len(events) + 1)
      /\ DOMAIN events = 1..Len(events) /\ Len(events) \in Nat
      /\ \A n \in 1..Len(events) : longer[n] = events[n]
      /\ longer[Len(events) + 1] = e
  OBVIOUS
<1> HIDE DEF longer
<1>2. ASSUME NEW n \in DOMAIN longer, NEW s \in Steps, IsStep(longer[n], "step.started", s)
      PROVE  \E m \in 1..(n - 1) : /\ IsStep(longer[m], "policy.checked", s)
                                   /\ \A k \in m..(n - 1) : ~IsStep(longer[k], "step.started", s)
  <2>1. CASE n \in DOMAIN events
    <3>1. PICK m \in 1..(n - 1) : /\ IsStep(events[m], "policy.checked", s)
                                  /\ \A k \in m..(n - 1) : ~IsStep(events[k], "step.started", s)
      BY <1>1, <1>2, <2>1 DEF Checked
    <3>2. \A k \in m..(n - 1) : longer[k] = events[k] BY <1>1, <2>1
    <3>3. QED BY <3>1, <3>2
  <2>2. CASE n = Len(events) + 1
    <3> DEFINE m == Len(events)
    <3>1. m > 0 /\ IsStep(events[m], "policy.checked", s) BY <1>1, <1>2, <2>2
    <3>2. longer[m] = events[m] /\ m \in 1..(n - 1) BY <1>1, <2>2, <3>1
    <3>3. ~IsStep(events[m], "step.started", s) BY <3>1 DEF IsStep
    <3>4. m \in Nat /\ n - 1 = m BY <1>1, <2>2
    <3> HIDE DEF m
    <3>5. \A k \in m..(n - 1) : k = m BY <3>4
    <3>6. QED BY <3>1, <3>2, <3>3, <3>5
  <2>3. QED BY <1>1, <2>1, <2>2
<1>3. QED BY <1>2 DEF Checked, longer

\* An attempt that can be read and has not ended is open and whole.
LEMMA ReadClean ==
  ASSUME NEW events \in Seq(Events), Readable(events), ~Ended(events)
  PROVE  Clean(events)
<1>1. DOMAIN events = 1..Len(events) /\ Len(events) \in Nat OBVIOUS
<1>2. ASSUME NEW n \in DOMAIN events PROVE events[n].type \notin Over
  <2>1. events[n].type # "torn" BY DEF Readable
  <2>2. CASE n < Len(events) BY <2>1, <2>2 DEF Readable, Over
  <2>3. CASE n = Len(events) BY <2>1, <2>3 DEF Readable, Ended, Over
  <2>4. QED BY <1>1, <2>2, <2>3
<1>3. QED BY <1>2 DEF Clean

\* One that is open, and whose events are in their places, can be read.
LEMMA CleanReads ==
  ASSUME NEW events \in Seq(Events), Clean(events), Placed(events), Len(events) > 0
  PROVE  Readable(events)
<1>1. DOMAIN events = 1..Len(events) /\ Len(events) \in Nat /\ events # <<>> OBVIOUS
<1>2. \A n \in DOMAIN events : \A m \in 1..(n - 1) : events[m].type \notin Over
  BY <1>1 DEF Clean
<1>3. \A n \in DOMAIN events : events[n].type # "torn" /\ events[n].type # "run.cancelled"
                                /\ events[n].type \notin Terminal
  BY DEF Clean, Over, Terminal
<1>4. \A n \in DOMAIN events : events[n].sequence = n - 1 BY <1>2, <1>3 DEF Placed
<1>5. QED BY <1>1, <1>3, <1>4 DEF Readable

-----------------------------------------------------------------------------
\* A step that changes no file and only takes containers away.
LEMMA Stands ==
  ASSUME OneProcess, NEW h \in Hosts, NEW x, IInv, SInv, host' = [host EXCEPT ![h] = x],
         archive' = archive, made' = made, containers' \subseteq containers,
         Knows(x, archive[x.run]), Holds(x, containers')
  PROVE  SInv'
<1>1. host'[h] = x BY DEF IInv, Hosted
<1>2. \A g \in Hosts : g = h BY DEF OneProcess
<1>3. Whole' /\ OnlyOpen' BY DEF SInv, Whole, OnlyOpen
<1>4. QED BY <1>1, <1>2, <1>3 DEF SInv

\* A process that has left its work knows nothing that could be wrong.
LEMMA Leaves ==
  ASSUME NEW x, NEW events, NEW boxes,
         x.pc \in {"idle", "close", "unlink", "failed", "stale", "cancelled"}
           \/ (x.pc = "cancel" /\ x.handling),
         x.pc = "close" => x.verdict # "PASS", Counts(x, events)
  PROVE  Knows(x, events) /\ Holds(x, boxes)
BY DEF Knows, Counts, Holds, Working, AtWork, WithStep, Between, WithBox

LEMMA Forgets == \A events, boxes : Knows(Idle, events) /\ Holds(Idle, boxes)
<1>1. Idle.pc = "idle" BY DEF Idle
<1>2. \A events : Counts(Idle, events) BY <1>1 DEF Counts
<1>3. QED BY <1>1, <1>2, Leaves

\* An event of the process, whatever it becomes after it.
LEMMA Grows ==
  ASSUME NEW h \in Hosts, IInv, SInv, host[h].run \in DOMAIN archive,
         NEW e \in Events, archive' = Grown(archive, host[h].run, e),
         containers' = containers, made' = made, InPlace(e, archive[host[h].run]),
         \A s \in Steps : IsStep(e, "step.started", s) =>
            /\ Len(archive[host[h].run]) > 0
            /\ IsStep(archive[host[h].run][Len(archive[host[h].run])], "policy.checked", s),
         e.type = "step.completed" \/ (e.type = "run.completed" /\ e.verdict = "PASS") =>
            \A c \in containers : c.run # host[h].run
  PROVE  Whole' /\ OnlyOpen'
<1> DEFINE r == host[h].run
           events == archive[r]
           longer == Append(events, e)
<1>1. archive \in Seq(Seq(Events)) /\ events \in Seq(Events) BY DEF IInv, Typed
<1>2. DOMAIN archive' = DOMAIN archive /\ archive'[r] = longer
      /\ \A q \in DOMAIN archive : q # r => archive'[q] = archive[q]
  BY <1>1 DEF Grown
<1>3. Len(events) > 0 /\ Placed(events) /\ Checked(events) /\ Len(events) \in Nat
  BY <1>1 DEF SInv, Whole
<1>4. Checked(longer) BY <1>1, <1>3, StillChecked
<1>5. Len(longer) > 0 /\ Placed(longer) BY <1>1, <1>3, Extended
<1>6. Whole' BY <1>2, <1>4, <1>5 DEF SInv, Whole
<1>7. ASSUME NEW c \in containers
      PROVE  ~PassedIn(archive'[c.run])
             /\ (c.state = "running" => c.step \notin DoneIn(archive'[c.run]))
  <2>1. c.run \in DOMAIN archive /\ ~PassedIn(archive[c.run])
        /\ (c.state = "running" => c.step \notin DoneIn(archive[c.run]))
    BY DEF SInv, OnlyOpen
  <2>2. CASE c.run # r BY <1>2, <2>1, <2>2
  <2>3. CASE c.run = r
    <3>1. e.type # "step.completed" /\ ~(e.type = "run.completed" /\ e.verdict = "PASS")
      BY <2>3
    <3>2. ~PassedIn(longer) BY <1>1, <2>1, <2>3, <3>1, Extended
    <3>3. DoneIn(longer) \subseteq DoneIn(events) BY <1>1, <3>1, Extended DEF IsStep
    <3>4. QED BY <1>2, <2>1, <2>3, <3>2, <3>3
  <2>4. QED BY <2>2, <2>3
<1>8. OnlyOpen' BY <1>2, <1>7 DEF SInv, OnlyOpen
<1>9. QED BY <1>6, <1>8
\* An event of a process at work, which works on or gives its verdict.
LEMMA WorkingWrites ==
  ASSUME OneProcess, NEW h \in Hosts, NEW event, NEW x \in Processes, IInv, SInv,
         host[h].pc \notin {"idle", "create"}, Working(host[h]), Write(h, event, x),
         event.type \in EventTypes \ Over, event.steps \in SUBSET (Steps \cup {None}),
         event.box \in Nat, event.verdict \in Verdicts,
         \A s \in Steps : IsStep(event, "step.started", s) =>
            /\ Len(archive[host[h].run]) > 0
            /\ IsStep(archive[host[h].run][Len(archive[host[h].run])], "policy.checked", s),
         event.type = "step.completed" => Between(host[h]),
         x.run = host[h].run, ~x.handling, x.pc \notin {"cancel", "error", "create", "resume"},
         x.done = host[h].done \cup {s \in Steps : IsStep(event, "step.completed", s)},
         x.pc \in WithStep => x.step \notin x.done,
         x.pc \in {"create_box", "step_started"} => IsStep(event, "policy.checked", x.step),
         Holds(x, containers), containers' = containers, made' = made
  PROVE  SInv'
<1> DEFINE r == host[h].run
           events == archive[r]
           e == [type |-> event.type, steps |-> event.steps, box |-> event.box,
                 verdict |-> event.verdict, sequence |-> host[h].sequence]
           longer == Append(events, e)
           y == [x EXCEPT !.sequence = host[h].sequence + 1]
<1>1. host[h] \in Processes /\ r \in DOMAIN archive BY Born DEF Informed
<1>2. e \in Events /\ host[h].sequence + 1 \in Nat BY <1>1 DEF Processes, Events
<1>3. archive' = Grown(archive, r, e) /\ host' = [host EXCEPT ![h] = y]
  BY DEF Write, Append1, Grown
<1>4. archive \in Seq(Seq(Events)) /\ events \in Seq(Events) BY <1>1 DEF IInv, Typed
<1>5. /\ Clean(events) /\ host[h].sequence = Len(events) /\ host[h].done = DoneIn(events)
      /\ Holds(host[h], containers)
  BY DEF SInv, Knows
<1>6. /\ e.type = event.type /\ e.sequence = Len(events)
      /\ \A type, s : IsStep(e, type, s) <=> IsStep(event, type, s)
  BY <1>5 DEF IsStep
<1>7. Whole' /\ OnlyOpen'
  <2>1. e.type = "step.completed" => \A c \in containers : c.run # host[h].run
    BY <1>5, <1>6 DEF Holds
  <2>2. e.type # "run.completed" BY <1>6 DEF Over, Terminal
  <2>3. InPlace(e, events) BY <1>6 DEF InPlace
  <2>4. QED BY <1>1, <1>2, <1>3, <1>6, <2>1, <2>2, <2>3, Grows
<1>8. archive'[r] = longer BY <1>1, <1>3, <1>4 DEF Grown
<1>9. /\ y.pc = x.pc /\ y.run = r /\ y.done = x.done /\ y.step = x.step /\ y.box = x.box
      /\ y.verdict = x.verdict /\ y.handling = x.handling /\ y.sequence = Len(events) + 1
  BY <1>2, <1>5 DEF Processes
<1> HIDE DEF y
<1>10. Holds(y, containers) BY <1>9 DEF Holds, Between
<1>11. /\ Clean(longer) /\ Len(longer) = Len(events) + 1 /\ Len(events) \in Nat
       /\ longer[Len(longer)] = e
  BY <1>2, <1>4, <1>5, <1>6, Extended
<1>12. y.done = DoneIn(longer)
  <2>1. DoneIn(longer) \subseteq Steps BY DEF DoneIn
  <2>2. \A t \in DoneIn(longer) : t \in DoneIn(events) \/ IsStep(event, "step.completed", t)
    BY <1>2, <1>4, <1>6, Extended
  <2>3. DoneIn(events) \subseteq DoneIn(longer) BY <1>2, <1>4, Extended
  <2>4. \A s \in Steps : IsStep(event, "step.completed", s) => s \in DoneIn(longer)
    BY <1>2, <1>4, <1>6, Longer
  <2>5. QED BY <1>5, <1>9, <2>1, <2>2, <2>3, <2>4
<1>13. Knows(y, longer)
  BY <1>6, <1>9, <1>11, <1>12 DEF Knows, Counts
<1>14. host'[h] = y BY <1>3 DEF IInv, Hosted
<1>15. \A g \in Hosts : g = h BY DEF OneProcess
<1>16. QED BY <1>7, <1>8, <1>9, <1>10, <1>13, <1>14, <1>15 DEF SInv

\* The last events of an attempt, of a process that leaves its work.
LEMMA LastWrites ==
  ASSUME OneProcess, NEW h \in Hosts, NEW event, NEW x \in Processes, IInv, SInv,
         host[h].pc \notin {"idle", "create"}, Write(h, event, x),
         event.type \in EventTypes \ {"step.started", "step.completed"},
         event.steps \in SUBSET (Steps \cup {None}),
         event.box \in Nat, event.verdict \in Verdicts,
         \/ host[h].pc \in {"error", "interrupted", "close", "failed", "stale"}
         \/ host[h].pc = "cancelled" /\ event.type = "run.cancelled",
         event.type \in Over \/ host[h].pc \in {"error", "interrupted"},
         event.type = "run.completed" /\ event.verdict = "PASS" => Between(host[h]),
         x.pc \in {"close", "unlink", "cancelled"}, x.pc = "close" => x.verdict # "PASS",
         x.pc # "unlink" => host[h].pc \in {"error", "interrupted"},
         x.run = host[h].run, containers' = containers, made' = made
  PROVE  SInv'
<1> DEFINE r == host[h].run
           events == archive[r]
           e == [type |-> event.type, steps |-> event.steps, box |-> event.box,
                 verdict |-> event.verdict, sequence |-> host[h].sequence]
           y == [x EXCEPT !.sequence = host[h].sequence + 1]
<1>1. host[h] \in Processes /\ r \in DOMAIN archive BY Born DEF Informed
<1>2. e \in Events /\ host[h].sequence + 1 \in Nat BY <1>1 DEF Processes, Events
<1>3. archive' = Grown(archive, r, e) /\ host' = [host EXCEPT ![h] = y]
  BY DEF Write, Append1, Grown
<1>4. Knows(host[h], events) /\ Holds(host[h], containers) BY DEF SInv
<1>5. e.type = event.type /\ e.verdict = event.verdict /\ e.sequence = host[h].sequence
  OBVIOUS
<1>6. InPlace(e, events) BY <1>4, <1>5 DEF Knows, Counts, InPlace
<1>7. \A s \in Steps : ~IsStep(e, "step.started", s) BY <1>5 DEF IsStep
<1>8. e.type = "step.completed" \/ (e.type = "run.completed" /\ e.verdict = "PASS") =>
        \A c \in containers : c.run # host[h].run
  BY <1>4, <1>5 DEF Holds
<1>9. Whole' /\ OnlyOpen'
  <2> HIDE DEF e
  <2>1. QED BY <1>1, <1>2, <1>3, <1>6, <1>7, <1>8, Grows
<1>10. /\ y.pc = x.pc /\ y.verdict = x.verdict /\ y.run = r
       /\ y.sequence = host[h].sequence + 1
  BY <1>2 DEF Processes
<1>11. host'[h] = y BY <1>3 DEF IInv, Hosted
<1> HIDE DEF y
<1>12. Knows(y, archive'[y.run]) /\ Holds(y, containers)
  <2>1. archive \in Seq(Seq(Events)) /\ events \in Seq(Events) BY <1>1 DEF IInv, Typed
  <2>2. archive'[y.run] = Append(events, e) BY <1>1, <1>3, <1>10, <2>1 DEF Grown
  <2>3. /\ Clean(Append(events, e)) => Clean(events)
        /\ Len(Append(events, e)) = Len(events) + 1 /\ Len(events) \in Nat
    BY <1>2, <2>1, Extended
  <2>4. Counts(y, archive'[y.run]) BY <1>4, <1>10, <2>2, <2>3 DEF Knows, Counts
  <2>5. QED BY <1>10, <2>4, Leaves
<1>13. \A g \in Hosts : g = h BY DEF OneProcess
<1>14. QED BY <1>9, <1>11, <1>12, <1>13 DEF SInv

-----------------------------------------------------------------------------
\* Containers that get another state.
LEMMA Becomes ==
  ASSUME IInv, SInv, NEW boxes \in SUBSET containers, NEW state,
         containers' = (containers \ boxes) \cup {[c EXCEPT !.state = state] : c \in boxes},
         state = "running" => \A c \in boxes : c.step \notin DoneIn(archive[c.run]),
         archive' = archive, made' = made
  PROVE  OnlyOpen' /\ \A x : Holds(x, containers) => Holds(x, containers')
<1>1. ASSUME NEW c \in containers'
      PROVE  \E d \in containers :
               /\ c.id = d.id /\ c.run = d.run /\ c.step = d.step
               /\ c = IF d \in boxes THEN [d EXCEPT !.state = state] ELSE d
               /\ c.state = "running" => c.step \notin DoneIn(archive[c.run])
  <2>1. CASE c \in containers \ boxes BY <2>1 DEF SInv, OnlyOpen
  <2>2. CASE c \notin containers \ boxes
    <3>1. PICK d \in boxes : c = [d EXCEPT !.state = state] BY <2>2
    <3>2. d \in Boxes BY DEF IInv, Typed
    <3>3. c.id = d.id /\ c.run = d.run /\ c.step = d.step /\ c.state = state
      BY <3>1, <3>2 DEF Boxes
    <3>4. QED BY <3>1, <3>3
  <2>3. QED BY <2>1, <2>2
<1>2. ASSUME NEW c \in containers'
      PROVE  /\ c.run \in DOMAIN archive /\ c.id \in 1..made /\ ~PassedIn(archive[c.run])
             /\ c.state = "running" => c.step \notin DoneIn(archive[c.run])
  BY <1>1 DEF SInv, OnlyOpen
<1>3. ASSUME NEW c \in containers', NEW d \in containers', c.id = d.id \/ c.run = d.run
      PROVE  c = d
  <2>1. PICK c0 \in containers :
          /\ c.id = c0.id /\ c.run = c0.run
          /\ c = IF c0 \in boxes THEN [c0 EXCEPT !.state = state] ELSE c0
    BY <1>1
  <2>2. PICK d0 \in containers :
          /\ d.id = d0.id /\ d.run = d0.run
          /\ d = IF d0 \in boxes THEN [d0 EXCEPT !.state = state] ELSE d0
    BY <1>1
  <2>3. c0 = d0 BY <1>3, <2>1, <2>2 DEF SInv, OnlyOpen
  <2>4. QED BY <2>1, <2>2, <2>3
<1>4. OnlyOpen' BY <1>2, <1>3 DEF OnlyOpen
<1>5. ASSUME NEW x, Holds(x, containers) PROVE Holds(x, containers')
  BY <1>1, <1>5 DEF Holds
<1>6. QED BY <1>4, <1>5

\* A container that is created, of an attempt that is open and has none.
LEMMA Creates ==
  ASSUME IInv, SInv, NEW r \in DOMAIN archive, NEW s,
         Clean(archive[r]), \A c \in containers : c.run # r,
         made' = made + 1, archive' = archive,
         containers' = containers \cup
           {[id |-> made', run |-> r, step |-> s, state |-> "created"]}
  PROVE  /\ OnlyOpen'
         /\ \A c \in containers' : /\ c.run = r <=> c.id = made'
                                   /\ c.id = made' => c.step = s
<1> DEFINE box == [id |-> made', run |-> r, step |-> s, state |-> "created"]
<1>1. made \in Nat /\ made' \in 1..made' /\ 1..made \subseteq 1..made' /\ made' \notin 1..made
  BY DEF IInv, Typed
<1>2. ~PassedIn(archive[r]) BY DEF PassedIn, Clean, Over, Terminal
<1>3. box.id = made' /\ box.run = r /\ box.step = s /\ box.state = "created" OBVIOUS
<1>4. \A c \in containers : c.id \in 1..made BY DEF SInv, OnlyOpen
<1> HIDE DEF box
<1>5. containers' = containers \cup {box} BY DEF box
<1>6. \A c \in containers' :
        /\ c.run \in DOMAIN archive' /\ c.id \in 1..made'
        /\ ~PassedIn(archive'[c.run])
        /\ c.state = "running" => c.step \notin DoneIn(archive'[c.run])
  BY <1>1, <1>2, <1>3, <1>5 DEF SInv, OnlyOpen
<1>7. \A c, d \in containers' : c.id = d.id \/ c.run = d.run => c = d
  BY <1>1, <1>3, <1>4, <1>5 DEF SInv, OnlyOpen
<1>8. OnlyOpen' BY <1>6, <1>7 DEF OnlyOpen
<1>9. QED BY <1>1, <1>3, <1>4, <1>5, <1>8
\* Of what a process at work, or elsewhere, is known.
LEMMA Seen ==
  ASSUME NEW h \in Hosts, IInv, SInv, host[h].pc \notin {"idle", "create"}
  PROVE  /\ host[h] \in Processes /\ host[h].run \in DOMAIN archive
         /\ archive[host[h].run] \in Seq(Events)
         /\ Knows(host[h], archive[host[h].run]) /\ Holds(host[h], containers)
BY Born DEF Informed, IInv, Typed, SInv

\* A process that leaves its work, or works on elsewhere.
LEMMA Turns ==
  ASSUME OneProcess, NEW h \in Hosts, NEW pc, IInv, SInv, host[h].pc \notin {"idle", "create"},
         \/ /\ Handle(h, pc) /\ pc \in {"failed", "stale", "cancelled", "cancel"}
            /\ Working(host[h]) \/ pc = "cancel" \/ (pc = "cancelled" /\ host[h].pc = "resume")
         \/ /\ Working(host[h]) /\ pc = "error"
            /\ \E v \in Verdicts \ {"PASS"} : HandleWith(h, pc, v)
         \/ /\ Working(host[h]) /\ Go(h, pc) /\ Holds(Moved(h, pc), containers')
            /\ pc \in AtWork \ {"create_box", "step_started"}
            /\ pc \in WithStep => host[h].pc \in WithStep,
         UNCHANGED archive, made' = made, containers' \subseteq containers
  PROVE  SInv'
<1>1. host[h] \in Processes /\ Knows(host[h], archive[host[h].run]) BY Seen
<1>2. CASE /\ Handle(h, pc) /\ pc \in {"failed", "stale", "cancelled", "cancel"}
           /\ Working(host[h]) \/ pc = "cancel" \/ (pc = "cancelled" /\ host[h].pc = "resume")
  <2> DEFINE x == [host[h] EXCEPT !.pc = pc, !.handling = TRUE]
  <2>1. host' = [host EXCEPT ![h] = x] BY <1>1, <1>2 DEF Handle, IInv, Hosted
  <2>2. /\ x.pc = pc /\ x.handling /\ x.run = host[h].run
        /\ x.sequence = host[h].sequence
    BY <1>1 DEF Processes
  <2> HIDE DEF x
  <2>3. Counts(x, archive[x.run]) BY <1>1, <1>2, <2>2 DEF Knows, Counts
  <2>4. Knows(x, archive[x.run]) /\ Holds(x, containers') BY <1>2, <2>2, <2>3, Leaves
  <2>5. QED BY <2>1, <2>4, Stands
<1>3. ASSUME NEW v \in Verdicts \ {"PASS"}, HandleWith(h, pc, v), pc = "error", Working(host[h])
      PROVE  SInv'
  <2> DEFINE x == [host[h] EXCEPT !.pc = pc, !.verdict = v, !.handling = TRUE]
  <2>1. host' = [host EXCEPT ![h] = x] BY <1>1, <1>3 DEF HandleWith, IInv, Hosted
  <2>2. x.pc = pc /\ x.verdict = v /\ x.run = host[h].run /\ x.sequence = host[h].sequence
    BY <1>1 DEF Processes
  <2> HIDE DEF x
  <2>3. Knows(x, archive[x.run]) /\ Holds(x, containers')
    BY <1>1, <1>3, <2>2 DEF Knows, Counts, Holds, Working, AtWork, WithStep, Between, WithBox
  <2>4. QED BY <2>1, <2>3, Stands
<1>4. CASE /\ Working(host[h]) /\ Go(h, pc) /\ Holds(Moved(h, pc), containers')
           /\ pc \in AtWork \ {"create_box", "step_started"}
           /\ pc \in WithStep => host[h].pc \in WithStep
  <2>1. host' = [host EXCEPT ![h] = Moved(h, pc)]
    BY <1>1, <1>4 DEF Go, Moved, IInv, Hosted
  <2> DEFINE x == Moved(h, pc)
  <2>2. /\ x.pc = pc /\ x.run = host[h].run /\ x.done = host[h].done /\ x.step = host[h].step
        /\ x.sequence = host[h].sequence /\ x.handling = host[h].handling
    BY <1>1 DEF Moved, Processes
  <2> HIDE DEF x
  <2>3. pc \notin {"cancel", "create", "resume", "error", "interrupted"}
    BY <1>4 DEF AtWork, WithStep
  <2>4. Knows(x, archive[x.run]) BY <1>1, <1>4, <2>2, <2>3 DEF Knows, Counts, Working, AtWork, WithStep
  <2>5. QED BY <1>4, <2>1, <2>4, Stands DEF x
<1>5. QED BY <1>2, <1>3, <1>4

\* Opening the attempt: what is read of it is what the process counts on.
LEMMA OpeningOnly ==
  ASSUME OneProcess, NEW h \in Hosts, IInv, SInv,
         Begin(h) \/ Resume(h) \/ Restart(h) \/ CreateStarted(h) \/ Point(h) \/ FindDocker(h)
  PROVE  SInv'
<1>1. CASE Begin(h)
  <2> DEFINE x == IF pointer = None THEN [Idle EXCEPT !.pc = "create"]
                  ELSE [Idle EXCEPT !.pc = "resume", !.run = pointer]
  <2>1. host' = [host EXCEPT ![h] = x] /\ UNCHANGED <<archive, made, containers>>
    BY <1>1 DEF Begin, files, docker
  <2>2. x.pc \in {"create", "resume"} /\ ~x.handling /\ x.sequence = 0 BY DEF Idle
  <2> HIDE DEF x
  <2>3. Knows(x, archive[x.run]) /\ Holds(x, containers)
    BY <2>2 DEF Knows, Counts, Holds, Working, AtWork, WithStep, Between, WithBox
  <2>4. QED BY <2>1, <2>3, Stands
<1>2. CASE Resume(h)
  <2> DEFINE events == archive[host[h].run]
  <2>1. host[h].pc = "resume" BY <1>2 DEF Resume, At
  <2>2. /\ host[h] \in Processes /\ host[h].run \in DOMAIN archive /\ events \in Seq(Events)
        /\ Knows(host[h], events)
    BY <2>1, Seen
  <2>3. UNCHANGED <<archive, made, containers>> BY <1>2 DEF Resume, files, docker
  <2>4. Len(events) \in Nat /\ Len(events) > 0 /\ Placed(events)
    BY <2>2 DEF SInv, Whole
  <2>5. CASE ~Readable(events)
    <3> DEFINE x == [host[h] EXCEPT !.pc = "error", !.verdict = "INVALID", !.handling = TRUE]
    <3>1. ~Clean(events) BY <2>2, <2>4, <2>5, CleanReads
    <3>2. host' = [host EXCEPT ![h] = x]
      BY <1>2, <2>2, <2>5 DEF Resume, HandleWith, IInv, Hosted
    <3>3. x.pc = "error" /\ x.verdict = "INVALID" /\ x.run = host[h].run
      BY <2>2 DEF Processes
    <3> HIDE DEF x
    <3>4. Knows(x, archive[x.run]) /\ Holds(x, containers)
      BY <3>1, <3>3 DEF Knows, Counts, Holds, Working, AtWork, WithStep, Between, WithBox
    <3>5. QED BY <2>3, <3>2, <3>4, Stands
  <2>6. CASE Readable(events) /\ Ended(events)
    <3> DEFINE x == [host[h] EXCEPT !.pc = "error", !.verdict = "INVALID",
                       !.handling = TRUE, !.sequence = Len(events)]
    <3>1. host' = [host EXCEPT ![h] = x]
      BY <1>2, <2>2, <2>6 DEF Resume, IInv, Hosted
    <3>2. x.pc = "error" /\ x.verdict = "INVALID" /\ x.run = host[h].run
          /\ x.sequence = Len(events)
      BY <2>2 DEF Processes
    <3> HIDE DEF x
    <3>3. Knows(x, archive[x.run]) /\ Holds(x, containers)
      BY <3>2 DEF Knows, Counts, Holds, Working, AtWork, WithStep, Between, WithBox
    <3>4. QED BY <2>3, <3>1, <3>3, Stands
  <2>7. CASE Readable(events) /\ ~Ended(events)
    <3> DEFINE x == [host[h] EXCEPT !.pc = "restart", !.sequence = Len(events),
                       !.open = OpenIn(events), !.done = DoneIn(events)]
    <3>1. host' = [host EXCEPT ![h] = x]
      BY <1>2, <2>2, <2>7 DEF Resume, IInv, Hosted
    <3>2. /\ x.pc = "restart" /\ x.run = host[h].run /\ x.sequence = Len(events)
          /\ x.done = DoneIn(events) /\ x.handling = host[h].handling
      BY <2>2 DEF Processes
    <3>3. Clean(events) /\ ~host[h].handling BY <2>1, <2>2, <2>7, ReadClean DEF Knows
    <3> HIDE DEF x
    <3>4. Knows(x, archive[x.run]) /\ Holds(x, containers)
      BY <3>2, <3>3 DEF Knows, Counts, Holds, Working, WithStep, Between, WithBox
    <3>5. QED BY <2>3, <3>1, <3>4, Stands
  <2>8. QED BY <2>5, <2>6, <2>7
<1>3. CASE Restart(h) \/ CreateStarted(h)
  <2>1. PICK pc \in {"docker", "point"} : Write(h, Plain("run.started"), Moved(h, pc))
    BY <1>3 DEF Restart, CreateStarted
  <2>2. /\ host[h].pc \notin {"idle", "create"} /\ Working(host[h])
        /\ containers' = containers /\ made' = made
    BY <1>3 DEF Restart, CreateStarted, At, Working, AtWork, docker
  <2> DEFINE x == Moved(h, pc)
             event == Plain("run.started")
  <2>3. /\ x \in Processes /\ x.pc = pc /\ x.run = host[h].run /\ x.done = host[h].done
        /\ x.handling = host[h].handling
    BY <2>2, Seen DEF Moved, Processes, Places
  <2>4. event.type = "run.started" /\ event.steps = {} /\ event.box = 0 /\ event.verdict = "none"
    BY DEF Plain, Event
  <2>5. \A type, s : IsStep(event, type, s) => FALSE BY <2>4 DEF IsStep
  <2>6. ~host[h].handling BY <2>2, Seen DEF Knows
  <2>7. Write(h, event, x) BY <2>1
  <2> HIDE DEF x, event
  <2>8. Holds(x, containers) BY <2>3 DEF Holds, Between, WithBox
  <2>9. event.type \in EventTypes \ Over /\ event.steps \in SUBSET (Steps \cup {None})
        /\ event.box \in Nat /\ event.verdict \in Verdicts
    BY <2>4 DEF EventTypes, Over, Terminal, Verdicts
  <2>10. x.done = host[h].done \cup {s \in Steps : IsStep(event, "step.completed", s)}
    BY <2>3, <2>5
  <2>11. QED BY <2>2, <2>3, <2>4, <2>5, <2>6, <2>7, <2>8, <2>9, <2>10, WorkingWrites DEF WithStep
<1>4. CASE Point(h) \/ FindDocker(h)
  <2>1. /\ host[h].pc \in {"point", "docker"}
        /\ UNCHANGED archive /\ made' = made /\ containers' = containers
    BY <1>4 DEF Point, FindDocker, At, files, docker
  <2>2. PICK pc \in {"docker", "reobserve", "failed"} :
          IF pc = "failed" THEN Handle(h, pc) ELSE Go(h, pc)
    BY <1>4 DEF Point, FindDocker
  <2>3. CASE pc = "failed"
    <3>1. Working(host[h]) BY <2>1 DEF Working, AtWork
    <3>2. QED BY <2>1, <2>2, <2>3, <3>1, Turns
  <2>4. CASE pc \in {"docker", "reobserve"}
    <3>1. Moved(h, pc).pc = pc BY <2>1, Seen DEF Moved, Processes
    <3>2. Holds(Moved(h, pc), containers') BY <2>4, <3>1 DEF Holds, Between, WithBox
    <3>3. Working(host[h]) /\ pc \in AtWork /\ pc \notin WithStep
      BY <2>1, <2>4 DEF Working, AtWork, WithStep
    <3>4. QED BY <2>1, <2>2, <2>4, <3>2, <3>3, Turns
  <2>5. QED BY <2>3, <2>4
<1>5. QED BY <1>1, <1>2, <1>3, <1>4

\* A new attempt is whole and has no container.
LEMMA NewOnly ==
  ASSUME OneProcess, NEW h \in Hosts, NEW x, IInv, SInv,
         archive' = Append(archive, <<Queued>>), UNCHANGED <<containers, made>>,
         host' = [host EXCEPT ![h] = x], x.run = Len(archive) + 1,
         \/ x.pc = "create_started" /\ x.sequence = 1 /\ x.done = {} /\ ~x.handling
         \/ x.pc = "cancelled" /\ x.sequence = 0
  PROVE  SInv'
<1> DEFINE e == Queued
<1>1. e \in Events BY DEF Queued, Events, EventTypes, Verdicts
<1>2. <<e>> \in Seq(Events) /\ Len(<<e>>) = 1 /\ DOMAIN <<e>> = {1} /\ <<e>>[1] = e BY <1>1
<1>3. archive \in Seq(Seq(Events)) /\ Len(archive) \in Nat /\ DOMAIN archive = 1..Len(archive)
  BY DEF IInv, Typed
<1>4. /\ DOMAIN archive' = 1..(Len(archive) + 1)
      /\ \A q \in DOMAIN archive : archive'[q] = archive[q]
      /\ archive'[Len(archive) + 1] = <<e>>
  BY <1>2, <1>3, OneMore
<1>5. e.type = "run.queued" /\ e.sequence = 0 BY DEF Queued
<1> HIDE DEF e
<1>6. Clean(<<e>>) BY <1>2, <1>5 DEF Clean, Over, Terminal
<1>7. Placed(<<e>>) BY <1>2, <1>5 DEF Placed
<1>8. Checked(<<e>>) BY <1>2, <1>5 DEF Checked, IsStep
<1>9. DoneIn(<<e>>) = {} BY <1>2, <1>5 DEF IsStep, DoneIn
<1>10. \A q \in DOMAIN archive' : q \in DOMAIN archive \/ archive'[q] = <<e>> BY <1>3, <1>4
<1>11. Whole' BY <1>2, <1>4, <1>7, <1>8, <1>10 DEF Whole, SInv
<1>12. OnlyOpen'
  <2>1. DOMAIN archive \subseteq DOMAIN archive' BY <1>3, <1>4
  <2>2. QED BY <1>4, <2>1 DEF SInv, OnlyOpen
<1>13. Knows(x, <<e>>)
  BY <1>2, <1>6, <1>9 DEF Knows, Counts, Working, AtWork, WithStep
<1>14. Holds(x, containers) BY DEF Holds, Between, WithBox
<1>15. host'[h] = x /\ \A g \in Hosts : g = h BY DEF OneProcess, IInv, Hosted
<1>16. QED BY <1>4, <1>11, <1>12, <1>13, <1>14, <1>15 DEF SInv

LEMMA CreatedOnly ==
  ASSUME OneProcess, NEW h \in Hosts, IInv, SInv, Create(h)
  PROVE  SInv'
<1> DEFINE x == [host[h] EXCEPT !.pc = "create_started", !.run = Len(archive) + 1,
                                !.sequence = 1]
<1>1. host[h] \in Processes /\ Unborn(host[h]) /\ ~host[h].handling
  BY DEF Create, At, IInv, Hosted, Good, Informed, SInv, Knows
<1>2. host' = [host EXCEPT ![h] = x] BY <1>1 DEF Create, IInv, Hosted
<1>3. /\ x.pc = "create_started" /\ x.run = Len(archive) + 1 /\ x.sequence = 1
      /\ x.done = {} /\ ~x.handling
  BY <1>1 DEF Unborn, Processes
<1>4. archive' = Append(archive, <<Queued>>) /\ UNCHANGED <<containers, made>>
  BY DEF Create, docker
<1> HIDE DEF x
<1>5. QED BY <1>2, <1>3, <1>4, NewOnly

\* An attempt whose last event is not counted is whole as well.
LEMMA UncountedOnly ==
  ASSUME OneProcess, NEW h \in Hosts, IInv, SInv, InterruptUncounted(h)
  PROVE  SInv'
<1>1. containers' = containers /\ made' = made BY DEF InterruptUncounted, docker
<1>2. CASE /\ host[h].pc \in {"restart", "create_started"}
           /\ Append1(h, Plain("run.started"))
           /\ Handle(h, "cancelled")
  <2> DEFINE events == archive[host[h].run]
             event == Plain("run.started")
             e == [type |-> event.type, steps |-> event.steps, box |-> event.box,
                   verdict |-> event.verdict, sequence |-> host[h].sequence]
             x == [host[h] EXCEPT !.pc = "cancelled", !.handling = TRUE]
  <2>1. /\ host[h] \in Processes /\ host[h].run \in DOMAIN archive
        /\ events \in Seq(Events) /\ Knows(host[h], events)
    BY <1>2, Seen
  <2>2. Clean(events) /\ host[h].sequence = Len(events) /\ Len(events) \in Nat
    BY <1>2, <2>1 DEF Knows, Working, AtWork
  <2>3. event.type = "run.started" /\ event.steps = {} /\ event.box = 0 /\ event.verdict = "none"
    BY DEF Plain, Event
  <2>4. /\ e \in Events /\ e.type = "run.started" /\ e.sequence = Len(events)
    BY <2>1, <2>2, <2>3 DEF Events, EventTypes, Verdicts, Processes
  <2>5. archive' = Grown(archive, host[h].run, e) BY <1>2 DEF Append1, Grown
  <2>6. host' = [host EXCEPT ![h] = x] BY <1>2, <2>1 DEF Handle, IInv, Hosted
  <2>7. x.pc = "cancelled" /\ x.run = host[h].run /\ x.sequence = Len(events)
    BY <2>1, <2>2 DEF Processes
  <2> HIDE DEF e, x
  <2>8. InPlace(e, events) /\ \A s \in Steps : ~IsStep(e, "step.started", s)
    BY <2>4 DEF InPlace, IsStep
  <2>9. Whole' /\ OnlyOpen' BY <1>1, <2>1, <2>4, <2>5, <2>8, Grows
  <2>10. archive'[x.run] = Append(events, e)
    BY <2>1, <2>5, <2>7 DEF Grown, IInv, Typed
  <2>11. Len(Append(events, e)) = Len(events) + 1 BY <2>1, <2>4, Extended
  <2>12. Counts(x, archive'[x.run]) BY <2>2, <2>7, <2>10, <2>11 DEF Counts
  <2>13. Knows(x, archive'[x.run]) /\ Holds(x, containers) BY <2>7, <2>12, Leaves
  <2>14. host'[h] = x /\ \A g \in Hosts : g = h BY <2>6 DEF OneProcess, IInv, Hosted
  <2>15. QED BY <1>1, <2>9, <2>13, <2>14 DEF SInv
<1>3. CASE /\ At(h, "create")
           /\ archive' = Append(archive, << Queued >>)
           /\ host' = [host EXCEPT ![h].pc = "cancelled", ![h].run = Len(archive) + 1,
                                   ![h].handling = TRUE]
  <2> DEFINE x == [host[h] EXCEPT !.pc = "cancelled", !.run = Len(archive) + 1,
                                  !.handling = TRUE]
  <2>1. host[h] \in Processes /\ host[h].sequence = 0
    BY <1>3 DEF At, IInv, Hosted, Good, SInv, Knows
  <2>2. host' = [host EXCEPT ![h] = x] BY <1>3, <2>1 DEF IInv, Hosted
  <2>3. x.pc = "cancelled" /\ x.run = Len(archive) + 1 /\ x.sequence = 0
    BY <2>1 DEF Processes
  <2> HIDE DEF x
  <2>4. QED BY <1>1, <1>3, <2>2, <2>3, NewOnly
<1>4. QED BY <1>2, <1>3 DEF InterruptUncounted
-----------------------------------------------------------------------------
\* A container that is found is the only one of the attempt: it is removed, or
\* the run is closed without PASS.
LEMMA RecoverOnly ==
  ASSUME OneProcess, NEW h \in Hosts, NEW open \in Events \cup {None}, NEW y \in Processes,
         NEW after, IInv, SInv, Recover(h, open, y, after), UNCHANGED <<files, made>>,
         y.run = host[h].run,
         after \in {"dispatch", "cancelled"},
         Knows([y EXCEPT !.pc = after], archive[y.run]),
         Knows([y EXCEPT !.pc = "interrupted", !.open = open], archive[y.run])
  PROVE  SInv'
<1> DEFINE found == Candidates(host[h].run)
           exact == IF open = None THEN {} ELSE {c \in found : {c.step} = open.steps}
           owned == {c \in exact : c.id = open.box}
           goto == [y EXCEPT !.pc = after]
           judge(v) == [y EXCEPT !.pc = "close", !.verdict = v]
           take == [y EXCEPT !.pc = "interrupted", !.open = open]
           x == IF found = {} THEN goto
                ELSE IF Cardinality(exact) > 1 THEN judge("FAIL")
                ELSE IF exact = {} \/ owned = {} THEN judge("INCONCLUSIVE") ELSE take
<1>1. host' = [host EXCEPT ![h] = x] BY DEF Recover, Processes
<1>2. containers' = IF Cardinality(exact) = 1 THEN containers \ owned ELSE containers
  BY DEF Recover
<1>3. containers' \subseteq containers /\ UNCHANGED <<archive, made>> BY <1>2 DEF files
<1>4. CASE found = {}
  <2>1. x = goto BY <1>4
  <2>2. goto.run = y.run BY DEF Processes
  <2>3. \A c \in containers' : c.run # goto.run BY <1>3, <1>4, <2>2 DEF Candidates
  <2>4. goto.pc = after BY DEF Processes
  <2> HIDE DEF goto, x
  <2>5. Holds(goto, containers') BY <2>3, <2>4 DEF Holds, WithBox
  <2>6. Knows(goto, archive[goto.run]) BY <2>2 DEF goto
  <2>7. QED BY <1>1, <1>3, <2>1, <2>5, <2>6, Stands
<1>5. ASSUME NEW v \in {"FAIL", "INCONCLUSIVE"}, x = judge(v) PROVE SInv'
  <2>1. x.pc = "close" /\ x.verdict = v /\ x.run = y.run /\ x.sequence = y.sequence
    BY <1>5 DEF Processes
  <2>2. take.pc = "interrupted" /\ take.sequence = y.sequence BY DEF Processes
  <2>3. Knows(take, archive[y.run]) OBVIOUS
  <2> HIDE DEF x, take
  <2>4. Counts(x, archive[x.run]) BY <2>1, <2>2, <2>3 DEF Knows, Counts
  <2>5. Knows(x, archive[x.run]) /\ Holds(x, containers') BY <2>1, <2>4, Leaves
  <2>6. QED BY <1>1, <1>3, <2>5, Stands
<1>6. CASE found # {} /\ exact # {} /\ owned # {}
  <2>1. PICK c \in owned : TRUE BY <1>6
  <2>2. c \in found /\ c \in containers /\ c.run = host[h].run /\ c \in exact BY DEF Candidates
  <2>3. \A d \in found : d = c BY <2>2 DEF SInv, OnlyOpen, Candidates
  <2>4. exact = {c} /\ owned = {c} BY <2>1, <2>2, <2>3
  <2>5. Cardinality(exact) = 1 BY <2>4, FS_Singleton
  <2>6. containers' = containers \ {c} BY <1>2, <2>4, <2>5
  <2>7. x = take BY <1>6, <2>5
  <2>8. take.run = y.run /\ take.pc = "interrupted" BY DEF Processes
  <2>9. \A d \in containers' : d.run # take.run BY <2>3, <2>6, <2>8 DEF Candidates
  <2> HIDE DEF take, x
  <2>10. Holds(take, containers') BY <2>8, <2>9 DEF Holds, WithBox
  <2>11. Knows(take, archive[take.run]) BY <2>8 DEF take
  <2>12. QED BY <1>1, <1>3, <2>7, <2>10, <2>11, Stands
<1>7. QED BY <1>4, <1>5, <1>6

\* Looking for a container, and what was found of an interrupted step.
LEMMA FindingOnly ==
  ASSUME OneProcess, NEW h \in Hosts, IInv, SInv, Reobserve(h) \/ RecordInterrupted(h)
  PROVE  SInv'
<1>1. host[h].pc \in {"reobserve", "interrupted"} BY DEF Reobserve, RecordInterrupted, At
<1>2. /\ host[h] \in Processes /\ host[h].run \in DOMAIN archive
      /\ Knows(host[h], archive[host[h].run]) /\ Holds(host[h], containers)
  BY <1>1, Seen
<1>3. CASE Reobserve(h)
  <2> DEFINE goto == [host[h] EXCEPT !.pc = "dispatch"]
             take == [host[h] EXCEPT !.pc = "interrupted", !.open = host[h].open]
             events == archive[host[h].run]
  <2>1. host[h].pc = "reobserve" BY <1>3 DEF Reobserve, At
  <2>2. host[h].open \in Events \cup {None} BY <1>2 DEF Processes
  <2>3. ~host[h].handling /\ Clean(events) /\ host[h].sequence = Len(events)
        /\ host[h].done = DoneIn(events)
    BY <1>2, <2>1 DEF Knows, Working, AtWork
  <2>4. goto.pc = "dispatch" /\ goto.handling = host[h].handling
        /\ goto.sequence = host[h].sequence /\ goto.done = host[h].done
    BY <1>2 DEF Processes
  <2>5. take.pc = "interrupted" /\ take.handling = host[h].handling
        /\ take.sequence = host[h].sequence /\ take.done = host[h].done
    BY <1>2 DEF Processes
  <2>6. UNCHANGED <<files, made>> BY <1>3 DEF Reobserve
  <2> HIDE DEF goto, take
  <2>7. Knows(goto, events) BY <2>3, <2>4 DEF Knows, Counts, WithStep
  <2>8. Knows(take, events) BY <2>3, <2>5 DEF Knows, Counts, WithStep
  <2>9. CASE Recover(h, host[h].open, host[h], "dispatch")
    BY <1>2, <2>2, <2>6, <2>7, <2>8, <2>9, RecoverOnly DEF goto, take
  <2>10. CASE Handle(h, "failed") /\ UNCHANGED containers
    <3>1. Working(host[h]) BY <2>1 DEF Working, AtWork
    <3>2. UNCHANGED archive BY <2>6 DEF files
    <3>3. QED BY <2>1, <2>6, <2>10, <3>1, <3>2, Turns
  <2>11. QED BY <1>3, <2>9, <2>10 DEF Reobserve
<1>4. CASE RecordInterrupted(h)
  <2> DEFINE event == [host[h].open EXCEPT !.type = "step.failed"]
             x == Moved(h, IF host[h].handling THEN "cancelled" ELSE "dispatch")
  <2>1. host[h].pc = "interrupted" BY <1>4 DEF RecordInterrupted, At
  <2>2. host[h].open \in Events BY <2>1, Born DEF Informed
  <2>3. /\ event.type = "step.failed" /\ event.steps \in SUBSET (Steps \cup {None})
        /\ event.box \in Nat /\ event.verdict \in Verdicts
    BY <2>2 DEF Events
  <2>4. event.type \in EventTypes \ Over BY <2>3 DEF EventTypes, Over, Terminal
  <2>5. /\ x \in Processes /\ x.pc = IF host[h].handling THEN "cancelled" ELSE "dispatch"
        /\ x.run = host[h].run /\ x.done = host[h].done /\ x.handling = host[h].handling
    BY <1>2 DEF Moved, Processes, Places
  <2>6. Write(h, event, x) /\ containers' = containers /\ made' = made
    BY <1>4 DEF RecordInterrupted, docker
  <2> HIDE DEF x, event
  <2>7. CASE host[h].handling
    BY <1>2, <2>1, <2>3, <2>4, <2>5, <2>6, <2>7, LastWrites
  <2>8. CASE ~host[h].handling
    <3>1. Working(host[h]) /\ Between(host[h]) BY <2>1, <2>8 DEF Working, Between
    <3>2. x.pc = "dispatch" /\ x.pc \notin WithStep BY <2>5, <2>8 DEF WithStep
    <3>3. Holds(x, containers) BY <1>2, <2>5, <3>1, <3>2 DEF Holds, WithBox
    <3>4. \A s : ~IsStep(event, "step.completed", s) /\ ~IsStep(event, "step.started", s)
      BY <2>3 DEF IsStep
    <3>5. x.done = host[h].done \cup {s \in Steps : IsStep(event, "step.completed", s)}
      BY <2>5, <3>4
    <3>6. QED BY <1>2, <2>1, <2>3, <2>4, <2>5, <2>6, <2>8, <3>1, <3>2, <3>3, <3>4, <3>5,
                 WorkingWrites
  <2>9. QED BY <2>7, <2>8
<1>5. QED BY <1>3, <1>4
\* The events about one step, as the actions write them.
LEMMA AboutTyped ==
  ASSUME NEW type \in {"policy.checked", "step.started", "step.completed", "step.failed"},
         NEW s \in Steps, NEW b \in Nat
  PROVE  /\ About(type, s, b).type \in EventTypes \ Over
         /\ About(type, s, b).type = type
         /\ About(type, s, b).steps \in SUBSET (Steps \cup {None})
         /\ About(type, s, b).box \in Nat /\ About(type, s, b).verdict \in Verdicts
         /\ \A t \in Steps : \A other :
              IsStep(About(type, s, b), other, t) <=> other = type /\ t = s
<1>1. /\ About(type, s, b).type = type /\ About(type, s, b).steps = {s}
      /\ About(type, s, b).box = b /\ About(type, s, b).verdict = "none"
  BY DEF About, Event
<1>2. type \in EventTypes \ Over BY DEF EventTypes, Over, Terminal
<1>3. {s} \in SUBSET (Steps \cup {None}) /\ "none" \in Verdicts BY DEF Verdicts
<1>4. \A t \in Steps : \A other : IsStep(About(type, s, b), other, t) <=> other = type /\ t = s
  <2>1. \A t : {s} = {t} <=> t = s OBVIOUS
  <2>2. QED BY <1>1, <2>1 DEF IsStep
<1>5. QED BY <1>1, <1>2, <1>3, <1>4

\* A step is checked, gets its container and is started.
LEMMA StartingOnly ==
  ASSUME OneProcess, NEW h \in Hosts, IInv, SInv, Authorize(h) \/ CreateBox(h) \/ StepStarted(h)
  PROVE  SInv'
<1> DEFINE events == archive[host[h].run]
<1>1. host[h].pc \in {"dispatch", "create_box", "step_started"}
  BY DEF Authorize, CreateBox, StepStarted, At
<1>2. Working(host[h]) BY <1>1 DEF Working, AtWork, WithStep
<1>3. /\ host[h] \in Processes /\ host[h].run \in DOMAIN archive /\ events \in Seq(Events)
      /\ Knows(host[h], events) /\ Holds(host[h], containers) /\ Informed(host[h], archive)
  BY <1>1, Seen, Born
<1>4. /\ ~host[h].handling /\ Clean(events) /\ host[h].sequence = Len(events)
      /\ host[h].done = DoneIn(events)
  BY <1>2, <1>3 DEF Knows
<1>5. CASE Authorize(h)
  <2>1. host[h].pc = "dispatch" /\ containers' = containers /\ made' = made
    BY <1>5 DEF Authorize, At, docker
  <2>2. CASE Handle(h, "stale") /\ UNCHANGED archive BY <1>2, <2>1, <2>2, Turns
  <2>3. ASSUME NEW s \in Ready(h),
               Write(h, About("policy.checked", s, 0), [host[h] EXCEPT !.pc = "create_box", !.step = s])
        PROVE  SInv'
    <3> DEFINE x == [host[h] EXCEPT !.pc = "create_box", !.step = s]
               event == About("policy.checked", s, 0)
    <3>1. s \in Steps /\ s \notin host[h].done BY DEF Ready
    <3>2. /\ x \in Processes /\ x.pc = "create_box" /\ x.step = s /\ x.run = host[h].run
          /\ x.done = host[h].done /\ ~x.handling
      BY <1>3, <1>4, <3>1 DEF Processes, Places
    <3>3. /\ event.type \in EventTypes \ Over /\ event.type = "policy.checked"
          /\ event.steps \in SUBSET (Steps \cup {None})
          /\ event.box \in Nat /\ event.verdict \in Verdicts
          /\ \A t \in Steps : \A other : IsStep(event, other, t) <=> other = "policy.checked" /\ t = s
      BY <3>1, AboutTyped
    <3>4. Write(h, event, x) BY <2>3
    <3>5. \A c \in containers : c.run # host[h].run BY <1>3, <2>1 DEF Holds, Between
    <3> HIDE DEF x, event
    <3>6. Holds(x, containers) BY <3>2, <3>5 DEF Holds, WithBox
    <3>7. x.done = host[h].done \cup {t \in Steps : IsStep(event, "step.completed", t)}
      BY <3>2, <3>3
    <3>8. \A t \in Steps : ~IsStep(event, "step.started", t) BY <3>3
    <3>9. IsStep(event, "policy.checked", x.step) BY <3>1, <3>2, <3>3
    <3>10. QED BY <1>1, <1>2, <2>1, <3>1, <3>2, <3>3, <3>4, <3>6, <3>7, <3>8, <3>9, WorkingWrites
  <2>4. QED BY <1>5, <2>2, <2>3 DEF Authorize
<1>6. CASE CreateBox(h)
  <2>1. host[h].pc = "create_box" /\ archive' = archive BY <1>6 DEF CreateBox, At, files
  <2>2. CASE Handle(h, "failed") /\ UNCHANGED docker BY <1>2, <2>1, <2>2, Turns DEF docker
  <2>3. CASE /\ made' = made + 1
             /\ containers' = containers \cup
                  {[id |-> made', run |-> host[h].run, step |-> host[h].step,
                    state |-> "created"]}
             /\ host' = [host EXCEPT ![h].pc = "step_started", ![h].box = made']
    <3> DEFINE x == [host[h] EXCEPT !.pc = "step_started", !.box = made']
    <3>1. made' \in Nat BY <2>3 DEF IInv, Typed
    <3>2. host' = [host EXCEPT ![h] = x] BY <1>3, <2>3 DEF IInv, Hosted
    <3>3. /\ x.pc = "step_started" /\ x.step = host[h].step /\ x.run = host[h].run
          /\ x.box = made' /\ x.done = host[h].done /\ x.handling = host[h].handling
          /\ x.sequence = host[h].sequence
      BY <1>3 DEF Processes
    <3>4. \A c \in containers : c.run # host[h].run BY <1>3, <2>1 DEF Holds, Between
    <3>5. /\ OnlyOpen'
          /\ \A c \in containers' : /\ c.run = host[h].run <=> c.id = made'
                                    /\ c.id = made' => c.step = host[h].step
      BY <1>3, <1>4, <2>1, <2>3, <3>4, Creates, ZenonT(30)
    <3>6. Whole' BY <2>1 DEF SInv, Whole
    <3>7. host'[h] = x /\ \A g \in Hosts : g = h BY <3>2 DEF OneProcess, IInv, Hosted
    <3> HIDE DEF x
    <3>8. Holds(x, containers') BY <3>3, <3>5 DEF Holds, Between
    <3>9. Knows(x, events) BY <1>3, <1>4, <2>1, <3>3 DEF Knows, Counts, Working, AtWork, WithStep
    <3>10. QED BY <2>1, <3>3, <3>5, <3>6, <3>7, <3>8, <3>9 DEF SInv
  <2>4. QED BY <1>6, <2>2, <2>3 DEF CreateBox
<1>7. CASE StepStarted(h)
  <2> DEFINE x == Moved(h, "start")
             event == About("step.started", host[h].step, host[h].box)
  <2>1. host[h].pc = "step_started" /\ containers' = containers /\ made' = made
        /\ Write(h, event, x)
    BY <1>7 DEF StepStarted, At, docker
  <2>2. host[h].step \in Steps /\ host[h].box \in Nat
    BY <1>3, <2>1 DEF Informed, WithStep, Processes
  <2>3. /\ event.type \in EventTypes \ Over /\ event.type = "step.started"
        /\ event.steps \in SUBSET (Steps \cup {None})
        /\ event.box \in Nat /\ event.verdict \in Verdicts
        /\ \A t \in Steps : \A other : IsStep(event, other, t) <=> other = "step.started" /\ t = host[h].step
    BY <2>2, AboutTyped
  <2>4. /\ x \in Processes /\ x.pc = "start" /\ x.step = host[h].step /\ x.run = host[h].run
        /\ x.box = host[h].box /\ x.done = host[h].done /\ ~x.handling
    BY <1>3, <1>4 DEF Moved, Processes, Places
  <2> HIDE DEF x, event
  <2>5. Holds(x, containers) BY <1>3, <2>1, <2>4 DEF Holds, Between, WithBox
  <2>6. x.done = host[h].done \cup {t \in Steps : IsStep(event, "step.completed", t)}
    BY <2>3, <2>4
  <2>7. host[h].step \notin host[h].done
        /\ Len(events) > 0 /\ IsStep(events[Len(events)], "policy.checked", host[h].step)
    BY <1>3, <2>1 DEF Knows, WithStep
  <2>8. \A t \in Steps : IsStep(event, "step.started", t) =>
          Len(events) > 0 /\ IsStep(events[Len(events)], "policy.checked", t)
    BY <2>3, <2>7
  <2> HIDE DEF events
  <2>9. QED BY <1>1, <1>2, <2>1, <2>3, <2>4, <2>5, <2>6, <2>7, <2>8, WorkingWrites DEF events
<1>8. QED BY <1>5, <1>6, <1>7
\* Its container runs, ends and is removed.
LEMMA BoxOnly ==
  ASSUME OneProcess, NEW h \in Hosts, IInv, SInv,
         StartBox(h) \/ Timeout(h) \/ Exited(h) \/ RemoveBox(h)
  PROVE  SInv'
<1> DEFINE events == archive[host[h].run]
<1>1. host[h].pc \in {"start", "wait", "remove"} BY DEF StartBox, Timeout, Exited, RemoveBox, At
<1>2. Working(host[h]) BY <1>1 DEF Working, AtWork, WithStep
<1>3. /\ host[h] \in Processes /\ host[h].run \in DOMAIN archive /\ events \in Seq(Events)
      /\ Knows(host[h], events) /\ Holds(host[h], containers)
  BY <1>1, Seen
<1>4. /\ ~host[h].handling /\ Clean(events) /\ host[h].sequence = Len(events)
      /\ host[h].done = DoneIn(events) /\ host[h].step \notin host[h].done
  BY <1>1, <1>2, <1>3 DEF Knows, WithStep
<1>5. /\ Box(h) \subseteq containers
      /\ \A c \in containers : c.run = host[h].run <=> c \in Box(h)
      /\ \A c \in Box(h) : c.run = host[h].run /\ c.step = host[h].step
  BY <1>1, <1>3 DEF Holds, WithBox, Box
<1>6. \A g \in Hosts : g = h BY DEF OneProcess
<1>7. UNCHANGED <<archive, made>> BY DEF StartBox, Timeout, Exited, RemoveBox, files, docker
<1>8. ASSUME NEW state, Become(h, state)
      PROVE  OnlyOpen' /\ \A x : Holds(x, containers) => Holds(x, containers')
  <2>1. \A c \in Box(h) : c.step \notin DoneIn(archive[c.run]) BY <1>4, <1>5
  <2>2. containers' = (containers \ Box(h)) \cup {[c EXCEPT !.state = state] : c \in Box(h)}
    BY <1>8 DEF Become
  <2>3. QED BY <1>5, <1>7, <2>1, <2>2, Becomes
\* The process gives the container up, or has seen how it ended.
<1>9. ASSUME NEW outcome \in States, UNCHANGED containers,
             host' = [host EXCEPT ![h].pc = "remove", ![h].outcome = outcome]
      PROVE  SInv'
  <2> DEFINE x == [host[h] EXCEPT !.pc = "remove", !.outcome = outcome]
  <2>1. host' = [host EXCEPT ![h] = x] BY <1>3, <1>9 DEF IInv, Hosted
  <2>2. /\ x.pc = "remove" /\ x.run = host[h].run /\ x.step = host[h].step
        /\ x.box = host[h].box /\ x.done = host[h].done /\ x.handling = host[h].handling
        /\ x.sequence = host[h].sequence
    BY <1>3 DEF Processes
  <2> HIDE DEF x
  <2>3. Knows(x, events) BY <1>4, <2>2 DEF Knows, Counts, Working
  <2>4. Holds(x, containers') BY <1>1, <1>3, <1>9, <2>2 DEF Holds, Between, WithBox
  <2>5. QED BY <1>7, <1>9, <2>1, <2>2, <2>3, <2>4, Stands
<1>10. CASE StartBox(h)
  <2>1. CASE Become(h, "running") /\ Go(h, "wait")
    <3> DEFINE x == Moved(h, "wait")
    <3>1. host'[h] = x BY <1>3, <2>1 DEF Go, Moved, IInv, Hosted
    <3>2. /\ x.pc = "wait" /\ x.run = host[h].run /\ x.step = host[h].step
          /\ x.box = host[h].box /\ x.done = host[h].done /\ x.handling = host[h].handling
          /\ x.sequence = host[h].sequence
      BY <1>3 DEF Moved, Processes
    <3> HIDE DEF x
    <3>3. Knows(x, events) BY <1>4, <3>2 DEF Knows, Counts, Working
    <3>4. Holds(x, containers) BY <1>1, <1>3, <3>2 DEF Holds, Between, WithBox
    <3>5. OnlyOpen' /\ Holds(x, containers') BY <1>8, <2>1, <3>4
    <3>6. Whole' BY <1>7 DEF SInv, Whole
    <3>7. QED BY <1>6, <1>7, <3>1, <3>2, <3>3, <3>5, <3>6 DEF SInv
  <2>2. QED BY <1>9, <1>10, <2>1 DEF StartBox, States
<1>11. CASE Timeout(h)
  <2>1. ASSUME NEW state, Become(h, state), UNCHANGED host PROVE SInv'
    <3>1. OnlyOpen' /\ Holds(host[h], containers') BY <1>3, <1>8, <2>1
    <3>2. Whole' BY <1>7 DEF SInv, Whole
    <3>3. QED BY <1>3, <1>6, <1>7, <2>1, <3>1, <3>2 DEF SInv
  <2>2. QED BY <1>9, <1>11, <2>1 DEF Timeout, States
<1>12. CASE Exited(h)
  <2>1. UNCHANGED containers BY <1>12 DEF Exited, docker
  <2>2. \A c \in Box(h) : c.state \in States BY <1>5 DEF IInv, Typed, Boxes
  <2>3. QED BY <1>9, <1>12, <2>1, <2>2 DEF Exited, States
<1>13. CASE RemoveBox(h)
  <2>1. containers' \subseteq containers BY <1>13 DEF RemoveBox
  <2>2. CASE /\ containers' = containers \ Box(h) /\ Go(h, "result")
    <3>1. \A c \in containers' : c.run # host[h].run BY <1>5, <2>2
    <3>2. Moved(h, "result").pc = "result" /\ Moved(h, "result").run = host[h].run
      BY <1>3 DEF Moved, Processes
    <3>3. Holds(Moved(h, "result"), containers') BY <3>1, <3>2 DEF Holds, WithBox
    <3>4. "result" \in AtWork \ {"create_box", "step_started"} /\ host[h].pc \in WithStep
      BY <1>1 DEF AtWork, WithStep
    <3>5. QED BY <1>1, <1>2, <1>7, <2>1, <2>2, <3>3, <3>4, Turns
  <2>3. CASE HandleWith(h, "error", "INCONCLUSIVE")
    BY <1>1, <1>2, <1>7, <2>1, <2>3, Turns DEF Verdicts
  <2>4. CASE Handle(h, "failed") BY <1>1, <1>2, <1>7, <2>1, <2>4, Turns
  <2>5. QED BY <1>13, <2>2, <2>3, <2>4 DEF RemoveBox
<1>14. QED BY <1>10, <1>11, <1>12, <1>13

\* What became of a step, and of all of them, is recorded once the attempt has
\* no container.
LEMMA RecordingOnly ==
  ASSUME OneProcess, NEW h \in Hosts, IInv, SInv, RecordResult(h) \/ Receipt(h)
  PROVE  SInv'
<1> DEFINE events == archive[host[h].run]
<1>1. /\ host[h].pc \in {"result", "dispatch"}
      /\ containers' = containers /\ made' = made
  BY DEF RecordResult, Receipt, At, docker
<1>2. Working(host[h]) /\ Between(host[h]) BY <1>1 DEF Working, AtWork, WithStep, Between
<1>3. /\ host[h] \in Processes /\ host[h].run \in DOMAIN archive /\ events \in Seq(Events)
      /\ Knows(host[h], events) /\ Informed(host[h], archive)
      /\ \A c \in containers : c.run # host[h].run
  BY <1>1, <1>2, Seen, Born DEF Holds
<1>4. ~host[h].handling BY <1>2, <1>3 DEF Knows
<1>5. CASE RecordResult(h)
  <2> DEFINE s == host[h].step
             good == [host[h] EXCEPT !.pc = "dispatch", !.done = host[h].done \cup {s},
                                     !.results = host[h].results \cup {s}]
             bad == [host[h] EXCEPT !.pc = "close", !.verdict = "FAIL"]
  <2>1. host[h].pc = "result" BY <1>5 DEF RecordResult, At
  <2>2. s \in Steps BY <1>3, <2>1 DEF Informed, WithStep
  <2>3. CASE Write(h, About("step.completed", s, 0), good)
    <3> DEFINE event == About("step.completed", s, 0)
    <3>1. /\ good \in Processes /\ good.pc = "dispatch" /\ good.run = host[h].run
          /\ good.done = host[h].done \cup {s} /\ good.handling = host[h].handling
      BY <1>3, <2>2 DEF Processes, Places
    <3>2. /\ event.type \in EventTypes \ Over
          /\ event.steps \in SUBSET (Steps \cup {None})
          /\ event.box \in Nat /\ event.verdict \in Verdicts
          /\ \A t \in Steps : \A other : IsStep(event, other, t) <=> other = "step.completed" /\ t = s
      BY <2>2, AboutTyped
    <3>3. Write(h, event, good) BY <2>3
    <3> HIDE DEF good, event
    <3>4. Holds(good, containers) BY <1>3, <3>1 DEF Holds, WithBox
    <3>5. good.done = host[h].done \cup {t \in Steps : IsStep(event, "step.completed", t)}
      BY <2>2, <3>1, <3>2
    <3>6. \A t \in Steps : ~IsStep(event, "step.started", t) BY <3>2
    <3>7. good.pc \notin WithStep BY <3>1 DEF WithStep
    <3>8. QED BY <1>1, <1>2, <1>4, <3>1, <3>2, <3>3, <3>4, <3>5, <3>6, <3>7, WorkingWrites
  <2>4. CASE Write(h, About("step.failed", s, 0), bad)
    <3> DEFINE event == About("step.failed", s, 0)
    <3>1. /\ bad \in Processes /\ bad.pc = "close" /\ bad.run = host[h].run
          /\ bad.verdict = "FAIL" /\ bad.done = host[h].done /\ bad.handling = host[h].handling
      BY <1>3 DEF Processes, Places, Verdicts
    <3>2. /\ event.type \in EventTypes \ Over /\ event.type = "step.failed"
          /\ event.steps \in SUBSET (Steps \cup {None})
          /\ event.box \in Nat /\ event.verdict \in Verdicts
          /\ \A t \in Steps : \A other : IsStep(event, other, t) <=> other = "step.failed" /\ t = s
      BY <2>2, AboutTyped
    <3>3. Write(h, event, bad) BY <2>4
    <3> HIDE DEF bad, event
    <3>4. Holds(bad, containers) BY <3>1 DEF Holds, Between, WithBox
    <3>5. \A t \in Steps : ~IsStep(event, "step.started", t) /\ ~IsStep(event, "step.completed", t)
      BY <3>2
    <3>6. bad.done = host[h].done \cup {t \in Steps : IsStep(event, "step.completed", t)}
      BY <3>1, <3>5
    <3>7. bad.pc \notin WithStep BY <3>1 DEF WithStep
    <3>8. QED BY <1>1, <1>2, <1>4, <3>1, <3>2, <3>3, <3>4, <3>5, <3>6, <3>7, WorkingWrites
  <2>5. QED BY <1>5, <2>3, <2>4 DEF RecordResult
<1>6. CASE Receipt(h)
  <2> DEFINE event == Event("evidence.recorded", host[h].results, 0, "none")
             x == [host[h] EXCEPT !.pc = "close",
                     !.verdict = IF Required \subseteq host[h].done THEN "PASS" ELSE "INCONCLUSIVE"]
  <2>1. Write(h, event, x) BY <1>6 DEF Receipt
  <2>2. /\ x \in Processes /\ x.pc = "close" /\ x.run = host[h].run
        /\ x.done = host[h].done /\ x.handling = host[h].handling
    BY <1>3 DEF Processes, Places, Verdicts
  <2>3. /\ event.type = "evidence.recorded" /\ event.steps = host[h].results
        /\ event.box = 0 /\ event.verdict = "none"
    BY DEF Event
  <2> HIDE DEF x, event
  <2>4. event.type \in EventTypes \ Over /\ event.steps \in SUBSET (Steps \cup {None})
        /\ event.box \in Nat /\ event.verdict \in Verdicts
    BY <1>3, <2>3 DEF Processes, EventTypes, Over, Terminal, Verdicts
  <2>5. Holds(x, containers) BY <1>3, <2>2 DEF Holds, WithBox
  <2>6. \A t \in Steps : ~IsStep(event, "step.started", t) /\ ~IsStep(event, "step.completed", t)
    BY <2>3 DEF IsStep
  <2>7. x.done = host[h].done \cup {t \in Steps : IsStep(event, "step.completed", t)}
    BY <2>2, <2>6
  <2>8. x.pc \notin WithStep BY <2>2 DEF WithStep
  <2>9. QED BY <1>1, <1>2, <1>4, <2>1, <2>2, <2>3, <2>4, <2>5, <2>6, <2>7, <2>8, WorkingWrites
<1>7. QED BY <1>5, <1>6
\* The attempt is closed: with PASS only when it has no container.
LEMMA ClosingOnly ==
  ASSUME OneProcess, NEW h \in Hosts, IInv, SInv,
         Close(h) \/ RecordError(h) \/ Fail(h) \/ Stale(h) \/ Cancelled(h)
  PROVE  SInv'
<1>1. /\ host[h].pc \in {"close", "error", "failed", "stale", "cancelled"}
      /\ containers' = containers /\ made' = made
  BY DEF Close, RecordError, Fail, Stale, Cancelled, Give, At, docker
<1>2. host[h] \in Processes /\ Knows(host[h], archive[host[h].run]) BY <1>1, Seen
<1>3. CASE Close(h)
  <2> DEFINE event == Completed(host[h].verdict)
             x == Moved(h, "unlink")
  <2>1. host[h].pc = "close" /\ Write(h, event, x) BY <1>3 DEF Close, At
  <2>2. x \in Processes /\ x.pc = "unlink" /\ x.run = host[h].run
    BY <1>2 DEF Moved, Processes, Places
  <2>3. /\ event.type = "run.completed" /\ event.steps = {} /\ event.box = 0
        /\ event.verdict = host[h].verdict
    BY DEF Completed, Event
  <2>4. event.verdict = "PASS" => Between(host[h]) BY <2>1, <2>3 DEF Between
  <2> HIDE DEF x, event
  <2>5. /\ event.type \in EventTypes \ {"step.started", "step.completed"} /\ event.type \in Over
        /\ event.steps \in SUBSET (Steps \cup {None})
        /\ event.box \in Nat /\ event.verdict \in Verdicts
    BY <1>2, <2>3 DEF Processes, EventTypes, Over, Terminal
  <2>6. QED BY <1>1, <2>1, <2>2, <2>4, <2>5, LastWrites
<1>4. CASE RecordError(h) \/ Fail(h) \/ Stale(h) \/ Cancelled(h)
  <2>1. PICK type \in {"step.failed", "run.failed", "run.stale", "run.cancelled"},
             pc \in {"close", "unlink"} :
          /\ Write(h, Plain(type), Moved(h, pc))
          /\ type = "step.failed" <=> host[h].pc = "error"
          /\ pc = "close" <=> host[h].pc = "error"
          /\ host[h].pc = "cancelled" => type = "run.cancelled"
    BY <1>4 DEF RecordError, Fail, Stale, Cancelled, Give, At
  <2> DEFINE event == Plain(type)
             x == Moved(h, pc)
  <2>2. x \in Processes /\ x.pc = pc /\ x.verdict = host[h].verdict /\ x.run = host[h].run
    BY <1>2 DEF Moved, Processes, Places
  <2>3. event.type = type /\ event.steps = {} /\ event.box = 0 /\ event.verdict = "none"
    BY DEF Plain, Event
  <2>4. Write(h, event, x) BY <2>1
  <2> HIDE DEF x, event
  <2>5. /\ event.type \in EventTypes \ {"step.started", "step.completed"}
        /\ event.type \in Over \/ host[h].pc = "error"
        /\ host[h].pc = "cancelled" => event.type = "run.cancelled"
        /\ event.steps \in SUBSET (Steps \cup {None})
        /\ event.box \in Nat /\ event.verdict \in Verdicts
        /\ event.verdict # "PASS"
    BY <2>1, <2>3 DEF EventTypes, Over, Terminal, Verdicts
  <2>6. x.pc = "close" => x.verdict # "PASS" BY <1>2, <2>1, <2>2 DEF Knows
  <2>7. QED BY <1>1, <2>1, <2>2, <2>4, <2>5, <2>6, LastWrites
<1>5. QED BY <1>3, <1>4

\* The process that is done forgets the attempt; so does one that dies.
LEMMA ForgettingOnly ==
  ASSUME OneProcess, NEW h \in Hosts, IInv, SInv, Unlink(h) \/ Crash(h)
  PROVE  SInv'
<1>1. host' = [host EXCEPT ![h] = Idle] /\ containers' = containers /\ made' = made
  BY DEF Unlink, Crash, End, docker
<1>2. \A events : Knows(Idle, events) /\ Holds(Idle, containers) BY Forgets
<1>3. CASE archive' = archive BY <1>1, <1>2, <1>3, Stands
<1>4. CASE host[h].pc \in Writing /\ Append1(h, Plain("torn"))
  <2> DEFINE event == Plain("torn")
             e == [type |-> event.type, steps |-> event.steps, box |-> event.box,
                   verdict |-> event.verdict, sequence |-> host[h].sequence]
  <2>1. host[h] \in Processes /\ host[h].run \in DOMAIN archive
    BY <1>4, Seen DEF Writing
  <2>2. event.type = "torn" /\ event.steps = {} /\ event.box = 0 /\ event.verdict = "none"
    BY DEF Plain, Event
  <2>3. e \in Events /\ e.type = "torn" BY <2>1, <2>2 DEF Events, EventTypes, Verdicts, Processes
  <2>4. archive' = Grown(archive, host[h].run, e) BY <1>4 DEF Append1, Grown
  <2> HIDE DEF e
  <2>5. InPlace(e, archive[host[h].run]) /\ \A s \in Steps : ~IsStep(e, "step.started", s)
    BY <2>3 DEF InPlace, IsStep
  <2>6. Whole' /\ OnlyOpen' BY <1>1, <2>1, <2>3, <2>4, <2>5, Grows
  <2>7. host'[h] = Idle /\ \A g \in Hosts : g = h BY <1>1 DEF OneProcess, IInv, Hosted
  <2>8. QED BY <1>1, <1>2, <2>6, <2>7 DEF SInv
<1>5. QED BY <1>3, <1>4 DEF Unlink, Crash

\* An interrupted process takes its container away, or leaves the one it was
\* about to create to the handler that looks for it.
LEMMA InterruptOnly ==
  ASSUME OneProcess, NEW h \in Hosts, IInv, SInv, Interrupt(h)
  PROVE  SInv'
<1>1. host[h].pc \notin {"idle", "create"} /\ archive' = archive
  BY InterruptAssumption DEF Interrupt, files
<1>2. /\ host[h] \in Processes /\ host[h].run \in DOMAIN archive
      /\ Knows(host[h], archive[host[h].run]) /\ Holds(host[h], containers)
  BY <1>1, Seen
<1>3. PICK pc \in {"cancelled", "cancel"} :
        Handle(h, pc) /\ (pc = "cancelled" => host[h].pc \in BeforeDocker)
  BY DEF Interrupt
<1>4. CASE /\ containers' \subseteq containers /\ made' = made
  <2>1. Working(host[h]) \/ pc = "cancel" \/ (pc = "cancelled" /\ host[h].pc = "resume")
    BY <1>3 DEF BeforeDocker, Working, AtWork
  <2>2. QED BY <1>1, <1>3, <1>4, <2>1, Turns
<1>5. CASE /\ At(h, "create_box")
           /\ made' = made + 1
           /\ containers' = containers \cup
                {[id |-> made', run |-> host[h].run, step |-> host[h].step,
                  state |-> "created"]}
  <2> DEFINE x == [host[h] EXCEPT !.pc = pc, !.handling = TRUE]
  <2>1. host[h].pc = "create_box" BY <1>5 DEF At
  <2>2. Working(host[h]) /\ Between(host[h]) BY <2>1 DEF Working, AtWork, WithStep, Between
  <2>3. Clean(archive[host[h].run]) /\ \A c \in containers : c.run # host[h].run
    BY <1>2, <2>2 DEF Knows, Holds
  <2>4. OnlyOpen' BY <1>1, <1>2, <1>5, <2>3, Creates
  <2>5. Whole' BY <1>1 DEF SInv, Whole
  <2>6. host' = [host EXCEPT ![h] = x] BY <1>2, <1>3 DEF Handle, IInv, Hosted
  <2>7. host'[h] = x /\ \A g \in Hosts : g = h BY <2>6 DEF OneProcess, IInv, Hosted
  <2>8. x.pc = "cancel" /\ x.handling BY <1>2, <1>3, <2>1 DEF Processes, BeforeDocker
  <2> HIDE DEF x
  <2>9. \A events, boxes : Knows(x, events) /\ Holds(x, boxes)
    <3>1. \A events : Counts(x, events) BY <2>8 DEF Counts
    <3>2. QED BY <2>8, <3>1, Leaves
  <2>10. QED BY <2>4, <2>5, <2>7, <2>9 DEF SInv
<1>6. QED BY <1>4, <1>5 DEF Interrupt

\* The handler of an interrupt counts the events anew.
LEMMA CancelOnly ==
  ASSUME OneProcess, NEW h \in Hosts, IInv, SInv, Cancel(h)
  PROVE  SInv'
<1> DEFINE events == archive[host[h].run]
           y == [host[h] EXCEPT !.sequence = Len(events)]
<1>1. host[h].pc = "cancel" BY DEF Cancel, At
<1>2. /\ host[h] \in Processes /\ events \in Seq(Events) /\ Knows(host[h], events)
  BY <1>1, Seen
<1>3. host[h].handling BY <1>1, <1>2 DEF Knows
<1>4. CASE End(h) /\ UNCHANGED containers
  <2>1. host' = [host EXCEPT ![h] = Idle] /\ UNCHANGED <<archive, made, containers>>
    BY <1>4 DEF End, Cancel, files
  <2>2. QED BY <2>1, Forgets, Stands
<1>5. CASE Recover(h, OpenIn(events), y, "cancelled")
  <2> DEFINE goto == [y EXCEPT !.pc = "cancelled"]
             take == [y EXCEPT !.pc = "interrupted", !.open = OpenIn(events)]
  <2>1. OpenIn(events) \in Events \cup {None} /\ Len(events) \in Nat BY <1>2, OpenTyped
  <2>2. y \in Processes /\ y.run = host[h].run /\ y.handling /\ y.sequence = Len(events)
    BY <1>2, <1>3, <2>1 DEF Processes
  <2>3. goto.pc = "cancelled" /\ goto.sequence = Len(events) BY <2>2 DEF Processes
  <2>4. take.pc = "interrupted" /\ take.handling /\ take.sequence = Len(events)
    BY <2>2 DEF Processes
  <2>5. UNCHANGED <<files, made>> BY DEF Cancel
  <2>6. Recover(h, OpenIn(events), y, "cancelled") BY <1>5
  <2> HIDE DEF goto, take, y, events
  <2>7. Knows(goto, events)
    <3>1. Counts(goto, events) BY <2>3 DEF Counts
    <3>2. QED BY <2>3, <3>1, Leaves
  <2>8. Knows(take, events) BY <2>4 DEF Knows, Counts, Working, AtWork, WithStep
  <2>9. events = archive[y.run] BY <2>2 DEF events
  <2>10. QED BY <2>1, <2>2, <2>5, <2>6, <2>7, <2>8, <2>9, RecoverOnly DEF goto, take
<1>6. QED BY <1>4, <1>5 DEF Cancel

\* The invariant of one process holds of every behaviour.
LEMMA OneInvariant == ASSUME OneProcess PROVE Spec => []SInv
<1>1. Init => SInv
  <2> SUFFICES ASSUME Init PROVE SInv
    OBVIOUS
  <2>1. Whole /\ OnlyOpen BY DEF Init, Whole, OnlyOpen
  <2>2. \A h \in Hosts : host[h] = Idle BY DEF Init
  <2>3. QED BY <2>1, <2>2, Forgets DEF SInv
<1>2. IInv /\ SInv /\ [Next]_vars => SInv'
  <2> SUFFICES ASSUME IInv, SInv, [Next]_vars PROVE SInv'
    OBVIOUS
  <2>1. ASSUME NEW h \in Hosts, Step(h) PROVE SInv'
    BY <2>1, OpeningOnly, CreatedOnly, FindingOnly, StartingOnly, BoxOnly, RecordingOnly,
       ClosingOnly, ForgettingOnly, CancelOnly DEF Step
  <2>2. ASSUME NEW h \in Hosts, Interrupt(h) \/ InterruptUncounted(h) \/ Crash(h) PROVE SInv'
    BY <2>2, InterruptOnly, UncountedOnly, ForgettingOnly
  <2>3. CASE BoxExits
    <3>1. PICK b \in containers, state \in StepEnds :
            /\ b.state = "running"
            /\ containers' = (containers \ {b}) \cup {[b EXCEPT !.state = state]}
            /\ UNCHANGED <<outside, files, made, host>>
      BY <2>3 DEF BoxExits
    <3> DEFINE boxes == {b}
    <3>2. containers' = (containers \ boxes) \cup {[c EXCEPT !.state = state] : c \in boxes}
      BY <3>1
    <3>3. archive' = archive /\ made' = made /\ host' = host BY <3>1 DEF files
    <3>4. state = "running" => \A c \in boxes : c.step \notin DoneIn(archive[c.run])
      BY ManifestAssumption
    <3>5. boxes \in SUBSET containers OBVIOUS
    <3> HIDE DEF boxes
    <3>6. OnlyOpen' /\ \A x : Holds(x, containers) => Holds(x, containers')
      BY <3>2, <3>3, <3>4, <3>5, Becomes
    <3>7. QED BY <3>3, <3>6 DEF SInv, Whole
  <2>4. CASE ApprovalChanges \/ UNCHANGED vars
    <3>1. UNCHANGED <<archive, host, containers, made>>
      BY <2>4 DEF ApprovalChanges, vars, files, docker
    <3>2. QED BY <3>1 DEF SInv, Whole, OnlyOpen
  <2>5. QED BY <2>1, <2>2, <2>3, <2>4 DEF Next
<1>3. QED BY <1>1, <1>2, Invariant, PTL DEF Spec

\* One process at a time: no step is started before its dependencies are done,
\* and none runs again once it is recorded as completed, whatever deaths,
\* interrupts and resumed calls there were.
THEOREM InOrderOnce == ASSUME OneProcess PROVE Spec => []StepsInOrder
<1>1. SInv => NeverRunsDone BY DEF SInv, OnlyOpen, NeverRunsDone
<1>2. QED BY <1>1, OneInvariant, DependenciesKept, PTL DEF StepsInOrder

\* One process at a time: every start of a step, a replay included, has an
\* approval check of its own since the step was last started.
THEOREM EachStartChecked == ASSUME OneProcess PROVE Spec => []CheckedBeforeStep
<1>1. SInv => CheckedBeforeStep
  BY DEF SInv, Whole, Checked, CheckedBeforeStep, Attempts
<1>2. QED BY <1>1, OneInvariant, PTL

\* One process at a time: an attempt that passed has left no container behind.
THEOREM NoneLeftBehind == ASSUME OneProcess PROVE Spec => []NothingLeftBehind
<1>1. SInv => NothingLeftBehind
  BY DEF SInv, OnlyOpen, PassedIn, NothingLeftBehind, Passed
<1>2. QED BY <1>1, OneInvariant, PTL

\* One process at a time: every event of an attempt carries the sequence of its
\* line, across deaths and resumptions, unless a torn or terminal event stands
\* before it; only an interrupt before docker is found misplaces its run.cancelled.
THEOREM PlacesKept == ASSUME OneProcess PROVE Spec => []EventsInPlace
<1>1. SInv => EventsInPlace
  BY DEF SInv, Whole, Placed, Over, EventsInPlace, Attempts
<1>2. QED BY <1>1, OneInvariant, PTL
=============================================================================
