------------------------------ MODULE Surfaces ------------------------------
(***************************************************************************)
(* The platform probes: each starts a database in Docker, runs a fixed     *)
(* plan of commands against it, removes what it created and reports a      *)
(* verdict.  Several probes may run at once on one host.  No lock keeps    *)
(* them apart: a probe only looks, before it starts, whether anything is   *)
(* left under its names.                                                   *)
(*                                                                         *)
(* The runtime, database, python and node probes share the project "kept", *)
(* whose volume is protected evidence; the reliability, journal and        *)
(* recovery probes share the project "scratch", whose volume is disposable *)
(* and whose name extends that of "kept"; the backup probe has fixed names *)
(* of its own ("vault").  The content of a volume is the set of facts that *)
(* the plans write and read back.                                          *)
(***************************************************************************)
EXTENDS Naturals, Sequences

CONSTANTS Procs,        \* calls of the probes that may run at once
          Jobs,         \* the probes that each of them may be
          MaxCalls,     \* calls in a behaviour
          MaxTroubles   \* commands that fail, results that differ, deaths of a
                        \* probe, replacements of a protected volume

Kept    == {"runtime", "database", "python", "node"}
Scratch == {"reliability", "journal", "recovery"}
Surface == Kept \cup Scratch \cup {"backup"}

ASSUME JobsAssumption == Jobs \in [Procs -> SUBSET Surface]
ASSUME BoundsAssumption == MaxCalls \in Nat /\ MaxTroubles \in Nat

Projects == {"kept", "scratch", "vault"}
Project(j) == IF j \in Kept THEN "kept" ELSE IF j \in Scratch THEN "scratch" ELSE "vault"

Rows     == {"marker", "python", "node", "again"}
Journals == {"events", "runs"}
Facts    == Rows \cup Journals \cup {"schema"}

-----------------------------------------------------------------------------
(* The plans.  A step names the container it creates and the facts it      *)
(* writes, or those it has to find.                                        *)

Step(op, name, fs) == [op |-> op, name |-> name, facts |-> fs]

Up           == Step("up", "none", {})       \* network, volume and database
Create       == Step("create", "none", {})   \* the same, under names that must be free
Wait         == Step("wait", "none", {})     \* poll the health of the database
Run(n, fs)   == Step("run", n, fs)           \* a container that has to succeed
App(n, r)    == Step("app", n, {r})          \* a runner with a valid request
Refused(n)   == Step("refused", n, {})       \* a runner with an invalid request
Outage(n, r) == Step("outage", n, {r})       \* a runner while the database is stopped
Find(n, fs)  == Step("find", n, fs)          \* read the rows back
Cancel(n)    == Step("cancel", n, {})        \* a query that the host stops
Spawn(n)     == Step("spawn", n, {})         \* a container outside of Compose
Record(f)    == Step("record", "none", {f})  \* append to the journal
Count(fs)    == Step("count", "none", fs)    \* the journal holds this and no more
Stream(f)    == Step("stream", "none", {f})  \* run events, as a child process
Sole         == Step("sole", "none", {})     \* only the database container is left
Remove       == Step("remove", "none", {})   \* the containers created so far
Stop         == Step("stop", "none", {})
Restart      == Step("restart", "none", {})

RuntimePlan == <<Up, Wait, Run("migration", {}), Run("python", {}), Run("node", {})>>

DatabaseMigrations == <<Up, Wait, Run("real", {"schema"}), Run("idempotent", {"schema"})>>
DatabaseQueries ==
  <<Run("dml", {"marker"}), Stop, Restart, Wait, Find("persistence", {"marker"})>>

PythonPlan ==
  <<Up, Wait, Run("migration", {"schema"}), Remove, App("real", "python"),
    Find("row", {"python"}), Remove, Refused("invalid"), Remove, Find("absent", {})>>

NodePlan ==
  <<Up, Wait, Run("migration", {"schema"}), Remove, App("real", "node"),
    Find("row", {"node", "python"}), Remove, Refused("invalid"), Remove, Find("absent", {})>>

ReliabilityFresh ==
  <<Up, Wait, Run("migration", {"schema"}), Remove, App("python", "python"), Remove,
    App("node", "node"), Find("fresh", {"python", "node"}), Remove,
    Refused("invalid"), Remove, Find("unchanged", {"python", "node"}), Remove>>
ReliabilityFailures ==
  <<Stop, Outage("failed", "again"), Remove, Up, Wait, Find("after", {"python", "node"}),
    Remove, App("recovery", "again"), Remove, Cancel("cancel"), Remove, Restart, Wait,
    Find("restart", {"python", "node", "again"}), Remove, Sole>>

JournalPlan ==
  <<Up, Wait, Run("migration", {"schema"}), Remove, Record("events"), Stream("events"),
    Count({"events"}), Restart, Wait, Stream("events")>>

RecoveryOwners ==
  <<Up, Wait, Run("migration", {"schema"}), Remove, Record("runs"), Spawn("active"), Remove>>
RecoveryCases   == <<Spawn("failed"), Stream("runs")>>
RecoveryRestart == <<Restart, Wait, Stream("runs")>>

BackupSource == <<Create, Wait, Run("migration", {"schema"}), Remove, Record("events")>>
BackupTarget == <<Spawn("fence"), Run("dump", {}), Remove, Restart, Wait>>

Plan(j) ==
  CASE j = "runtime"     -> RuntimePlan
    [] j = "database"    -> DatabaseMigrations \o DatabaseQueries
    [] j = "python"      -> PythonPlan
    [] j = "node"        -> NodePlan
    [] j = "reliability" -> ReliabilityFresh \o ReliabilityFailures
    [] j = "journal"     -> JournalPlan
    [] j = "recovery"    -> RecoveryOwners \o RecoveryCases \o RecoveryRestart
    [] j = "backup"      -> BackupSource \o BackupTarget

-----------------------------------------------------------------------------
VARIABLES
  box,      \* the containers but the databases: [job, name, by]
  db,       \* the database container of each project, and the run it is labelled with
  net, vol, \* the projects whose network, whose volume exists
  facts,    \* what the volume of each project holds
  ident,    \* the identity of the protected volumes, as docker reports it
  job, pc, at, \* of each probe: what it runs, where it is, the step of its plan
  mind,     \* what it knows: "ok", a check was "bad", or an exception was "raised"
  runner,   \* how far the application runner it waits for has come
  swept,    \* no removal failed
  seen,     \* what there was of its project when it looked for leftovers
  before,   \* the identity of the protected volumes when it began
  result,
  calls, troubles

docker == <<box, db, net, vol, facts>>
probe  == <<job, pc, at, mind, runner, swept, seen, before, result>>
bounds == <<calls, troubles>>
vars   == <<docker, ident, probe, bounds>>

Gone == [st |-> "none", run |-> "none"]

\* What earlier probes left in the protected volume, if there is one.
Histories == {{}, {"schema", "marker"}}

Init ==
  /\ box = {} /\ net = {}
  /\ db = [x \in Projects |-> Gone]
  /\ \E had \in Histories :
       /\ vol = IF had = {} THEN {} ELSE {"kept"}
       /\ facts = [x \in Projects |-> IF x = "kept" THEN had ELSE {}]
  /\ ident = 0
  /\ job = [p \in Procs |-> "runtime"]
  /\ pc = [p \in Procs |-> "done"]
  /\ at = [p \in Procs |-> 1]
  /\ mind = [p \in Procs |-> "ok"]
  /\ runner = [p \in Procs |-> "none"]
  /\ swept = [p \in Procs |-> TRUE]
  /\ seen = [p \in Procs |-> {}]
  /\ before = [p \in Procs |-> 0]
  /\ result = [p \in Procs |-> "none"]
  /\ calls = 0 /\ troubles = 0

Now(p)   == Plan(job[p])[at[p]]
Where(p) == Project(job[p])
Healthy(p) == db[Where(p)].st = "healthy"
Box(p, n)  == [job |-> job[p], name |-> n, by |-> p]
Free(p, n) == \A b \in box : ~(b.job = job[p] /\ b.name = n)

\* Names are matched as substrings: the name of "kept" begins that of "scratch".
Listed(x) == IF x = "kept" THEN {"kept", "scratch"} ELSE {x}
Containers(x) ==
  \/ \E b \in box : Project(b.job) \in Listed(x)
  \/ \E y \in Listed(x) : db[y].st # "none"

Existing(x) ==
  {<<"box", b>> : b \in {c \in box : Project(c.job) = x}}
    \cup {<<"net", y>> : y \in net \cap {x}} \cup {<<"vol", y>> : y \in vol \cap {x}}
    \cup {<<"db", y>> : y \in {y \in {x} : db[y].st # "none"}}

-----------------------------------------------------------------------------
Knowledge == <<at, mind, runner, swept, seen, before>>
Finish(p, r) ==
  /\ pc' = [pc EXCEPT ![p] = "done"]
  /\ result' = [result EXCEPT ![p] = r]
  /\ at' = [at EXCEPT ![p] = 1] /\ mind' = [mind EXCEPT ![p] = "ok"]
  /\ runner' = [runner EXCEPT ![p] = "none"] /\ swept' = [swept EXCEPT ![p] = TRUE]
  /\ seen' = [seen EXCEPT ![p] = {}] /\ before' = [before EXCEPT ![p] = 0]
Enter(p, where) == pc' = [pc EXCEPT ![p] = where] /\ UNCHANGED result

\* The locks are read before anything is looked at; those of the disposable
\* projects name the protected volumes, which have to be there.
Begin(p, j) ==
  /\ pc[p] = "done"
  /\ job' = [job EXCEPT ![p] = j]
  /\ IF j \in Kept \/ "kept" \in vol
     THEN /\ pc' = [pc EXCEPT ![p] = "look"]
          /\ before' = [before EXCEPT ![p] = ident]
          /\ result' = [result EXCEPT ![p] = "none"]
          /\ UNCHANGED <<at, mind, runner, swept, seen>>
     ELSE Finish(p, "error")
  /\ UNCHANGED <<docker, ident, troubles>>

Call(p, j) == calls < MaxCalls /\ calls' = calls + 1 /\ Begin(p, j)

StaleVolume(j) ==
  CASE j = "runtime"    -> FALSE
    [] j \in Kept       -> "kept" \notin vol
    [] OTHER            -> Project(j) \in vol
\* Mutant of Stale: the look for leftovers asks for the volume only.
StaleVolumeOnly(j) == StaleVolume(j)

Stale(j) == Containers(Project(j)) \/ Project(j) \in net \/ StaleVolume(j)

Look(p) ==
  /\ pc[p] = "look"
  /\ IF Stale(job[p])
     THEN Finish(p, "stale")
     ELSE /\ Enter(p, "work")
          /\ seen' = [seen EXCEPT ![p] = Existing(Where(p))]
          /\ UNCHANGED <<at, mind, runner, swept, before>>
  /\ UNCHANGED <<docker, ident, job, bounds>>

-----------------------------------------------------------------------------
(* Steps of a plan.                                                        *)

Working(p, ops) ==
  pc[p] = "work" /\ mind[p] # "raised" /\ at[p] <= Len(Plan(job[p])) /\ Now(p).op \in ops

Go(p, m) ==
  /\ at' = [at EXCEPT ![p] = @ + 1]
  /\ mind' = [mind EXCEPT ![p] = m]
  /\ UNCHANGED <<ident, job, pc, runner, swept, seen, before, result, bounds>>
Raise(p) ==
  /\ mind' = [mind EXCEPT ![p] = "raised"]
  /\ UNCHANGED <<ident, job, pc, at, runner, swept, seen, before, result, bounds>>

Judge(p, passed) == IF passed THEN mind[p] ELSE "bad"

RunOf(j) ==
  CASE j \in Kept -> "kept" [] j = "reliability" -> "2222"
    [] j \in {"journal", "recovery"} -> "4444" [] OTHER -> "vault"

\* Compose adopts the database container it finds, starts it, and replaces
\* one that carries the labels of another run.
ComposeUp(p) ==
  /\ Working(p, {"up"})
  /\ net' = net \cup {Where(p)} /\ vol' = vol \cup {Where(p)}
  /\ db' = IF Healthy(p) /\ db[Where(p)].run = RunOf(job[p]) THEN db
           ELSE [db EXCEPT ![Where(p)] = [st |-> "starting", run |-> RunOf(job[p])]]
  /\ Go(p, mind[p])
  /\ UNCHANGED <<box, facts>>

CreateUp(p) ==
  /\ Working(p, {"create"})
  /\ IF Where(p) \in net \/ db[Where(p)].st # "none"
     THEN Raise(p) /\ UNCHANGED docker
     ELSE /\ net' = net \cup {Where(p)} /\ vol' = vol \cup {Where(p)}
          /\ db' = [db EXCEPT ![Where(p)] = [st |-> "starting", run |-> RunOf(job[p])]]
          /\ Go(p, mind[p])
          /\ UNCHANGED <<box, facts>>

\* The wait ends when the database is healthy, or when it has lasted 90 s
\* or the container is not there to be inspected.
AwaitHealth(p) ==
  /\ Working(p, {"wait"})
  /\ IF Healthy(p) THEN Go(p, mind[p]) ELSE Raise(p)
  /\ UNCHANGED docker

StopOrRestart(p) ==
  /\ Working(p, {"stop", "restart"})
  /\ IF db[Where(p)].st = "none"
     THEN Raise(p) /\ UNCHANGED docker
     ELSE /\ db' = [db EXCEPT ![Where(p)].st = IF Now(p).op = "stop" THEN "stopped" ELSE "starting"]
          /\ Go(p, mind[p])
          /\ UNCHANGED <<box, net, vol, facts>>

\* Queries on the protected volume ask for their own rows; those on the
\* disposable one compare all of them.
Matches(p) ==
  IF job[p] \in Kept THEN Now(p).facts \subseteq facts["kept"]
  ELSE facts["scratch"] \cap Rows = Now(p).facts

\* A container that has to succeed: a migration, a query, a query to be stopped.
Launch(p) ==
  /\ Working(p, {"run", "find", "cancel"})
  /\ LET n == Now(p).name
         works == Free(p, n) /\ (Healthy(p) \/ job[p] = "runtime")
     IN /\ box' = IF Free(p, n) THEN box \cup {Box(p, n)} ELSE box
        /\ net' = IF Free(p, n) THEN net \cup {Where(p)} ELSE net
        /\ facts' = IF works /\ Now(p).op = "run"
                    THEN [facts EXCEPT ![Where(p)] = @ \cup Now(p).facts] ELSE facts
        /\ IF works THEN Go(p, Judge(p, Now(p).op = "find" => Matches(p))) ELSE Raise(p)
  /\ UNCHANGED <<db, vol>>

\* docker run: a container of the project's name that Compose does not know.
Detach(p) ==
  /\ Working(p, {"spawn"})
  /\ IF Free(p, Now(p).name)
     THEN box' = box \cup {Box(p, Now(p).name)} /\ Go(p, mind[p])
     ELSE Raise(p) /\ UNCHANGED box
  /\ UNCHANGED <<db, net, vol, facts>>

RemoveCreated(p) ==
  /\ Working(p, {"remove"})
  /\ box' = {b \in box : ~(b.by = p /\ b.job = job[p])}
  /\ Go(p, mind[p])
  /\ UNCHANGED <<db, net, vol, facts>>

\* A vector that is in the table already is replayed, which the probe refuses.
AppendVectors(p) ==
  /\ Working(p, {"record"})
  /\ IF Healthy(p) /\ Now(p).facts \cap facts[Where(p)] = {}
     THEN /\ facts' = [facts EXCEPT ![Where(p)] = @ \cup Now(p).facts]
          /\ Go(p, mind[p])
     ELSE Raise(p) /\ UNCHANGED facts
  /\ UNCHANGED <<box, db, net, vol>>

\* run events asks every running database with the label of the contract.
StreamWorks(p) ==
  /\ Healthy(p) /\ Now(p).facts \subseteq facts[Where(p)]
  /\ \A x \in {"kept", "scratch"} :
       db[x].st \in {"starting", "healthy"} => db[x].st = "healthy" /\ "schema" \in facts[x]

Inspect(p) ==
  /\ Working(p, {"stream", "count", "sole"})
  /\ Go(p, Judge(p,
       CASE Now(p).op = "stream" -> StreamWorks(p)
         [] Now(p).op = "count"  -> Healthy(p) /\ facts[Where(p)] \cap Journals = Now(p).facts
         [] Now(p).op = "sole"   -> box \cap {b \in box : Project(b.job) = Where(p)} = {}
                                      /\ db[Where(p)].st # "none"))
  /\ UNCHANGED docker

-----------------------------------------------------------------------------
(* An application container: the runner connects, stores its row, hears    *)
(* that it is stored and writes its result file; the probe waits for it.   *)

StartRunner(p) ==
  /\ Working(p, {"app"}) /\ runner[p] = "none"
  /\ runner' = [runner EXCEPT ![p] = IF Free(p, Now(p).name) THEN "started" ELSE "failed"]
  /\ box' = IF Free(p, Now(p).name) THEN box \cup {Box(p, Now(p).name)} ELSE box
  /\ net' = net \cup {Where(p)}
  /\ UNCHANGED <<db, vol, facts, ident, job, pc, at, mind, swept, seen, before, result, bounds>>

Alive(p) == Box(p, Now(p).name) \in box
RunnerStep(p, from, to) ==
  /\ Working(p, {"app"}) /\ runner[p] = from /\ Alive(p)
  /\ runner' = [runner EXCEPT ![p] = to]
  /\ UNCHANGED <<box, db, net, vol, ident, job, pc, at, mind, swept, seen, before, result, bounds>>

RunnerStores(p) ==
  /\ Healthy(p) /\ "schema" \in facts[Where(p)]
  /\ RunnerStep(p, "started", "stored")
  /\ facts' = [facts EXCEPT ![Where(p)] = @ \cup Now(p).facts]
RunnerWrites(p) == Healthy(p) /\ RunnerStep(p, "stored", "written") /\ UNCHANGED facts

\* Mutant of RunnerFails: without a deadline, a connection is tried for ever.
RunnerFailsKilled(p) ==
  /\ Working(p, {"app"}) /\ runner[p] \in {"started", "stored"}
  /\ ~Alive(p)
  /\ runner' = [runner EXCEPT ![p] = "failed"]
  /\ UNCHANGED <<docker, ident, job, pc, at, mind, swept, seen, before, result, bounds>>

\* The connection is refused or lost, or the container is killed.
RunnerFails(p) ==
  /\ Working(p, {"app"}) /\ runner[p] \in {"started", "stored"}
  /\ ~Alive(p) \/ ~Healthy(p) \/ "schema" \notin facts[Where(p)]
  /\ runner' = [runner EXCEPT ![p] = "failed"]
  /\ UNCHANGED <<docker, ident, job, pc, at, mind, swept, seen, before, result, bounds>>

\* The exit and the result file are judged; the container has to be there.
JudgeRunner(p) ==
  /\ Working(p, {"app"}) /\ runner[p] \in {"written", "failed"}
  /\ runner' = [runner EXCEPT ![p] = "none"]
  /\ IF Alive(p)
     THEN /\ at' = [at EXCEPT ![p] = @ + 1]
          /\ mind' = [mind EXCEPT ![p] = Judge(p, runner[p] = "written")]
     ELSE mind' = [mind EXCEPT ![p] = "raised"] /\ UNCHANGED at
  /\ UNCHANGED <<docker, ident, job, pc, swept, seen, before, result, bounds>>

\* A runner that has to fail: of an invalid request, or without a database.
\* One that finds the database up again stores its row after all.
RunRefused(p) ==
  /\ Working(p, {"refused", "outage"})
  /\ LET free == Free(p, Now(p).name)
         succeeds == free /\ Now(p).op = "outage" /\ Healthy(p) /\ "schema" \in facts[Where(p)]
     IN /\ box' = IF free THEN box \cup {Box(p, Now(p).name)} ELSE box
        /\ facts' = IF succeeds THEN [facts EXCEPT ![Where(p)] = @ \cup Now(p).facts] ELSE facts
        /\ Go(p, Judge(p, free /\ ~succeeds))
  /\ net' = net \cup {Where(p)}
  /\ UNCHANGED <<db, vol>>

-----------------------------------------------------------------------------
(* The end: a finally block, then a look at what is left.                  *)

Trouble == troubles < MaxTroubles /\ troubles' = troubles + 1
Over(p) == pc[p] = "work" /\ (mind[p] = "raised" \/ at[p] > Len(Plan(job[p])))
Mine(p) == {b \in box : b.job = job[p]}

\* docker rm -f of the fixed names, whoever made them; failures are ignored,
\* but the recovery and backup probes have a timeout there that is not caught.
Sweep(p) ==
  /\ Over(p)
  /\ box' = box \ Mine(p)
  /\ Enter(p, "down")
  /\ UNCHANGED <<db, net, vol, facts, ident, job, Knowledge, bounds>>

SweepFails(p) ==
  /\ Over(p) /\ Trouble
  /\ \E rest \in SUBSET Mine(p) : rest # {} /\ box' = box \ (Mine(p) \ rest)
  /\ \/ /\ Enter(p, "down")
        /\ swept' = [swept EXCEPT ![p] = FALSE]
        /\ UNCHANGED <<at, mind, runner, seen, before>>
     \/ job[p] \in {"recovery", "backup"} /\ Finish(p, "error")
  /\ UNCHANGED <<db, net, vol, facts, ident, job, calls>>

\* compose down takes the containers of its project, orphans too, but not
\* those of docker run; --volumes is given by the disposable projects.  The
\* backup probe removes its database, networks and volumes by name.
Takes(p) == {b \in box : Project(b.job) = Where(p) /\ b.name \notin {"active", "failed"}
                           /\ job[p] # "backup"}
\* Mutant of DropsVolume: the database probe gives --volumes, too.
DropsDatabaseVolume(j) == j \notin Kept \/ j = "database"

DropsVolume(j) == j \notin Kept

Leave(p, clean) ==
  IF mind[p] = "raised" THEN Finish(p, "error")
  ELSE /\ Enter(p, "list")
       /\ swept' = [swept EXCEPT ![p] = @ /\ clean]
       /\ UNCHANGED <<at, mind, runner, seen, before>>

Down(p) ==
  /\ pc[p] = "down"
  /\ box' = box \ Takes(p)
  /\ db' = [db EXCEPT ![Where(p)] = Gone]
  /\ net' = IF job[p] = "backup" /\ ~Free(p, "fence") THEN net ELSE net \ {Where(p)}
  /\ IF DropsVolume(job[p])
     THEN vol' = vol \ {Where(p)} /\ facts' = [facts EXCEPT ![Where(p)] = {}]
     ELSE UNCHANGED <<vol, facts>>
  /\ Leave(p, TRUE)
  /\ UNCHANGED <<ident, job, bounds>>

\* The command fails, or, where it has a timeout, raises out of the block.
DownFails(p) ==
  /\ pc[p] = "down" /\ Trouble
  /\ \/ Leave(p, FALSE)
     \/ job[p] \notin Kept /\ Finish(p, "error")
  /\ UNCHANGED <<docker, ident, job, calls>>

KeptTornDown(p) == ~Containers("kept") /\ "kept" \notin net /\ "kept" \in vol
\* Mutant of OwnTornDown: neither failed removals nor containers are noticed.
OwnNamesGone(p) == Where(p) \notin net /\ Where(p) \notin vol

OwnTornDown(p) ==
  /\ swept[p] \/ job[p] = "backup"
  /\ ~Containers(Where(p)) /\ Where(p) \notin net /\ Where(p) \notin vol
CustodyKept(p) == "kept" \in vol /\ (job[p] = "reliability" \/ ident = before[p])

List(p) ==
  /\ pc[p] = "list"
  /\ Finish(p, IF ~(IF job[p] \in Kept THEN KeptTornDown(p) ELSE OwnTornDown(p) /\ CustodyKept(p))
               THEN "error" ELSE IF mind[p] = "ok" THEN "PASS" ELSE "FAIL")
  /\ UNCHANGED <<docker, ident, job, bounds>>

-----------------------------------------------------------------------------
(* What happens to a probe.                                                *)

\* A docker command fails, or what it shows is not what was expected.
Fault(p) ==
  /\ pc[p] = "work" /\ mind[p] = "ok" /\ Trouble
  /\ \E m \in {"bad", "raised"} : mind' = [mind EXCEPT ![p] = m]
  /\ UNCHANGED <<docker, ident, job, pc, at, runner, swept, seen, before, result, calls>>

Die(p) ==
  /\ pc[p] # "done" /\ Trouble
  /\ Finish(p, "dead")
  /\ UNCHANGED <<docker, ident, job, calls>>

BecomeHealthy(x) ==
  /\ db[x].st = "starting"
  /\ db' = [db EXCEPT ![x].st = "healthy"]
  /\ UNCHANGED <<box, net, vol, facts, ident, probe, bounds>>

Replace ==
  /\ "kept" \in vol /\ Trouble
  /\ ident' = ident + 1
  /\ UNCHANGED <<docker, probe, calls>>

Act(p) ==
  \/ Look(p) \/ ComposeUp(p) \/ CreateUp(p) \/ AwaitHealth(p) \/ StopOrRestart(p)
  \/ Launch(p) \/ Detach(p) \/ RemoveCreated(p) \/ AppendVectors(p) \/ Inspect(p)
  \/ StartRunner(p) \/ RunnerStores(p) \/ RunnerWrites(p) \/ RunnerFails(p)
  \/ JudgeRunner(p) \/ RunRefused(p) \/ Sweep(p) \/ Down(p) \/ List(p)

Mishap(p) == Fault(p) \/ SweepFails(p) \/ DownFails(p) \/ Die(p)
Elsewhere == Replace \/ \E x \in Projects : BecomeHealthy(x)

Next ==
  \/ \E p \in Procs : Act(p) \/ Mishap(p) \/ \E j \in Jobs[p] : Call(p, j)
  \/ Elsewhere

Spec == Init /\ [][Next]_vars /\ WF_vars(\E p \in Procs : Act(p))

-----------------------------------------------------------------------------
TypeOK ==
  /\ box \subseteq [job : Surface, name : STRING, by : Procs]
  /\ db \in [Projects -> [st : {"none", "starting", "healthy", "stopped"},
                           run : {"none", "kept", "2222", "4444", "vault"}]]
  /\ net \subseteq Projects /\ vol \subseteq Projects
  /\ facts \in [Projects -> SUBSET Facts]
  /\ ident \in 0 .. MaxTroubles /\ before \in [Procs -> 0 .. MaxTroubles]
  /\ job \in [Procs -> Surface]
  /\ pc \in [Procs -> {"look", "work", "down", "list", "done"}]
  /\ mind \in [Procs -> {"ok", "bad", "raised"}]
  /\ result \in [Procs -> {"none", "PASS", "FAIL", "stale", "error", "dead"}]

\* A probe that reports a verdict has left no container behind, whatever
\* failed on its way and whoever ran beside it (database.py:320).
VerdictMeansClean ==
  \A p \in Procs : pc[p] = "done" /\ result[p] \in {"PASS", "FAIL"} =>
    ~ \E b \in box : b.by = p /\ b.job = job[p]

\* What a probe on the protected volume passed for is in that volume, and
\* stays there whatever other probes do (python_surface.py:222, node_surface.py:229).
Claims(j) ==
  CASE j = "database" -> {"schema", "marker"}
    [] j = "python"   -> {"schema", "python"}
    [] j = "node"     -> {"schema", "node", "python"}
    [] OTHER          -> {}
PassIsStored ==
  \A p \in Procs : pc[p] = "done" /\ result[p] = "PASS" =>
    Claims(job[p]) \subseteq facts["kept"]

\* Nothing that a probe found when it looked for leftovers is removed by it:
\* what a dead probe left is reported, never cleared away
\* (reliability_surface.py:199).
FoundIsKept ==
  [][\A p \in Procs :
       <<pc[p], at[p], mind[p]>> # <<pc'[p], at'[p], mind'[p]>> =>
         seen[p] \subseteq Existing(Where(p))']_vars
=============================================================================
