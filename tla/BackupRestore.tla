---------------------------- MODULE BackupRestore ----------------------------
(***************************************************************************)
(* The backup probe in detail: a source database is made, measured, fenced *)
(* against writes and dumped; the archive is restored into a target, which *)
(* is measured, restarted and measured again; all of it is removed.  Every *)
(* name is fixed, so that two probes at once work on the same containers,  *)
(* networks and volumes, and the one that fails removes the other's.       *)
(*                                                                         *)
(* A database holds rows: the schema, the journal, the results, and stray  *)
(* results that another session writes when no lock keeps it out.          *)
(***************************************************************************)
EXTENDS Naturals, Sequences

CONSTANTS Procs,        \* calls of the probe at once
          MaxCalls,     \* calls in a behaviour
          MaxTroubles   \* commands that fail or time out, changed archives, deaths

ASSUME BoundsAssumption == MaxCalls \in Nat /\ MaxTroubles \in Nat

Sides == {"source", "target"}
Rows  == {"schema", "journal", "results", "stray"}
Seed  == {"journal", "results"}

\* The containers, and the network each is on.
NetOf == [source |-> "source", sourceMigration |-> "source", fence |-> "source",
          dump |-> "source", toc |-> "none", target |-> "target",
          restore |-> "target", targetMigration |-> "target"]
Names == DOMAIN NetOf

Plan == <<
  <<"network", "source">>, <<"volume", "source">>, <<"database", "source">>,
  <<"start", "source">>, <<"migrate", "source">>, <<"seed", "source">>,
  <<"measure", "source">>, <<"fence", "source">>, <<"blocked", "source">>,
  <<"dump", "source">>, <<"release", "source">>, <<"inspect", "source">>,
  <<"network", "target">>, <<"volume", "target">>, <<"database", "target">>,
  <<"start", "target">>, <<"empty", "target">>, <<"recheck", "target">>,
  <<"restore", "target">>, <<"migrate", "target">>, <<"compare", "target">>,
  <<"denied", "target">>, <<"restart", "target">>, <<"compare", "target">> >>

VARIABLES
  box, net, vol,  \* what exists, by name and maker
  up,             \* the sides whose database runs
  rows,           \* what the volume of each side holds
  fenced,         \* the lock on the source is held
  pc, at,         \* where each probe is, and the step of the plan
  failed,         \* an exception is on its way
  archive,        \* the archive in the probe's temporary directory
  digest,         \* the archive whose digest was taken
  measured, restored,
  result,
  calls, troubles

docker == <<box, net, vol, up, rows, fenced>>
probe  == <<pc, at, failed, archive, digest, measured, restored, result>>
vars   == <<docker, probe, calls, troubles>>

Init ==
  /\ box = {} /\ net = {} /\ vol = {} /\ up = {} /\ fenced = FALSE
  /\ rows = [s \in Sides |-> {}]
  /\ pc = [p \in Procs |-> "done"]
  /\ at = [p \in Procs |-> 1]
  /\ failed = [p \in Procs |-> FALSE]
  /\ archive = [p \in Procs |-> {}]
  /\ digest = [p \in Procs |-> {}]
  /\ measured = [p \in Procs |-> {}]
  /\ restored = [p \in Procs |-> {}]
  /\ result = [p \in Procs |-> "none"]
  /\ calls = 0 /\ troubles = 0

Exists(n)    == \E b \in box : b.name = n
HasNet(s)    == \E m \in net : m.side = s
HasVol(s)    == \E v \in vol : v.side = s
Made(p, s)   == [side |-> s, by |-> p]
Boxed(p, n)  == [name |-> n, by |-> p]
Trouble      == troubles < MaxTroubles /\ troubles' = troubles + 1

-----------------------------------------------------------------------------
Memory == <<at, failed, archive, digest, measured, restored>>

\* The temporary directory goes with the call; a verdict of PASS publishes
\* what was measured.
Finish(p, r) ==
  /\ pc' = [pc EXCEPT ![p] = "done"]
  /\ result' = [result EXCEPT ![p] = r]
  /\ at' = [at EXCEPT ![p] = 1] /\ failed' = [failed EXCEPT ![p] = FALSE]
  /\ archive' = [archive EXCEPT ![p] = {}] /\ digest' = [digest EXCEPT ![p] = {}]
  /\ measured' = [measured EXCEPT ![p] = IF r = "PASS" THEN @ ELSE {}]
  /\ restored' = [restored EXCEPT ![p] = IF r = "PASS" THEN @ ELSE {}]

Begin(p) ==
  /\ pc[p] = "done" /\ calls < MaxCalls
  /\ calls' = calls + 1
  /\ pc' = [pc EXCEPT ![p] = "look"]
  /\ result' = [result EXCEPT ![p] = "none"]
  /\ measured' = [measured EXCEPT ![p] = {}] /\ restored' = [restored EXCEPT ![p] = {}]
  /\ UNCHANGED <<docker, at, failed, archive, digest, troubles>>

Look(p) ==
  /\ pc[p] = "look"
  /\ IF box \cup net \cup vol # {}
     THEN Finish(p, "stale")
     ELSE pc' = [pc EXCEPT ![p] = "work"] /\ UNCHANGED <<Memory, result>>
  /\ UNCHANGED <<docker, calls, troubles>>

-----------------------------------------------------------------------------
(* A step of the plan either is carried out or raises; an exception leads  *)
(* to the finally block.                                                   *)

At(p, op, s) == pc[p] = "work" /\ Plan[at[p]] = <<op, s>>

Raise(p) ==
  /\ pc' = [pc EXCEPT ![p] = "boxes"] /\ failed' = [failed EXCEPT ![p] = TRUE]
  /\ UNCHANGED <<at, archive, digest, measured, restored, result, calls, troubles>>
Goes(p) ==
  /\ IF at[p] = Len(Plan) THEN pc' = [pc EXCEPT ![p] = "boxes"] /\ UNCHANGED at
     ELSE at' = [at EXCEPT ![p] = @ + 1] /\ UNCHANGED pc
  /\ UNCHANGED <<failed, result, calls, troubles>>
Go(p) == Goes(p) /\ UNCHANGED <<archive, digest, measured, restored>>

\* A container that is created, run and removed: its name has to be free and
\* its network there.  One that fails stays for the finally block.
CanCreate(n) == ~Exists(n) /\ (NetOf[n] \in Sides => HasNet(NetOf[n]))
Left(p, n) == box' = IF CanCreate(n) THEN box \cup {Boxed(p, n)} ELSE box

CreateNetwork(p, s) ==
  /\ At(p, "network", s)
  /\ IF HasNet(s) THEN Raise(p) /\ UNCHANGED net
     ELSE net' = net \cup {Made(p, s)} /\ Go(p)
  /\ UNCHANGED <<box, vol, up, rows, fenced>>

\* A volume that exists already is taken for the new one.
CreateVolume(p, s) ==
  /\ At(p, "volume", s)
  /\ vol' = IF HasVol(s) THEN vol ELSE vol \cup {Made(p, s)}
  /\ Go(p)
  /\ UNCHANGED <<box, net, up, rows, fenced>>

CreateDatabase(p, s) ==
  /\ At(p, "database", s)
  /\ IF CanCreate(s)
     THEN /\ box' = box \cup {Boxed(p, s)}
          /\ vol' = IF HasVol(s) THEN vol ELSE vol \cup {Made(p, s)}
          /\ Go(p)
     ELSE Raise(p) /\ UNCHANGED <<box, vol>>
  /\ UNCHANGED <<net, up, rows, fenced>>

StartDatabase(p, s) ==
  /\ At(p, "start", s) \/ At(p, "restart", s)
  /\ IF Exists(s) THEN up' = up \cup {s} /\ Go(p) ELSE Raise(p) /\ UNCHANGED up
  /\ UNCHANGED <<box, net, vol, rows, fenced>>

RunMigration(p, s) ==
  /\ At(p, "migrate", s)
  /\ LET n == IF s = "source" THEN "sourceMigration" ELSE "targetMigration"
     IN IF CanCreate(n) /\ s \in up
        THEN rows' = [rows EXCEPT ![s] = @ \cup {"schema"}] /\ Go(p) /\ UNCHANGED box
        ELSE Left(p, n) /\ Raise(p) /\ UNCHANGED rows
  /\ UNCHANGED <<net, vol, up, fenced>>

SeedSource(p) ==
  /\ At(p, "seed", "source")
  /\ IF "source" \in up /\ rows["source"] \cap Seed = {} /\ "schema" \in rows["source"]
     THEN rows' = [rows EXCEPT !["source"] = @ \cup Seed] /\ Go(p)
     ELSE Raise(p) /\ UNCHANGED rows
  /\ UNCHANGED <<box, net, vol, up, fenced>>

-----------------------------------------------------------------------------
\* Mutant of Digests: the results are not measured.
DigestsWithoutResults(c) ==
  [schema |-> c \cap {"schema"}, journal |-> c \cap {"journal"}, results |-> {}]

\* What the digests of a measured state tell apart.
Digests(c) == [schema |-> c \cap {"schema"}, journal |-> c \cap {"journal"},
               results |-> c \cap {"results", "stray"}]

MeasureSource(p) ==
  /\ At(p, "measure", "source")
  /\ IF "source" \in up /\ rows["source"] = Seed \cup {"schema"}
     THEN measured' = [measured EXCEPT ![p] = rows["source"]] /\ Goes(p)
          /\ UNCHANGED <<archive, digest, restored>>
     ELSE Raise(p)
  /\ UNCHANGED docker

\* A session that holds a share lock and sleeps; the probe waits until it is
\* seen active.
StartFence(p) ==
  /\ At(p, "fence", "source")
  /\ IF CanCreate("fence") /\ "source" \in up
     THEN box' = box \cup {Boxed(p, "fence")} /\ fenced' = TRUE /\ Go(p)
     ELSE Left(p, "fence") /\ Raise(p) /\ UNCHANGED fenced
  /\ UNCHANGED <<net, vol, up, rows>>

\* The sleep is over: the lock is gone, the container stays.
FenceLapses == fenced /\ fenced' = FALSE /\ UNCHANGED <<box, net, vol, up, rows, probe, calls, troubles>>

\* A write that has to run into its timeout; without the lock it is stored.
CheckBlocked(p) ==
  /\ At(p, "blocked", "source")
  /\ IF fenced THEN Go(p) /\ UNCHANGED rows
     ELSE /\ rows' = IF "source" \in up THEN [rows EXCEPT !["source"] = @ \cup {"stray"}] ELSE rows
          /\ Raise(p)
  /\ UNCHANGED <<box, net, vol, up, fenced>>

DumpSource(p) ==
  /\ At(p, "dump", "source")
  /\ IF CanCreate("dump") /\ "source" \in up
     THEN /\ archive' = [archive EXCEPT ![p] = rows["source"]]
          /\ digest' = [digest EXCEPT ![p] = rows["source"]]
          /\ Goes(p) /\ UNCHANGED <<box, measured, restored>>
     ELSE Left(p, "dump") /\ Raise(p)
  /\ UNCHANGED <<net, vol, up, rows, fenced>>

ReleaseFence(p) ==
  /\ At(p, "release", "source")
  /\ box' = {b \in box : b.name # "fence"} /\ fenced' = FALSE
  /\ Go(p)
  /\ UNCHANGED <<net, vol, up, rows>>

InspectArchive(p) ==
  /\ At(p, "inspect", "source")
  /\ IF CanCreate("toc") /\ "schema" \in archive[p] THEN Go(p) /\ UNCHANGED box
     ELSE Left(p, "toc") /\ Raise(p)
  /\ UNCHANGED <<net, vol, up, rows, fenced>>

RequireEmpty(p) ==
  /\ At(p, "empty", "target")
  /\ IF "target" \in up /\ rows["target"] = {} THEN Go(p) ELSE Raise(p)
  /\ UNCHANGED docker

CheckArchive(p) ==
  /\ At(p, "recheck", "target")
  /\ IF archive[p] = digest[p] THEN Go(p) ELSE Raise(p)
  /\ UNCHANGED docker

\* In one transaction, into a database without the objects of the archive.
Restore(p) ==
  /\ At(p, "restore", "target")
  /\ IF CanCreate("restore") /\ "target" \in up /\ rows["target"] = {}
     THEN rows' = [rows EXCEPT !["target"] = archive[p]] /\ Go(p) /\ UNCHANGED box
     ELSE Left(p, "restore") /\ Raise(p) /\ UNCHANGED rows
  /\ UNCHANGED <<net, vol, up, fenced>>

\* After the restore the target is compared with the source as it was
\* measured, after the restart with what was restored.
Compare(p) ==
  /\ At(p, "compare", "target")
  /\ LET against == IF at[p] = Len(Plan) THEN restored[p] ELSE measured[p]
     IN IF "target" \in up /\ Digests(rows["target"]) = Digests(against)
        THEN restored' = [restored EXCEPT ![p] = rows["target"]] /\ Goes(p)
             /\ UNCHANGED <<archive, digest, measured>>
        ELSE Raise(p)
  /\ UNCHANGED docker

\* The runner's forbidden statements have to be denied by a database that runs.
CheckDenied(p) ==
  /\ At(p, "denied", "target")
  /\ IF "target" \in up THEN Go(p) ELSE Raise(p)
  /\ UNCHANGED docker

-----------------------------------------------------------------------------
(* The finally block: containers, then networks, then volumes, by name and *)
(* in any order.  A command that fails is ignored, one that times out      *)
(* raises and the rest is left; the network of a running container and the *)
(* volume of any container stay.                                           *)

InUse(s)    == s \in up \/ (s = "source" /\ fenced)
Mounted(s)  == Exists(s)
Next3 == [boxes |-> "nets", nets |-> "vols", vols |-> "list"]

Removal(p, nets, vols) ==
  /\ net' = {m \in net : m.side \notin nets \/ InUse(m.side)}
  /\ vol' = {v \in vol : v.side \notin vols \/ Mounted(v.side)}
  /\ rows' = [s \in Sides |-> IF \E v \in vol' : v.side = s THEN rows[s] ELSE {}]
  /\ UNCHANGED <<box, up, fenced>>

RemoveBoxes(names) ==
  /\ box' = {b \in box : b.name \notin names}
  /\ up' = up \ names
  /\ fenced' = (fenced /\ names \cap {"fence", "source"} = {})
  /\ UNCHANGED <<net, vol, rows>>

Swept(p, some) ==
  CASE pc[p] = "boxes" -> RemoveBoxes(some)
    [] pc[p] = "nets"  -> Removal(p, some, {})
    [] pc[p] = "vols"  -> Removal(p, {}, some)
All(p) ==
  CASE pc[p] = "boxes" -> {b.name : b \in box}
    [] pc[p] = "nets"  -> {m.side : m \in net}
    [] pc[p] = "vols"  -> {v.side : v \in vol}

Sweep(p) ==
  /\ pc[p] \in DOMAIN Next3
  /\ Swept(p, All(p))
  /\ pc' = [pc EXCEPT ![p] = Next3[pc[p]]]
  /\ UNCHANGED <<Memory, result, calls, troubles>>

SweepFails(p) ==
  /\ pc[p] \in DOMAIN Next3 /\ Trouble
  /\ \E one \in All(p) :
       \/ /\ Swept(p, All(p) \ {one})
          /\ pc' = [pc EXCEPT ![p] = Next3[pc[p]]] /\ UNCHANGED <<Memory, result>>
       \/ \E some \in SUBSET (All(p) \ {one}) : Swept(p, some) /\ Finish(p, "error")
  /\ UNCHANGED calls

\* Mutant of Remains: only containers are looked up.
RemainsBoxes == box # {}

\* What is left is looked up, by label and by name.
Remains == box # {} \/ net # {} \/ vol # {}

\* The receipt states the measurements and is validated once more.
Publish(p) ==
  /\ pc[p] = "list"
  /\ Finish(p, IF ~failed[p] /\ ~Remains /\ Digests(restored[p]) = Digests(measured[p])
               THEN "PASS" ELSE "error")
  /\ UNCHANGED <<docker, calls, troubles>>

-----------------------------------------------------------------------------
Fault(p) ==
  /\ pc[p] = "work" /\ Trouble
  /\ pc' = [pc EXCEPT ![p] = "boxes"] /\ failed' = [failed EXCEPT ![p] = TRUE]
  /\ UNCHANGED <<docker, at, archive, digest, measured, restored, result, calls>>

Tamper(p) ==
  /\ pc[p] = "work" /\ archive[p] # {} /\ Trouble
  /\ archive' = [archive EXCEPT ![p] = @ \cup {"stray"}]
  /\ UNCHANGED <<docker, pc, at, failed, digest, measured, restored, result, calls>>

Die(p) ==
  /\ pc[p] # "done" /\ Trouble
  /\ Finish(p, "dead")
  /\ UNCHANGED <<docker, calls>>

\* Another session on the source database stores a row when no lock is held.
StrayWrite ==
  /\ "source" \in up /\ "results" \in rows["source"] /\ ~fenced
  /\ rows' = [rows EXCEPT !["source"] = @ \cup {"stray"}]
  /\ UNCHANGED <<box, net, vol, up, fenced, probe, calls, troubles>>

Act(p) ==
  \/ Look(p)
  \/ \E s \in Sides : \/ CreateNetwork(p, s) \/ CreateVolume(p, s) \/ CreateDatabase(p, s)
                      \/ StartDatabase(p, s) \/ RunMigration(p, s)
  \/ SeedSource(p) \/ MeasureSource(p) \/ StartFence(p) \/ CheckBlocked(p)
  \/ DumpSource(p) \/ ReleaseFence(p) \/ InspectArchive(p) \/ RequireEmpty(p)
  \/ CheckArchive(p) \/ Restore(p) \/ Compare(p) \/ CheckDenied(p)
  \/ Sweep(p) \/ Publish(p)

Next ==
  \/ \E p \in Procs : Begin(p) \/ Act(p) \/ SweepFails(p) \/ Fault(p) \/ Tamper(p) \/ Die(p)
  \/ FenceLapses \/ StrayWrite

Spec == Init /\ [][Next]_vars

-----------------------------------------------------------------------------
TypeOK ==
  /\ box \subseteq [name : Names, by : Procs]
  /\ net \subseteq [side : Sides, by : Procs] /\ vol \subseteq [side : Sides, by : Procs]
  /\ up \subseteq Sides /\ rows \in [Sides -> SUBSET Rows] /\ fenced \in BOOLEAN
  /\ pc \in [Procs -> {"done", "look", "work", "boxes", "nets", "vols", "list"}]
  /\ at \in [Procs -> 1 .. Len(Plan)] /\ failed \in [Procs -> BOOLEAN]
  /\ archive \in [Procs -> SUBSET Rows] /\ digest \in [Procs -> SUBSET Rows]
  /\ measured \in [Procs -> SUBSET Rows] /\ restored \in [Procs -> SUBSET Rows]
  /\ result \in [Procs -> {"none", "PASS", "stale", "error", "dead"}]

\* A receipt is issued only when the restored database held, before and after
\* its restart, exactly the rows the source was measured to hold, whoever
\* wrote to the source when the fence had lapsed, whoever changed the archive
\* after it was checked, and whatever another probe removed meanwhile.
RestoredIsMeasured ==
  \A p \in Procs : result[p] = "PASS" =>
    measured[p] = Seed \cup {"schema"} /\ restored[p] = measured[p]

\* The probe that passes has left nothing it made, although a container, a
\* network or a volume may fail to be removed, or be in use, without notice.
PassLeavesNothing ==
  \A p \in Procs : result[p] = "PASS" => \A x \in box \cup net \cup vol : x.by # p
=============================================================================
