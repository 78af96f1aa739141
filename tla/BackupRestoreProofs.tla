------------------------- MODULE BackupRestoreProofs -------------------------
(***************************************************************************)
(* Proofs about the backup probe, for any number of calls, mishaps and     *)
(* probes at once on the same fixed names.                                 *)
(*                                                                         *)
(* The argument: a step of a probe has one of seven forms.  It starts, or  *)
(* moves along the plan, or raises, or goes through the finally block, or  *)
(* ends without a verdict, or passes, or nothing of its memory changes.    *)
(* The plan is passed only by way of its seventh step, which measures the  *)
(* source and accepts one state, and only a probe that did not raise can   *)
(* pass.  So the measured state is that state, and equal digests tell that *)
(* the restored one is, too.                                               *)
(***************************************************************************)
EXTENDS BackupRestore, TLAPS

\* The two halves of the type invariant.
DockerOK ==
  /\ box \subseteq [name : Names, by : Procs]
  /\ net \subseteq [side : Sides, by : Procs] /\ vol \subseteq [side : Sides, by : Procs]
  /\ up \subseteq Sides /\ rows \in [Sides -> SUBSET Rows] /\ fenced \in BOOLEAN
ProbeOK ==
  /\ pc \in [Procs -> {"done", "look", "work", "boxes", "nets", "vols", "list"}]
  /\ at \in [Procs -> 1 .. Len(Plan)] /\ failed \in [Procs -> BOOLEAN]
  /\ archive \in [Procs -> SUBSET Rows] /\ digest \in [Procs -> SUBSET Rows]
  /\ measured \in [Procs -> SUBSET Rows] /\ restored \in [Procs -> SUBSET Rows]
  /\ result \in [Procs -> {"none", "PASS", "stale", "error", "dead"}]

\* The type invariant is the conjunction of its halves.
LEMMA Halves == (DockerOK /\ ProbeOK <=> TypeOK) /\ (DockerOK' /\ ProbeOK' => TypeOK')
BY DEF TypeOK, DockerOK, ProbeOK

\* The plan has 24 steps, the seventh of which measures the source.
LEMMA PlanFacts == Len(Plan) = 24 /\ Plan[7] = <<"measure", "source">>
BY DEF Plan

\* The digests of two states differ if the states do.
LEMMA DigestsSeparate ==
  ASSUME NEW c \in SUBSET Rows, NEW d \in SUBSET Rows, Digests(c) = Digests(d)
  PROVE  c = d
<1>1. /\ c \cap {"schema"} = d \cap {"schema"}
      /\ c \cap {"journal"} = d \cap {"journal"}
      /\ c \cap {"results", "stray"} = d \cap {"results", "stray"}
  BY DEF Digests
<1>2. QED BY <1>1 DEF Rows

\* The names, the sides and the rows that the actions write are of their types.
LEMMA Literals ==
  /\ \A s \in Sides : s \in Names
  /\ {"sourceMigration", "targetMigration", "fence", "dump", "toc", "restore"} \subseteq Names
  /\ "source" \in Sides /\ "target" \in Sides
  /\ {"schema"} \in SUBSET Rows /\ Seed \in SUBSET Rows /\ {"stray"} \in SUBSET Rows
BY DEF Names, NetOf, Sides, Rows, Seed

-----------------------------------------------------------------------------
\* A step along the plan, an exception and an end keep the types of what a
\* probe remembers.
LEMMA GoTyped ==
  ASSUME NEW p \in Procs, ProbeOK, Go(p)
  PROVE  ProbeOK'
BY PlanFacts DEF ProbeOK, Go, Goes
LEMMA RaiseTyped ==
  ASSUME NEW p \in Procs, ProbeOK, Raise(p)
  PROVE  ProbeOK'
BY DEF ProbeOK, Raise
LEMMA FinishTyped ==
  ASSUME NEW p \in Procs, ProbeOK, NEW r \in {"PASS", "stale", "error", "dead"}, Finish(p, r)
  PROVE  ProbeOK'
BY PlanFacts DEF ProbeOK, Finish
\* So does a step that stores a state in the archive or as a measurement.
LEMMA StoreTyped ==
  ASSUME NEW p \in Procs, ProbeOK, Goes(p),
         {archive', digest', measured', restored'} \subseteq [Procs -> SUBSET Rows]
  PROVE  ProbeOK'
BY PlanFacts DEF ProbeOK, Goes

\* A container that is left for the finally block is of its type.
LEMMA LeftTyped ==
  ASSUME NEW p \in Procs, NEW n \in Names, box \subseteq [name : Names, by : Procs], Left(p, n)
  PROVE  box' \subseteq [name : Names, by : Procs]
BY DEF Left, Boxed

\* A removal, complete or not, keeps the types of what is in Docker.
LEMMA SweptTyped ==
  ASSUME NEW p \in Procs, NEW some, DockerOK, pc[p] \in DOMAIN Next3, Swept(p, some)
  PROVE  DockerOK'
<1>1. CASE pc[p] = "boxes"
  BY <1>1 DEF DockerOK, Swept, RemoveBoxes
<1>2. CASE pc[p] \in {"nets", "vols"}
  <2>1. \E a, b : Removal(p, a, b)
    BY <1>2 DEF Swept
  <2>2. QED BY <2>1 DEF DockerOK, Removal
<1>3. QED BY <1>1, <1>2 DEF Next3

-----------------------------------------------------------------------------
\* Every variable keeps its type, for any number of probes and mishaps.
THEOREM TypeCorrect == Spec => []TypeOK
<1>1. Init => TypeOK
  <2> SUFFICES ASSUME Init PROVE DockerOK /\ ProbeOK
    BY Halves
  <2>1. DockerOK BY DEF Init, DockerOK
  <2>2. 1 \in 1 .. Len(Plan) BY PlanFacts
  <2>3. ProbeOK BY <2>2 DEF Init, ProbeOK
  <2>4. QED BY <2>1, <2>3
<1>2. TypeOK /\ [Next]_vars => TypeOK'
  <2> SUFFICES ASSUME DockerOK, ProbeOK, [Next]_vars PROVE DockerOK' /\ ProbeOK'
    BY Halves
  <2>1. CASE UNCHANGED vars
    BY <2>1 DEF DockerOK, ProbeOK, vars, docker, probe
  <2>2. ASSUME NEW p \in Procs, Begin(p) PROVE DockerOK' /\ ProbeOK'
    BY <2>2 DEF DockerOK, ProbeOK, Begin, docker
  <2>3. ASSUME NEW p \in Procs, Look(p) PROVE DockerOK' /\ ProbeOK'
    <3>1. CASE Finish(p, "stale")
      BY <2>3, <3>1, FinishTyped DEF DockerOK, Look, docker
    <3>2. CASE ~Finish(p, "stale")
      BY <2>3, <3>2 DEF DockerOK, ProbeOK, Look, Memory, docker
    <3>3. QED BY <3>1, <3>2
  <2>4. ASSUME NEW p \in Procs, NEW s \in Sides, CreateNetwork(p, s)
        PROVE  DockerOK' /\ ProbeOK'
    <3>1. ProbeOK' BY <2>4, GoTyped, RaiseTyped DEF CreateNetwork
    <3>2. DockerOK' BY <2>4 DEF DockerOK, CreateNetwork, Made
    <3>3. QED BY <3>1, <3>2
  <2>5. ASSUME NEW p \in Procs, NEW s \in Sides, CreateVolume(p, s)
        PROVE  DockerOK' /\ ProbeOK'
    <3>1. ProbeOK' BY <2>5, GoTyped DEF CreateVolume
    <3>2. DockerOK' BY <2>5 DEF DockerOK, CreateVolume, Made
    <3>3. QED BY <3>1, <3>2
  <2>6. ASSUME NEW p \in Procs, NEW s \in Sides, CreateDatabase(p, s)
        PROVE  DockerOK' /\ ProbeOK'
    <3>1. ProbeOK' BY <2>6, GoTyped, RaiseTyped DEF CreateDatabase
    <3>2. DockerOK' BY <2>6, Literals DEF DockerOK, CreateDatabase, Made, Boxed
    <3>3. QED BY <3>1, <3>2
  <2>7. ASSUME NEW p \in Procs, NEW s \in Sides, StartDatabase(p, s)
        PROVE  DockerOK' /\ ProbeOK'
    <3>1. ProbeOK' BY <2>7, GoTyped, RaiseTyped DEF StartDatabase
    <3>2. DockerOK' BY <2>7 DEF DockerOK, StartDatabase
    <3>3. QED BY <3>1, <3>2
  <2>8. ASSUME NEW p \in Procs, NEW s \in Sides, RunMigration(p, s)
        PROVE  DockerOK' /\ ProbeOK'
    <3> DEFINE n == IF s = "source" THEN "sourceMigration" ELSE "targetMigration"
    <3>1. ProbeOK' BY <2>8, GoTyped, RaiseTyped DEF RunMigration
    <3>2. n \in Names BY Literals
    <3>3. CASE UNCHANGED box
      BY <2>8, <3>1, <3>3, Literals DEF DockerOK, RunMigration
    <3>4. CASE Left(p, n) /\ UNCHANGED rows
      BY <2>8, <3>1, <3>2, <3>4, LeftTyped DEF DockerOK, RunMigration
    <3>5. QED BY <2>8, <3>1, <3>3, <3>4 DEF RunMigration
  <2>9. ASSUME NEW p \in Procs, SeedSource(p) PROVE DockerOK' /\ ProbeOK'
    <3>1. ProbeOK' BY <2>9, GoTyped, RaiseTyped DEF SeedSource
    <3>2. DockerOK' BY <2>9, Literals DEF DockerOK, SeedSource
    <3>3. QED BY <3>1, <3>2
  <2>10. ASSUME NEW p \in Procs, MeasureSource(p) PROVE DockerOK' /\ ProbeOK'
    <3>1. rows["source"] \in SUBSET Rows BY Literals DEF DockerOK
    <3>2. CASE Raise(p)
      BY <2>10, <3>2, RaiseTyped DEF MeasureSource, DockerOK, docker
    <3>3. CASE ~Raise(p)
      <4>1. {archive', digest', measured', restored'} \subseteq [Procs -> SUBSET Rows]
        BY <2>10, <3>1, <3>3, SMTT(30) DEF MeasureSource, ProbeOK
      <4>2. QED BY <2>10, <3>3, <4>1, StoreTyped DEF MeasureSource, DockerOK, docker
    <3>4. QED BY <3>2, <3>3
  <2>11. ASSUME NEW p \in Procs, StartFence(p) PROVE DockerOK' /\ ProbeOK'
    <3>1. ProbeOK' BY <2>11, GoTyped, RaiseTyped DEF StartFence
    <3>2. box' \subseteq [name : Names, by : Procs]
      BY <2>11, Literals, LeftTyped DEF DockerOK, StartFence, Boxed
    <3>3. QED BY <2>11, <3>1, <3>2 DEF DockerOK, StartFence
  <2>12. ASSUME NEW p \in Procs, CheckBlocked(p) PROVE DockerOK' /\ ProbeOK'
    <3>1. ProbeOK' BY <2>12, GoTyped, RaiseTyped DEF CheckBlocked
    <3>2. DockerOK' BY <2>12, Literals DEF DockerOK, CheckBlocked
    <3>3. QED BY <3>1, <3>2
  <2>13. ASSUME NEW p \in Procs, DumpSource(p) PROVE DockerOK' /\ ProbeOK'
    <3>1. rows["source"] \in SUBSET Rows BY Literals DEF DockerOK
    <3>2. CASE Left(p, "dump") /\ Raise(p)
      BY <2>13, <3>2, RaiseTyped, LeftTyped, Literals DEF DumpSource, DockerOK
    <3>3. CASE ~(Left(p, "dump") /\ Raise(p))
      <4>1. /\ archive' = [archive EXCEPT ![p] = rows["source"]]
            /\ digest' = [digest EXCEPT ![p] = rows["source"]]
            /\ UNCHANGED <<measured, restored>>
        BY <2>13, <3>3 DEF DumpSource
      <4>2. {archive', digest', measured', restored'} \subseteq [Procs -> SUBSET Rows]
        BY <3>1, <4>1 DEF ProbeOK
      <4>3. QED BY <2>13, <3>3, <4>2, StoreTyped DEF DumpSource, DockerOK
    <3>4. QED BY <3>2, <3>3
  <2>14. ASSUME NEW p \in Procs, ReleaseFence(p) PROVE DockerOK' /\ ProbeOK'
    BY <2>14, GoTyped DEF DockerOK, ReleaseFence
  <2>15. ASSUME NEW p \in Procs, InspectArchive(p) PROVE DockerOK' /\ ProbeOK'
    <3>1. ProbeOK' BY <2>15, GoTyped, RaiseTyped DEF InspectArchive
    <3>2. box' \subseteq [name : Names, by : Procs]
      BY <2>15, Literals, LeftTyped DEF DockerOK, InspectArchive
    <3>3. QED BY <2>15, <3>1, <3>2 DEF DockerOK, InspectArchive
  <2>16. ASSUME NEW p \in Procs, RequireEmpty(p) \/ CheckArchive(p) \/ CheckDenied(p)
         PROVE  DockerOK' /\ ProbeOK'
    <3>1. ProbeOK'
      BY <2>16, GoTyped, RaiseTyped DEF RequireEmpty, CheckArchive, CheckDenied
    <3>2. DockerOK'
      BY <2>16 DEF DockerOK, RequireEmpty, CheckArchive, CheckDenied, docker
    <3>3. QED BY <3>1, <3>2
  <2>17. ASSUME NEW p \in Procs, Restore(p) PROVE DockerOK' /\ ProbeOK'
    <3>1. ProbeOK' BY <2>17, GoTyped, RaiseTyped DEF Restore
    <3>2. archive[p] \in SUBSET Rows BY DEF ProbeOK
    <3>3. CASE UNCHANGED box
      BY <2>17, <3>1, <3>2, <3>3 DEF DockerOK, Restore
    <3>4. CASE Left(p, "restore") /\ UNCHANGED rows
      BY <2>17, <3>1, <3>4, Literals, LeftTyped DEF DockerOK, Restore
    <3>5. QED BY <2>17, <3>1, <3>3, <3>4 DEF Restore
  <2>18. ASSUME NEW p \in Procs, Compare(p) PROVE DockerOK' /\ ProbeOK'
    <3>1. rows["target"] \in SUBSET Rows BY Literals DEF DockerOK
    <3>2. DockerOK' BY <2>18 DEF DockerOK, Compare, docker
    <3>3. CASE Raise(p)
      BY <3>2, <3>3, RaiseTyped
    <3>4. CASE ~Raise(p)
      <4>1. {archive', digest', measured', restored'} \subseteq [Procs -> SUBSET Rows]
        BY <2>18, <3>1, <3>4, SMTT(30) DEF Compare, ProbeOK
      <4>2. QED BY <2>18, <3>2, <3>4, <4>1, StoreTyped DEF Compare
    <3>5. QED BY <3>3, <3>4
  <2>19. ASSUME NEW p \in Procs, Sweep(p) PROVE DockerOK' /\ ProbeOK'
    <3>1. DockerOK' BY <2>19, SweptTyped DEF Sweep
    <3>2. QED BY <2>19, <3>1 DEF ProbeOK, Sweep, Memory, Next3
  <2>20. ASSUME NEW p \in Procs, SweepFails(p) PROVE DockerOK' /\ ProbeOK'
    <3>1. DockerOK' BY <2>20, SweptTyped DEF SweepFails
    <3>2. CASE Finish(p, "error")
      BY <3>1, <3>2, FinishTyped
    <3>3. CASE ~Finish(p, "error")
      <4>1. /\ pc[p] \in DOMAIN Next3 /\ pc' = [pc EXCEPT ![p] = Next3[pc[p]]]
            /\ UNCHANGED <<Memory, result>>
        BY <2>20, <3>3 DEF SweepFails
      <4>2. QED BY <3>1, <4>1 DEF ProbeOK, Memory, Next3
    <3>4. QED BY <3>2, <3>3
  <2>21. ASSUME NEW p \in Procs, Publish(p) PROVE DockerOK' /\ ProbeOK'
    BY <2>21, FinishTyped DEF DockerOK, Publish, docker
  <2>22. ASSUME NEW p \in Procs, Fault(p) PROVE DockerOK' /\ ProbeOK'
    BY <2>22 DEF DockerOK, ProbeOK, Fault, docker
  <2>23. ASSUME NEW p \in Procs, Tamper(p) PROVE DockerOK' /\ ProbeOK'
    BY <2>23, Literals DEF DockerOK, ProbeOK, Tamper, docker
  <2>24. ASSUME NEW p \in Procs, Die(p) PROVE DockerOK' /\ ProbeOK'
    BY <2>24, FinishTyped DEF DockerOK, Die, docker
  <2>25. CASE FenceLapses \/ StrayWrite
    BY <2>25, Literals, ZenonT(30) DEF DockerOK, ProbeOK, FenceLapses, StrayWrite, probe
  <2>26. QED
    BY <2>1, <2>2, <2>3, <2>4, <2>5, <2>6, <2>7, <2>8, <2>9, <2>10, <2>11, <2>12, <2>13,
       <2>14, <2>15, <2>16, <2>17, <2>18, <2>19, <2>20, <2>21, <2>22, <2>23, <2>24, <2>25
       DEF Next, Act
<1>3. QED BY <1>1, <1>2, PTL DEF Spec

-----------------------------------------------------------------------------
\* The rows of a source that is ready to be dumped.
Full == Seed \cup {"schema"}

(* What a step does to what a probe q remembers. *)

Stays(q) ==
  /\ pc'[q] = pc[q] /\ at'[q] = at[q] /\ failed'[q] = failed[q] /\ result'[q] = result[q]
  /\ measured'[q] = measured[q] /\ restored'[q] = restored[q]
Starts(q) ==
  /\ at'[q] = at[q]
  /\ \/ pc[q] = "done" /\ pc'[q] = "look" /\ result'[q] = "none"
     \/ pc[q] = "look" /\ pc'[q] = "work" /\ result'[q] = result[q]
MovesOn(q) ==
  /\ pc[q] = "work" /\ failed'[q] = failed[q] /\ result'[q] = result[q]
  /\ \/ pc'[q] = "work" /\ at'[q] = at[q] + 1
     \/ pc'[q] = "boxes" /\ at[q] = 24
  /\ (at[q] # 7 /\ measured'[q] = measured[q]) \/ measured'[q] = Full
Raises(q) ==
  pc[q] = "work" /\ pc'[q] = "boxes" /\ failed'[q] = TRUE /\ result'[q] = result[q]
Sweeps(q) ==
  /\ pc[q] \in {"boxes", "nets", "vols"} /\ pc'[q] \in {"nets", "vols", "list"}
  /\ failed'[q] = failed[q] /\ result'[q] = result[q] /\ measured'[q] = measured[q]
Ends(q) == pc'[q] = "done" /\ at'[q] = 1 /\ result'[q] \in {"stale", "error", "dead"}
Passes(q) ==
  /\ pc[q] = "list" /\ pc'[q] = "done" /\ at'[q] = 1 /\ result'[q] = "PASS"
  /\ ~failed[q] /\ Digests(restored[q]) = Digests(measured[q])
  /\ measured'[q] = measured[q] /\ restored'[q] = restored[q]
  /\ box' = {} /\ net' = {} /\ vol' = {}

Step(q) ==
  \/ Stays(q) \/ Starts(q) \/ MovesOn(q) \/ Raises(q) \/ Sweeps(q) \/ Ends(q) \/ Passes(q)

\* A step of the plan is not the seventh unless it measures.
LEMMA NotMeasuring ==
  ASSUME NEW p \in Procs, NEW op, NEW s, At(p, op, s), op # "measure"
  PROVE  pc[p] = "work" /\ at[p] # 7
BY PlanFacts DEF At

\* The ways a step is put together have their form for every probe.
LEMMA GoForm ==
  ASSUME NEW p \in Procs, NEW q \in Procs, ProbeOK, Go(p), pc[p] = "work", at[p] # 7
  PROVE  Step(q)
<1>1. CASE p = q
  BY <1>1, PlanFacts DEF ProbeOK, Go, Goes, Step, MovesOn
<1>2. CASE p # q
  BY <1>2 DEF ProbeOK, Go, Goes, Step, Stays
<1>3. QED BY <1>1, <1>2
LEMMA RaiseForm ==
  ASSUME NEW p \in Procs, NEW q \in Procs, ProbeOK, Raise(p), pc[p] = "work"
  PROVE  Step(q)
<1>1. CASE p = q
  BY <1>1 DEF ProbeOK, Raise, Step, Raises
<1>2. CASE p # q
  BY <1>2 DEF ProbeOK, Raise, Step, Stays
<1>3. QED BY <1>1, <1>2
LEMMA FinishForm ==
  ASSUME NEW p \in Procs, NEW q \in Procs, ProbeOK, NEW r \in {"stale", "error", "dead"},
         Finish(p, r)
  PROVE  Step(q)
<1>1. CASE p = q
  BY <1>1 DEF ProbeOK, Finish, Step, Ends
<1>2. CASE p # q
  BY <1>2 DEF ProbeOK, Finish, Step, Stays
<1>3. QED BY <1>1, <1>2

\* Every step has one of the forms for every probe.
LEMMA StepForm ==
  ASSUME NEW q \in Procs, TypeOK, Next
  PROVE  Step(q)
<1> ProbeOK BY Halves
<1>1. ASSUME NEW p \in Procs, Begin(p) PROVE Step(q)
  BY <1>1 DEF ProbeOK, Begin, Step, Starts, Stays
<1>2. ASSUME NEW p \in Procs, Look(p) PROVE Step(q)
  <2>1. CASE Finish(p, "stale") BY <2>1, FinishForm
  <2>2. CASE ~Finish(p, "stale")
    BY <1>2, <2>2 DEF ProbeOK, Look, Memory, Step, Starts, Stays
  <2>3. QED BY <2>1, <2>2
<1>3. ASSUME NEW p \in Procs, NEW s \in Sides,
             CreateNetwork(p, s) \/ CreateVolume(p, s) \/ CreateDatabase(p, s)
      PROVE  Step(q)
  <2>1. pc[p] = "work" /\ at[p] # 7
    BY <1>3, NotMeasuring DEF CreateNetwork, CreateVolume, CreateDatabase
  <2>2. QED
    BY <1>3, <2>1, GoForm, RaiseForm DEF CreateNetwork, CreateVolume, CreateDatabase
<1>4. ASSUME NEW p \in Procs, NEW s \in Sides, StartDatabase(p, s) \/ RunMigration(p, s)
      PROVE  Step(q)
  <2>1. pc[p] = "work" /\ at[p] # 7
    BY <1>4, NotMeasuring DEF StartDatabase, RunMigration
  <2>2. QED BY <1>4, <2>1, GoForm, RaiseForm DEF StartDatabase, RunMigration
<1>5. ASSUME NEW p \in Procs, MeasureSource(p) PROVE Step(q)
  <2>1. pc[p] = "work" BY <1>5 DEF MeasureSource, At
  <2>2. CASE Raise(p) BY <2>1, <2>2, RaiseForm
  <2>3. CASE ~Raise(p)
    <3>1. Goes(p) /\ measured' = [measured EXCEPT ![p] = Full] /\ UNCHANGED restored
      BY <1>5, <2>3 DEF MeasureSource, Full
    <3>2. CASE p = q
      BY <2>1, <3>1, <3>2, PlanFacts DEF ProbeOK, Goes, Step, MovesOn
    <3>3. CASE p # q
      BY <3>1, <3>3 DEF ProbeOK, Goes, Step, Stays
    <3>4. QED BY <3>2, <3>3
  <2>4. QED BY <2>2, <2>3
<1>6. ASSUME NEW p \in Procs, SeedSource(p) \/ StartFence(p) \/ CheckBlocked(p)
      PROVE  Step(q)
  <2>1. pc[p] = "work" /\ at[p] # 7
    BY <1>6, NotMeasuring DEF SeedSource, StartFence, CheckBlocked
  <2>2. QED BY <1>6, <2>1, GoForm, RaiseForm DEF SeedSource, StartFence, CheckBlocked
<1>7. ASSUME NEW p \in Procs, DumpSource(p) \/ Compare(p) PROVE Step(q)
  <2>1. pc[p] = "work" /\ at[p] # 7
    BY <1>7, NotMeasuring DEF DumpSource, Compare
  <2>2. CASE Raise(p) BY <2>1, <2>2, RaiseForm
  <2>3. CASE ~Raise(p)
    <3>1. Goes(p) /\ UNCHANGED measured /\ (p # q => restored'[q] = restored[q])
      BY <1>7, <2>3 DEF DumpSource, Compare, ProbeOK
    <3>2. CASE p = q
      BY <2>1, <3>1, <3>2, PlanFacts DEF ProbeOK, Goes, Step, MovesOn
    <3>3. CASE p # q
      BY <3>1, <3>3 DEF ProbeOK, Goes, Step, Stays
    <3>4. QED BY <3>2, <3>3
  <2>4. QED BY <2>2, <2>3
<1>8. ASSUME NEW p \in Procs, ReleaseFence(p) \/ InspectArchive(p) \/ RequireEmpty(p)
      PROVE  Step(q)
  <2>1. pc[p] = "work" /\ at[p] # 7
    BY <1>8, NotMeasuring DEF ReleaseFence, InspectArchive, RequireEmpty
  <2>2. QED BY <1>8, <2>1, GoForm, RaiseForm DEF ReleaseFence, InspectArchive, RequireEmpty
<1>9. ASSUME NEW p \in Procs, CheckArchive(p) \/ Restore(p) \/ CheckDenied(p)
      PROVE  Step(q)
  <2>1. pc[p] = "work" /\ at[p] # 7
    BY <1>9, NotMeasuring DEF CheckArchive, Restore, CheckDenied
  <2>2. QED BY <1>9, <2>1, GoForm, RaiseForm DEF CheckArchive, Restore, CheckDenied
<1>10. ASSUME NEW p \in Procs, Sweep(p) \/ SweepFails(p) PROVE Step(q)
  <2>1. CASE Finish(p, "error") BY <2>1, FinishForm
  <2>2. CASE ~Finish(p, "error")
    <3>1. /\ pc[p] \in DOMAIN Next3 /\ pc' = [pc EXCEPT ![p] = Next3[pc[p]]]
          /\ UNCHANGED <<Memory, result>>
      BY <1>10, <2>2 DEF Sweep, SweepFails
    <3>2. QED BY <3>1 DEF ProbeOK, Memory, Next3, Step, Sweeps, Stays
  <2>3. QED BY <2>1, <2>2
<1>11. ASSUME NEW p \in Procs, Publish(p) PROVE Step(q)
  <2>1. CASE Finish(p, "error") BY <2>1, FinishForm
  <2>2. CASE ~Finish(p, "error")
    <3>1. /\ Finish(p, "PASS") /\ ~failed[p] /\ ~Remains /\ pc[p] = "list"
          /\ Digests(restored[p]) = Digests(measured[p]) /\ UNCHANGED docker
      BY <1>11, <2>2 DEF Publish
    <3>2. CASE p = q
      BY <3>1, <3>2 DEF ProbeOK, Finish, Remains, docker, Step, Passes
    <3>3. CASE p # q
      BY <3>1, <3>3 DEF ProbeOK, Finish, Step, Stays
    <3>4. QED BY <3>2, <3>3
  <2>3. QED BY <2>1, <2>2
<1>12. ASSUME NEW p \in Procs, Fault(p) PROVE Step(q)
  BY <1>12 DEF ProbeOK, Fault, Step, Raises, Stays
<1>13. ASSUME NEW p \in Procs, Die(p) PROVE Step(q)
  BY <1>13, FinishForm DEF Die
<1>14. ASSUME NEW p \in Procs, Tamper(p) PROVE Step(q)
  BY <1>14 DEF Tamper, Step, Stays
<1>15. CASE FenceLapses \/ StrayWrite
  BY <1>15 DEF FenceLapses, StrayWrite, probe, Step, Stays
<1>16. QED
  BY <1>1, <1>2, <1>3, <1>4, <1>5, <1>6, <1>7, <1>8, <1>9, <1>10, <1>11, <1>12, <1>13,
     <1>14, <1>15 DEF Next, Act

-----------------------------------------------------------------------------
\* What is made is made by a probe at work.
LEMMA MadeAtWork ==
  ASSUME Next, NEW x \in box' \cup net' \cup vol', x \notin box \cup net \cup vol
  PROVE  pc[x.by] = "work"
<1>1. ASSUME NEW p \in Procs, Begin(p) \/ Look(p) \/ Publish(p) \/ Fault(p) \/ Tamper(p) \/ Die(p)
      PROVE  FALSE
  BY <1>1 DEF Begin, Look, Publish, Fault, Tamper, Die, docker
<1>2. ASSUME NEW p \in Procs, NEW s \in Sides,
             CreateNetwork(p, s) \/ CreateVolume(p, s) \/ CreateDatabase(p, s)
      PROVE  pc[x.by] = "work"
  BY <1>2 DEF CreateNetwork, CreateVolume, CreateDatabase, Made, Boxed, At
<1>3. ASSUME NEW p \in Procs, NEW s \in Sides, StartDatabase(p, s) \/ RunMigration(p, s)
      PROVE  pc[x.by] = "work"
  BY <1>3 DEF StartDatabase, RunMigration, Left, Boxed, At
<1>4. ASSUME NEW p \in Procs, SeedSource(p) \/ MeasureSource(p) \/ CheckBlocked(p)
                              \/ RequireEmpty(p) \/ CheckArchive(p) \/ Compare(p)
                              \/ CheckDenied(p) \/ ReleaseFence(p)
      PROVE  FALSE
  BY <1>4 DEF SeedSource, MeasureSource, CheckBlocked, RequireEmpty, CheckArchive, Compare,
              CheckDenied, ReleaseFence, docker
<1>5. ASSUME NEW p \in Procs, StartFence(p) \/ DumpSource(p) \/ InspectArchive(p) \/ Restore(p)
      PROVE  pc[x.by] = "work"
  BY <1>5 DEF StartFence, DumpSource, InspectArchive, Restore, Left, Boxed, At
<1>6. ASSUME NEW p \in Procs, Sweep(p) \/ SweepFails(p) PROVE FALSE
  <2>1. pc[p] \in DOMAIN Next3 /\ \E some : Swept(p, some)
    BY <1>6 DEF Sweep, SweepFails
  <2>2. CASE pc[p] = "boxes"
    BY <2>1, <2>2 DEF Swept, RemoveBoxes
  <2>3. CASE pc[p] \in {"nets", "vols"}
    <3>1. \E a, b : Removal(p, a, b)
      BY <2>1, <2>3 DEF Swept
    <3>2. QED BY <3>1 DEF Removal
  <2>4. QED BY <2>1, <2>2, <2>3 DEF Next3
<1>7. CASE FenceLapses \/ StrayWrite
  BY <1>7 DEF FenceLapses, StrayWrite
<1>8. QED BY <1>1, <1>2, <1>3, <1>4, <1>5, <1>6, <1>7 DEF Next, Act

-----------------------------------------------------------------------------
\* The inductive invariant: beyond the seventh step the source is measured,
\* and only a probe that got there without an exception passes.
Sound(p) ==
  /\ pc[p] \in {"done", "look"} => at[p] = 1
  /\ pc[p] = "work" /\ at[p] > 7 => measured[p] = Full
  /\ pc[p] \in {"boxes", "nets", "vols", "list"} /\ ~failed[p] => measured[p] = Full
  /\ result[p] = "PASS" =>
       /\ pc[p] = "done" /\ measured[p] = Full /\ restored[p] = Full
       /\ \A x \in box \cup net \cup vol : x.by # p
IInv == \A p \in Procs : Sound(p)

\* Every form of a step keeps a probe sound.
LEMMA SoundStays ==
  ASSUME TypeOK, Next, NEW p \in Procs, Sound(p)
  PROVE  Sound(p)'
<1> ProbeOK BY Halves
<1>1. at[p] \in 1 .. 24 /\ measured[p] \in SUBSET Rows /\ restored[p] \in SUBSET Rows
  BY PlanFacts DEF ProbeOK
<1>2. CASE Stays(p)
  BY <1>2, MadeAtWork DEF Sound, Stays
<1>3. CASE Starts(p) BY <1>3 DEF Sound, Starts
<1>4. CASE MovesOn(p) BY <1>1, <1>4 DEF Sound, MovesOn
<1>5. CASE Raises(p) BY <1>5 DEF Sound, Raises
<1>6. CASE Sweeps(p) BY <1>6 DEF Sound, Sweeps
<1>7. CASE Ends(p) BY <1>7 DEF Sound, Ends
<1>8. CASE Passes(p) BY <1>1, <1>8, DigestsSeparate DEF Sound, Passes
<1>9. QED BY <1>2, <1>3, <1>4, <1>5, <1>6, <1>7, <1>8, StepForm DEF Step

\* The invariant holds of every behaviour.
LEMMA Invariant == Spec => []IInv
<1>1. Init => IInv BY DEF Init, IInv, Sound
<1>2. TypeOK /\ IInv /\ [Next]_vars => IInv'
  <2>1. ASSUME TypeOK, IInv, Next PROVE IInv'
    BY <2>1, SoundStays DEF IInv
  <2>2. ASSUME IInv, UNCHANGED vars PROVE IInv'
    BY <2>2 DEF IInv, Sound, vars, docker, probe
  <2>3. QED BY <2>1, <2>2
<1>3. QED BY <1>1, <1>2, TypeCorrect, PTL DEF Spec

\* A receipt of a probe states a restore of exactly the rows that the source
\* was measured to hold, for any number of probes, faults and changes.
THEOREM RestoredExact == Spec => []RestoredIsMeasured
<1>1. IInv => RestoredIsMeasured
  BY DEF IInv, Sound, RestoredIsMeasured, Full
<1>2. QED BY <1>1, Invariant, PTL

\* No container, network or volume of a probe that passed is left, and none
\* appears later.
THEOREM NothingLeft == Spec => []PassLeavesNothing
<1>1. IInv => PassLeavesNothing
  BY DEF IInv, Sound, PassLeavesNothing
<1>2. QED BY <1>1, Invariant, PTL
=============================================================================
