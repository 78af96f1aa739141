-------------------------- MODULE IntegratedRecovery --------------------------
(***************************************************************************)
(* The integrated recovery probe: it runs the five recovery stages in a    *)
(* fixed order, each cycle as the one before, and looks at the host's      *)
(* custody before and after every stage.  Four stages are probes, run as   *)
(* child processes; the receipt stage works in a temporary directory only. *)
(* Nothing keeps another probe from running on the same host meanwhile.    *)
(***************************************************************************)
EXTENDS Surfaces

CONSTANTS Child,        \* the process that runs the stages
          Repetitions   \* complete cycles

ASSUME CompositeAssumption == Child \in Procs /\ Repetitions \in Nat \ {0}

VARIABLES
  step,      \* where the composite is
  done,      \* the stages that are done
  root,      \* the protected volumes at the first boundary
  bound,     \* those at the last boundary
  same,      \* every finished cycle ended with the custody it began with
  verdict,
  heard      \* what the stages ended with (history)

composite == <<step, done, root, bound, same, verdict, heard>>
allVars == <<vars, composite>>

STAGE_ORDER == <<"receipt", "reliability", "journal", "recovery", "backup">>
Stage == STAGE_ORDER[(done % Len(STAGE_ORDER)) + 1]

CompositeInit ==
  /\ Init
  /\ step = "idle" /\ done = 0 /\ root = 0 /\ bound = 0
  /\ same = TRUE /\ verdict = "none" /\ heard = <<>>

\* The composite ends; what it remembered is of no further use.
End(v) ==
  /\ step' = "over" /\ verdict' = v
  /\ done' = 0 /\ bound' = 0 /\ same' = TRUE
  /\ UNCHANGED <<root, heard>>
To(s) == step' = s /\ UNCHANGED verdict

-----------------------------------------------------------------------------
\* A boundary shows no container and no network of any probe, and no volume
\* but the protected ones; anything else is an error.
Clean == box = {} /\ net = {} /\ vol = {"kept"} /\ \A x \in Projects : db[x].st = "none"

Start ==
  /\ step = "idle" /\ pc[Child] = "done" /\ calls < MaxCalls
  /\ calls' = calls + 1
  /\ IF Clean THEN To("before") /\ root' = ident /\ UNCHANGED <<done, bound, same, heard>>
              ELSE End("ERROR")
  /\ UNCHANGED <<docker, ident, probe, troubles>>

BeforeStage ==
  /\ step = "before"
  /\ IF Clean THEN To("stage") /\ bound' = ident /\ UNCHANGED <<done, root, same, heard>>
              ELSE End("ERROR")
  /\ UNCHANGED vars

ReceiptStage ==
  /\ step = "stage" /\ Stage = "receipt"
  /\ To("after") /\ heard' = Append(heard, "PASS")
  /\ UNCHANGED <<vars, done, root, bound, same>>

StartChild ==
  /\ step = "stage" /\ Stage # "receipt"
  /\ Begin(Child, Stage) /\ UNCHANGED calls
  /\ To("child") /\ UNCHANGED <<done, root, bound, same, heard>>

\* A verdict of FAIL is the product's; any other end is an error of the host.
HearChild ==
  /\ step = "child" /\ pc[Child] = "done"
  /\ IF result[Child] \in {"PASS", "FAIL"}
     THEN /\ To(IF result[Child] = "PASS" THEN "after" ELSE "failed")
          /\ heard' = Append(heard, result[Child])
          /\ UNCHANGED <<done, root, bound, same>>
     ELSE End("ERROR")
  /\ UNCHANGED vars

AfterStage ==
  /\ step = "after"
  /\ IF Clean /\ bound = ident /\ ident = root
     THEN /\ done' = done + 1
          /\ To(IF done' % Len(STAGE_ORDER) = 0 THEN "cycle" ELSE "before")
          /\ UNCHANGED <<root, bound, same, heard>>
     ELSE End("ERROR")
  /\ UNCHANGED vars

EndCycle ==
  /\ step = "cycle"
  /\ IF Clean
     THEN /\ same' = (same /\ ident = root)
          /\ To(IF done = Repetitions * Len(STAGE_ORDER) THEN "compare" ELSE "before")
          /\ UNCHANGED <<done, root, bound, heard>>
     ELSE End("ERROR")
  /\ UNCHANGED vars

\* The cycles are compared with each other: images, streams, decisions and
\* restored states, which a fixed plan makes equal, and the custody.
CompareCycles ==
  /\ step = "compare"
  /\ IF same THEN To("final") /\ UNCHANGED <<done, root, bound, same, heard>>
             ELSE End("ERROR")
  /\ UNCHANGED vars

\* Mutant of LastBoundary: the protected volumes are not compared any more.
LastBoundaryNamesOnly ==
  /\ step = "final"
  /\ End(IF Clean THEN "PASS" ELSE "ERROR")
  /\ UNCHANGED vars

LastBoundary ==
  /\ step = "final"
  /\ End(IF Clean /\ ident = root THEN "PASS" ELSE "ERROR")
  /\ UNCHANGED vars

\* A failure is reported with the custody at the time, whose volumes are
\* named but not compared.
ReportFailure ==
  /\ step = "failed"
  /\ End(IF Clean THEN "FAIL" ELSE "ERROR")
  /\ UNCHANGED vars

CompositeAct ==
  \/ BeforeStage \/ ReceiptStage \/ StartChild \/ HearChild
  \/ AfterStage \/ EndCycle \/ CompareCycles \/ LastBoundary \/ ReportFailure

Probes ==
  \/ \E p \in Procs : Act(p) \/ Mishap(p)
  \/ \E p \in Procs : \E j \in Jobs[p] : (p = Child => step \in {"idle", "over"}) /\ Call(p, j)
  \/ Elsewhere

CompositeNext == Start \/ CompositeAct \/ (Probes /\ UNCHANGED composite)

\* Some process goes on while one can; the host's databases start or do not.
Progress == CompositeAct \/ ((\E p \in Procs : Act(p)) /\ UNCHANGED composite)
CompositeSpec == CompositeInit /\ [][CompositeNext]_allVars /\ WF_allVars(Progress)

-----------------------------------------------------------------------------
\* The composite passes only when every stage of every cycle passed, the
\* protected volumes are still those it found first, and nothing of any
\* probe is left, its own or another's (integrated_recovery_surface.py:674).
CompositePassIsEarned ==
  [][verdict' = "PASS" /\ verdict # "PASS" =>
       /\ ident = root /\ box = {} /\ net = {} /\ vol = {"kept"}
       /\ heard = [i \in 1 .. Repetitions * Len(STAGE_ORDER) |-> "PASS"]]_allVars

\* The composite and every probe end, whatever they meet.
AllSettle == <>[](step \in {"idle", "over"} /\ \A p \in Procs : pc[p] = "done")
=============================================================================
