---------------------------- MODULE ManifestRules ----------------------------
(***************************************************************************)
(* The rules of a workflow manifest that relate its parts: the names of    *)
(* the steps, what each depends on, and what the claim requires            *)
(* (manifest.py, validate_manifest).  The shape of every single field is   *)
(* one question, whether the document is well formed.                      *)
(*                                                                         *)
(* The search for a cycle is recursive in the code; here its calls are a   *)
(* stack, and entering a step, going on to a prerequisite and leaving the  *)
(* step are steps of the machine.                                          *)
(***************************************************************************)
EXTENDS Naturals, Sequences

CONSTANTS
  StepIds,     \* the names that a document may use
  StepLists    \* the step ids, in order, of the documents that are validated

ASSUME StepListsAssumption == StepLists \subseteq Seq(StepIds)

VARIABLES
  doc,       \* the document
  lint,      \* "off", "visiting", "accepted" or "refused"
  upto,      \* how many steps the loop over the step ids has taken
  path,      \* the calls of visit that are open, the outermost first
  visited    \* the steps whose visit is over

linting == <<doc, lint, upto, path, visited>>

\* The names of a document's steps in order, the prerequisites of each and the
\* steps that the claim requires.
Documents ==
  UNION {[ids : {l}, deps : [{l[i] : i \in DOMAIN l} -> SUBSET StepIds],
          required : SUBSET StepIds] : l \in StepLists}
NoDocument == [ids |-> <<>>, deps |-> <<>>, required |-> {}]

Known(d) == {d.ids[i] : i \in DOMAIN d.ids}
Unique(d) == \A i, j \in DOMAIN d.ids : i # j => d.ids[i] # d.ids[j]
NoStranger(d) == \A s \in Known(d) : s \notin d.deps[s] /\ d.deps[s] \subseteq Known(d)
ClaimCovered(d) == d.required # {} /\ d.required \subseteq Known(d)

LintInit == doc = NoDocument /\ lint = "off" /\ upto = 0 /\ path = <<>> /\ visited = {}

\* What is decided before the search begins.
ReadDocument ==
  /\ lint = "off"
  /\ doc' \in Documents
  /\ lint' = IF Len(doc'.ids) > 0 /\ Unique(doc') /\ NoStranger(doc')
             THEN "visiting" ELSE "refused"
  /\ UNCHANGED <<upto, path, visited>>

\* An open call: the step it visits and the prerequisites it has not come to.
OnPath(calls) == {calls[i].step : i \in DOMAIN calls}
Top == path[Len(path)]

\* Mutant of Visit: a step whose visit has begun counts as visited.
VisitMarked(s, callers) ==
  /\ path' = IF s \in visited \cup OnPath(callers) THEN callers
             ELSE Append(callers, [step |-> s, left |-> doc.deps[s]])
  /\ UNCHANGED <<lint, visited>>

\* visit(s), called by the open calls: it meets its own path, or a step that
\* has been visited, or it opens.
Visit(s, callers) ==
  \/ s \in OnPath(callers) /\ lint' = "refused" /\ UNCHANGED <<path, visited>>
  \/ /\ s \notin OnPath(callers)
     /\ path' = IF s \in visited THEN callers
                ELSE Append(callers, [step |-> s, left |-> doc.deps[s]])
     /\ UNCHANGED <<lint, visited>>

VisitStep ==
  /\ lint = "visiting" /\ path = <<>> /\ upto < Len(doc.ids)
  /\ upto' = upto + 1
  /\ Visit(doc.ids[upto'], path)
  /\ UNCHANGED doc

\* The prerequisites come in the order of the document, which is any.
VisitPrerequisite ==
  /\ lint = "visiting" /\ path # <<>>
  /\ \E s \in Top.left : Visit(s, [path EXCEPT ![Len(path)].left = @ \ {s}])
  /\ UNCHANGED <<doc, upto>>

LeaveStep ==
  /\ lint = "visiting" /\ path # <<>> /\ Top.left = {}
  /\ path' = SubSeq(path, 1, Len(path) - 1)
  /\ visited' = visited \cup {Top.step}
  /\ UNCHANGED <<doc, lint, upto>>

CheckClaim ==
  /\ lint = "visiting" /\ path = <<>> /\ upto = Len(doc.ids)
  /\ lint' = IF ClaimCovered(doc) THEN "accepted" ELSE "refused"
  /\ UNCHANGED <<doc, upto, path, visited>>

Visiting == VisitStep \/ VisitPrerequisite \/ LeaveStep \/ CheckClaim

LintNext == ReadDocument \/ Visiting
LintSpec == LintInit /\ [][LintNext]_linting

-----------------------------------------------------------------------------
\* What the workflow needs: an order in which every step comes after its
\* prerequisites, and a claim about steps that run.
IsOrder(d, o) ==
  /\ \A i, j \in DOMAIN o : i # j => o[i] # o[j]
  /\ \A i \in DOMAIN o : d.deps[o[i]] \subseteq {o[j] : j \in 1 .. i - 1}
Orders(d) == {o \in [1 .. Len(d.ids) -> Known(d)] : IsOrder(d, o)}
Runnable(d) ==
  Len(d.ids) > 0 /\ Orders(d) # {} /\ d.required # {} /\ d.required \ Known(d) = {}
=============================================================================
