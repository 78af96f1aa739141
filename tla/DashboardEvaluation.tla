------------------------- MODULE DashboardEvaluation -------------------------
(***************************************************************************)
(* The repeated evaluation of the dashboard: for every scenario of every   *)
(* repetition it starts a server of its own, asks it for every route and   *)
(* shuts it down; it reports only a result without any flaw.  The files of *)
(* the repository may be edited meanwhile, and others may connect.         *)
(***************************************************************************)
EXTENDS Dashboard, Sequences

CONSTANTS Evaluator,    \* the client that the evaluation is
          SCENARIOS,    \* how many there are
          REPETITIONS,
          ROUTES        \* how many each trial asks for

ASSUME EvaluatorAssumption == Evaluator \in Clients
ASSUME CountsAssumption ==
  SCENARIOS \in Nat \ {0} /\ REPETITIONS \in Nat \ {0} /\ ROUTES \in Nat \ {0}

TRIAL_COUNT == SCENARIOS * REPETITIONS

VARIABLES
  trial,     \* the trial at hand, 0 before the first
  todo,      \* the routes it has still to ask for
  flawed,    \* a request of some trial failed
  shown,     \* of each trial, the snapshot its page showed
  before,    \* the files that differed from the commit when it began
  heard,     \* the answers to each trial (history)
  outcome    \* "none", "PASS", "rejected" or "off", without an evaluation

trials  == <<trial, todo, flawed, shown, before, heard, outcome>>
allVars == <<dashboard, trials>>

EvaluationInit ==
  /\ ServerInit
  /\ trial = 0 /\ todo = 0 /\ flawed = FALSE /\ shown = <<>> /\ before = {} /\ heard = {}
  /\ outcome \in IF limit = 0 THEN {"none", "off"} ELSE {"off"}

Running == outcome = "none"
\* git status names the files that differ; a file edited again is named as before.
Dirty == {f \in Files : disk[f] # 1}
Reject == outcome' = "rejected" /\ UNCHANGED <<trial, todo, flawed, shown, before, heard>>

Begin ==
  /\ Running /\ trial = 0
  /\ trial' = 1 /\ todo' = ROUTES /\ before' = Dirty
  /\ UNCHANGED <<dashboard, flawed, shown, heard, outcome>>

\* The page is rendered from what is loaded; a drift ends the evaluation.
Project ==
  /\ Running /\ trial > 0 /\ LoadSnapshot
  /\ IF phase' = "invalid" THEN Reject
     ELSE /\ shown' = Append(shown, view'.snapshot)
          /\ UNCHANGED <<trial, todo, flawed, before, heard, outcome>>

Serving == (Bind \/ Close \/ WaitPasses \/ LastTurn) /\ UNCHANGED trials
Alone   == ~Running /\ LoadSnapshot /\ UNCHANGED trials

Request ==
  /\ Running /\ todo > 0 /\ answer[Evaluator].status = 0
  /\ Connect(Evaluator) \/ (Ask(Evaluator, "read") /\ UNCHANGED asks)
  /\ UNCHANGED trials

\* Mutant of Settle: a failed exchange leaves no flaw.
SettleAnyhow(good) ==
  /\ conn' = [conn EXCEPT ![Evaluator] = "none"]
  /\ answer' = [answer EXCEPT ![Evaluator] = [status |-> 0, body |-> Nothing]]
  /\ todo' = todo - 1
  /\ UNCHANGED <<disk, server, query, asks, trial, shown, before, outcome, flawed>>

\* The exchange is over: with an answer, or, after four seconds, without.
\* The connection is closed; the answer has to be what the view shows.
Settle(good) ==
  /\ conn' = [conn EXCEPT ![Evaluator] = "none"]
  /\ answer' = [answer EXCEPT ![Evaluator] = [status |-> 0, body |-> Nothing]]
  /\ todo' = todo - 1
  /\ flawed' = (flawed \/ ~good)
  /\ UNCHANGED <<disk, server, query, asks, trial, shown, before, outcome>>
HearAnswer ==
  /\ Running /\ conn[Evaluator] = "open" /\ answer[Evaluator].status # 0
  /\ heard' = heard \cup {<<trial, todo, answer[Evaluator].body>>}
  /\ Settle(answer[Evaluator] = [status |-> 200, body |-> view])
  /\ UNCHANGED changes
RequestFails ==
  /\ Running /\ phase = "ready" /\ todo > 0
  /\ changes < MaxChanges /\ changes' = changes + 1
  /\ Settle(FALSE) /\ UNCHANGED heard

Shutdown == Running /\ trial > 0 /\ todo = 0 /\ Stop /\ UNCHANGED trials

NextTrial ==
  /\ Running /\ phase = "closed" /\ trial < TRIAL_COUNT
  /\ phase' = "off" /\ trial' = trial + 1 /\ todo' = ROUTES
  /\ UNCHANGED <<files, view, limit, turns, clients, flawed, shown, before, heard, outcome>>

\* A result that is not a PASS is never reported: its validation rejects it.
Stable == \A i, j \in 1 .. TRIAL_COUNT : i % SCENARIOS = j % SCENARIOS => shown[i] = shown[j]
Publish ==
  /\ Running /\ phase = "closed" /\ trial = TRIAL_COUNT
  /\ IF ~flawed /\ Stable /\ Dirty = before
     THEN outcome' = "PASS" /\ UNCHANGED <<trial, todo, flawed, shown, before, heard>>
     ELSE Reject
  /\ UNCHANGED dashboard

Evaluate ==
  \/ Begin \/ Project \/ Request \/ HearAnswer \/ Shutdown \/ NextTrial \/ Publish

Others(c) == c # Evaluator \/ ~Running
Go(c) == (Handle(c) \/ (Others(c) /\ Leave(c))) /\ UNCHANGED trials

EvaluationNext ==
  \/ Evaluate \/ Serving \/ Alone \/ RequestFails
  \/ \E c \in Clients : Go(c) \/ (Others(c) /\ Client(c) /\ UNCHANGED trials)
  \/ (Edit \/ (~Running /\ Interrupt)) /\ UNCHANGED trials

\* The server and the evaluation go on, a connection is handled, and a
\* client that is connected closes its connection at last.
EvaluationSpec ==
  /\ EvaluationInit /\ [][EvaluationNext]_allVars
  /\ WF_allVars(Evaluate) /\ WF_allVars(Serving \/ Alone)
  /\ \A c \in Clients : WF_allVars(Go(c))

-----------------------------------------------------------------------------
\* The evaluation passes only when it heard an answer for every route of
\* every trial, all answers of a trial were of one view, and a scenario
\* looked the same in every repetition, whoever edited the files meanwhile
\* (docs/dashboard-repeated-evaluation.md:7).
EvaluationIsEarned ==
  outcome = "PASS" =>
    \A t \in 1 .. TRIAL_COUNT :
      LET told(u) == {h \in heard : h[1] = u}
          seen(u) == {h[3].snapshot : h \in told(u)}
      IN /\ Cardinality(told(t)) = ROUTES
         /\ Cardinality({h[3] : h \in told(t)}) = 1
         /\ \A u \in 1 .. TRIAL_COUNT : u % SCENARIOS = t % SCENARIOS => seen(u) = seen(t)

\* A server with a limit ends, even if nobody connects, and so does the
\* evaluation, if clients do not keep their connections for ever
\* (dashboard_surface.py:413).
EverythingEnds ==
  <>[](outcome # "none" /\ (limit # 0 => phase \in {"closed", "invalid"}))
=============================================================================
