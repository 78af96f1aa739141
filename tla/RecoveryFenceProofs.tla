------------------------ MODULE RecoveryFenceProofs ------------------------
(***************************************************************************)
(* Mutual exclusion of recoverers, for every number of holders, lease      *)
(* length and clock.                                                       *)
(*                                                                         *)
(* The argument: a live grant pins the row (its holder, its token and its  *)
(* expiry), a call's time is never in the future, and a holder with a call *)
(* in flight believes nothing.  So a call that would take the row from a   *)
(* live grant sees it held, however long the call waited.                  *)
(*                                                                         *)
(* The second part is about the dashboard and its evaluation, which passes *)
(* for what it heard of a view that its server froze.                      *)
(***************************************************************************)
EXTENDS RecoveryFence, DashboardEvaluation, FiniteSetTheorems, FunctionTheorems,
        SequenceTheorems, TLAPS

CallsStartedInPast == \A h \in Holders : call[h].start <= now

CallerHoldsNothing == \A h \in Holders : call[h].op # "none" => grant[h] = NoGrant

GrantsAreOlder ==
  \A h \in Holders : grant[h] # NoGrant =>
    /\ grant[h].token <= fence.token
    /\ grant[h].token = fence.token => fence.holder = h

LivePinsRow ==
  \A h \in Holders : Live(h) =>
    /\ fence.holder = h
    /\ fence.token = grant[h].token
    /\ fence.expires = grant[h].expires
    /\ fence.workflowExpires <= now

IInv ==
  /\ TypeOK
  /\ CallsStartedInPast
  /\ CallerHoldsNothing
  /\ GrantsAreOlder
  /\ TokensNameOneHolder
  /\ LivePinsRow

LEMMA InitInvariant == Init => IInv
<1> SUFFICES ASSUME Init PROVE IInv
  OBVIOUS
<1> USE TimeAssumption, TokenAssumption
<1>1. TypeOK
  BY DEF Init, TypeOK, Time, NoCall, NoGrant
<1>2. \A h \in Holders : ~Live(h) /\ grant[h] = NoGrant /\ call[h].start <= now
  <2> SUFFICES ASSUME NEW h \in Holders
               PROVE  ~Live(h) /\ grant[h] = NoGrant /\ call[h].start <= now
    OBVIOUS
  <2>1. now = 0 /\ grant[h] = NoGrant /\ call[h] = NoCall
    BY DEF Init
  <2>2. grant[h].expires = 0 /\ call[h].start = 0
    BY <2>1 DEF NoGrant, NoCall
  <2> QED BY <2>1, <2>2 DEF Live
<1>3. CallsStartedInPast /\ CallerHoldsNothing /\ GrantsAreOlder
      /\ TokensNameOneHolder /\ LivePinsRow
  BY <1>2 DEF CallsStartedInPast, CallerHoldsNothing, GrantsAreOlder,
              TokensNameOneHolder, LivePinsRow
<1> QED BY <1>1, <1>3 DEF IInv

LEMMA StepTypes == IInv /\ [Next]_vars => TypeOK'
<1> SUFFICES ASSUME IInv, [Next]_vars PROVE TypeOK'
  OBVIOUS
<1> USE TimeAssumption, TokenAssumption DEF IInv, TypeOK, NoGrant, NoCall
<1>1. CASE Tick
  BY <1>1 DEF Tick, Time
<1>2. ASSUME NEW h \in Holders, BeginAcquire(h) PROVE TypeOK'
  BY <1>2 DEF BeginAcquire, Time
<1>3. ASSUME NEW h \in Holders, Take(h) PROVE TypeOK'
  <2>1. fence' \in [workflowToken : Nat, workflowExpires : Time,
                    holder : Holders \cup {NoHolder}, token : Nat, expires : Nat]
    <3>1. call[h].expires \in Nat /\ fence.token + 1 \in Nat
      OBVIOUS
    <3>2. fence' = [fence EXCEPT !.holder = h, !.token = fence.token + 1,
                                 !.expires = call[h].expires]
      BY <1>3 DEF Take
    <3> QED BY <3>1, <3>2
  <2>2. grant' \in [Holders -> [token : Nat, expires : Nat]]
    BY <1>3, <2>1 DEF Take, Hear
  <2> QED BY <1>3, <2>1, <2>2 DEF Take, Hear
<1>4. ASSUME NEW h \in Holders, Reenter(h) PROVE TypeOK'
  BY <1>4 DEF Reenter, Hear
<1>5. ASSUME NEW h \in Holders, RefuseAcquire(h) PROVE TypeOK'
  BY <1>5 DEF RefuseAcquire, Hear
<1>6. ASSUME NEW h \in Holders, BeginRelease(h) PROVE TypeOK'
  BY <1>6 DEF BeginRelease, Time
<1>7. ASSUME NEW h \in Holders, Release(h) PROVE TypeOK'
  BY <1>7 DEF Release, Hear
<1>8. ASSUME NEW h \in Holders, RefuseRelease(h) PROVE TypeOK'
  BY <1>8 DEF RefuseRelease, Hear
<1>9. ASSUME NEW h \in Holders, Forget(h) PROVE TypeOK'
  <2>1. grant' \in [Holders -> [token : Nat, expires : Nat]]
    BY <1>9 DEF Forget
  <2>2. [call EXCEPT ![h].heard = FALSE] \in [Holders ->
          [op : {"none", "acquire", "release"}, start : Nat,
           expires : Nat, token : Nat, heard : BOOLEAN]]
    BY ZenonT(30)
  <2> QED BY <1>9, <2>1, <2>2 DEF Forget
<1>10. CASE UNCHANGED vars
  BY <1>10 DEF vars
<1> QED BY <1>1, <1>2, <1>3, <1>4, <1>5, <1>6, <1>7, <1>8, <1>9, <1>10 DEF Next

(* A step that changes neither the clock nor the row and grants nothing.    *)
LEMMA GrantNothing ==
  ASSUME IInv, TypeOK', now' = now, fence' = fence,
         \A h \in Holders : grant'[h] \in {grant[h], NoGrant},
         \A h \in Holders : call'[h].start <= now,
         \A h \in Holders : call'[h].op # "none" => grant'[h] = NoGrant
  PROVE  IInv'
<1> USE TimeAssumption DEF IInv, TypeOK, Time
<1>1. \A h \in Holders : Live(h)' => Live(h) /\ grant'[h] = grant[h]
  BY DEF Live, NoGrant
<1>2. LivePinsRow'
  BY <1>1 DEF LivePinsRow
<1>3. GrantsAreOlder' /\ TokensNameOneHolder'
  BY DEF GrantsAreOlder, TokensNameOneHolder, NoGrant
<1>4. CallsStartedInPast' /\ CallerHoldsNothing'
  BY DEF CallsStartedInPast, CallerHoldsNothing
<1> QED BY <1>2, <1>3, <1>4 DEF IInv

(* Nobody but the caller can be live when a call finds the row free, or     *)
(* held by the caller.                                                      *)
LEMMA OthersNotLive ==
  ASSUME IInv, NEW h \in Holders,
         ~HeldAt(call[h].start) \/ fence.holder = h
  PROVE  \A g \in Holders : Live(g) => g = h
<1> SUFFICES ASSUME NEW g \in Holders, Live(g), g # h PROVE FALSE
  OBVIOUS
<1>1. fence.holder = g /\ fence.expires = grant[g].expires /\ grant[g].expires > now
  BY DEF IInv, LivePinsRow, Live
<1>2. call[h].start <= now
  BY DEF IInv, CallsStartedInPast
<1>3. /\ fence.expires \in Int /\ now \in Int /\ call[h].start \in Int
  BY TimeAssumption DEF IInv, TypeOK, Time
<1>4. fence.expires > call[h].start
  BY <1>1, <1>2, <1>3
<1> QED BY <1>1, <1>4, TokenAssumption DEF HeldAt

(* A call of h is executed that leaves the row with h.                      *)
LEMMA RowOfCaller ==
  ASSUME IInv, TypeOK', NEW h \in Holders, now' = now, call[h].op # "none",
         ~HeldAt(call[h].start) \/ fence.holder = h,
         fence'.holder = h,
         fence'.workflowExpires = fence.workflowExpires,
         \/ fence'.token = fence.token + 1
         \/ fence'.token = fence.token /\ fence.holder = h,
         \/ grant' = grant
         \/ /\ grant' = [grant EXCEPT ![h] =
                           [token |-> fence'.token, expires |-> fence'.expires]]
            /\ fence.workflowExpires <= call[h].start
         \/ grant' = [grant EXCEPT ![h] = NoGrant],
         call' = [call EXCEPT ![h] = NoCall]
  PROVE  IInv'
<1> USE TimeAssumption, TokenAssumption
<1>t. TypeOK
  BY DEF IInv
<1>1. grant[h] = NoGrant /\ call[h].start <= now
  BY DEF IInv, CallerHoldsNothing, CallsStartedInPast
<1>2. /\ \A g \in Holders \ {h} : grant'[g] = grant[g]
      /\ grant'[h] \in {NoGrant, [token |-> fence'.token, expires |-> fence'.expires]}
      /\ grant'[h] # NoGrant => fence.workflowExpires <= now
  <2>1. /\ fence.workflowExpires \in Int /\ now \in Int /\ call[h].start \in Int
    BY <1>t DEF TypeOK, Time
  <2>2. \A g \in Holders \ {h} : grant'[g] = grant[g]
    BY <1>t DEF TypeOK
  <2>3. CASE grant' = grant
    BY <1>1, <2>2, <2>3
  <2>4. CASE grant' = [grant EXCEPT ![h] =
                           [token |-> fence'.token, expires |-> fence'.expires]]
             /\ fence.workflowExpires <= call[h].start
    <3>1. grant'[h] = [token |-> fence'.token, expires |-> fence'.expires]
      BY <2>4, <1>t DEF TypeOK
    <3>2. fence.workflowExpires <= now
      BY <2>1, <2>4, <1>1
    <3> QED BY <2>2, <3>1, <3>2
  <2>5. CASE grant' = [grant EXCEPT ![h] = NoGrant]
    <3>1. grant'[h] = NoGrant
      BY <2>5, <1>t DEF TypeOK
    <3> QED BY <2>2, <3>1
  <2> QED BY <2>3, <2>4, <2>5
<1>3. \A g \in Holders : Live(g)' => g = h
  BY <1>2, OthersNotLive DEF Live
<1>4. LivePinsRow'
  <2> SUFFICES ASSUME Live(h)'
               PROVE  /\ fence'.token = grant'[h].token
                      /\ fence'.expires = grant'[h].expires
                      /\ fence'.workflowExpires <= now'
    BY <1>3 DEF LivePinsRow, Live
  <2>1. grant'[h] # NoGrant
    BY <1>t DEF Live, NoGrant, TypeOK, Time
  <2> QED BY <1>2, <2>1
<1>5. \A g \in Holders \ {h} : grant'[g] # NoGrant =>
        grant'[g].token <= fence'.token /\ grant'[g].token # fence'.token
  BY <1>2, <1>t DEF IInv, GrantsAreOlder, TypeOK
<1>6. grant'[h] # NoGrant => grant'[h].token = fence'.token
  BY <1>2
<1>7. GrantsAreOlder'
  BY <1>5, <1>6, TypeOK' DEF GrantsAreOlder, TypeOK
<1>8. TokensNameOneHolder'
  BY <1>2, <1>5, <1>6 DEF IInv, TokensNameOneHolder
<1>9. CallsStartedInPast'
  BY <1>t DEF IInv, CallsStartedInPast, TypeOK, NoCall, Time
<1>10. CallerHoldsNothing'
  BY <1>t, <1>2 DEF IInv, CallerHoldsNothing, TypeOK, NoCall
<1> QED BY <1>4, <1>7, <1>8, <1>9, <1>10 DEF IInv

LEMMA StepInvariant == IInv /\ [Next]_vars => IInv'
<1> SUFFICES ASSUME IInv, [Next]_vars PROVE IInv'
  OBVIOUS
<1> USE TimeAssumption, TokenAssumption
<1>t. TypeOK /\ TypeOK'
  BY StepTypes DEF IInv
<1>0. \A h \in Holders : /\ call[h].start <= now
                         /\ call[h].op # "none" => grant[h] = NoGrant
  BY DEF IInv, CallsStartedInPast, CallerHoldsNothing
<1>1. CASE Tick
  <2>1. now \in Int /\ now' = now + 1 /\ UNCHANGED <<fence, call, grant>>
    BY <1>1, <1>t DEF Tick, TypeOK, Time
  <2>2. \A h \in Holders : Live(h)' => Live(h)
    BY <2>1, <1>t DEF Live, TypeOK
  <2>3. LivePinsRow'
    BY <2>1, <2>2, <1>t DEF IInv, LivePinsRow, TypeOK, Time
  <2>4. CallsStartedInPast'
    BY <2>1, <1>t DEF IInv, CallsStartedInPast, TypeOK
  <2>5. CallerHoldsNothing' /\ GrantsAreOlder' /\ TokensNameOneHolder'
    BY <2>1 DEF IInv, CallerHoldsNothing, GrantsAreOlder, TokensNameOneHolder
  <2> QED BY <1>t, <2>3, <2>4, <2>5 DEF IInv
<1>2. ASSUME NEW h \in Holders, BeginAcquire(h) PROVE IInv'
  <2>1. \A g \in Holders : call'[g].start <= now
    BY <1>2, <1>0, <1>t DEF BeginAcquire, TypeOK, Time
  <2>2. \A g \in Holders : call'[g].op # "none" => grant'[g] = NoGrant
    BY <1>2, <1>0, <1>t DEF BeginAcquire, TypeOK
  <2> QED BY <1>2, <1>t, <2>1, <2>2, GrantNothing DEF BeginAcquire
<1>3. ASSUME NEW h \in Holders, Take(h) PROVE IInv'
  <2>1. /\ fence'.holder = h
        /\ fence'.token = fence.token + 1
        /\ fence'.workflowExpires = fence.workflowExpires
        /\ fence.workflowExpires <= call[h].start
    BY <1>3, <1>t DEF Take, WorkflowOver, TypeOK
  <2> QED BY <1>3, <1>t, <2>1, RowOfCaller DEF Take, Hear
<1>4. ASSUME NEW h \in Holders, Reenter(h) PROVE IInv'
  BY <1>4, <1>t, RowOfCaller DEF Reenter, Hear, WorkflowOver
<1>5. ASSUME NEW h \in Holders, RefuseAcquire(h) \/ RefuseRelease(h) PROVE IInv'
  <2>1. /\ now' = now /\ fence' = fence
        /\ call' = [call EXCEPT ![h] = NoCall]
        /\ grant' = grant \/ grant' = [grant EXCEPT ![h] = NoGrant]
    BY <1>5 DEF RefuseAcquire, RefuseRelease, Hear
  <2>2. \A g \in Holders : grant'[g] \in {grant[g], NoGrant}
    BY <2>1, <1>t DEF TypeOK
  <2>3. \A g \in Holders : call'[g].start <= now
    BY <2>1, <1>0, <1>t DEF TypeOK, NoCall, Time
  <2>4. \A g \in Holders : call'[g].op # "none" => grant'[g] = NoGrant
    BY <2>1, <2>2, <1>0, <1>t DEF TypeOK, NoCall
  <2> QED BY <1>t, <2>1, <2>2, <2>3, <2>4, GrantNothing
<1>6. ASSUME NEW h \in Holders, BeginRelease(h) PROVE IInv'
  <2>1. \A g \in Holders : call'[g].start <= now
    BY <1>6, <1>0, <1>t DEF BeginRelease, TypeOK, Time
  <2>2. \A g \in Holders : /\ call'[g].op # "none" => grant'[g] = NoGrant
                           /\ grant'[g] \in {grant[g], NoGrant}
    BY <1>6, <1>0, <1>t DEF BeginRelease, TypeOK
  <2> QED BY <1>6, <1>t, <2>1, <2>2, GrantNothing DEF BeginRelease
<1>7. ASSUME NEW h \in Holders, Release(h) PROVE IInv'
  <2>1. /\ fence'.holder = h /\ fence.holder = h
        /\ fence'.token = fence.token
        /\ fence'.workflowExpires = fence.workflowExpires
        /\ grant' = grant \/ grant' = [grant EXCEPT ![h] = NoGrant]
    BY <1>7, <1>t DEF Release, MatchesHolder, Hear, TypeOK
  <2> QED BY <1>7, <1>t, <2>1, RowOfCaller DEF Release, Hear
<1>8. ASSUME NEW h \in Holders, Forget(h) PROVE IInv'
  <2>1. \A g \in Holders : /\ call'[g].start = call[g].start
                           /\ call'[g].op = call[g].op
                           /\ grant'[g] \in {grant[g], NoGrant}
    BY <1>8, <1>t DEF Forget, TypeOK
  <2>2. \A g \in Holders : call'[g].op # "none" => grant'[g] = NoGrant
    BY <2>1, <1>0
  <2> QED BY <1>8, <1>0, <1>t, <2>1, <2>2, GrantNothing DEF Forget
<1>9. CASE UNCHANGED vars
  BY <1>9, <1>0, <1>t, GrantNothing DEF vars
<1> QED BY <1>1, <1>2, <1>3, <1>4, <1>5, <1>6, <1>7, <1>8, <1>9 DEF Next

LEMMA Invariant == Spec => []IInv
<1> QED BY InitInvariant, StepInvariant, PTL DEF Spec

(* Every variable keeps its type. *)
THEOREM TypeCorrect == Spec => []TypeOK
<1>1. IInv => TypeOK
  BY DEF IInv
<1> QED BY <1>1, Invariant, PTL

(* No two recoverers ever both hold a live grant. *)
THEOREM RecoverersExcluded == Spec => []AtMostOneLive
<1>1. IInv => AtMostOneLive
  BY DEF IInv, LivePinsRow, AtMostOneLive
<1> QED BY <1>1, Invariant, PTL

(* A live grant passes the check before a process stop. *)
THEOREM LiveGrantGood == Spec => []LiveGrantHonoured
<1>1. IInv => LiveGrantHonoured
  BY DEF IInv, LivePinsRow, LiveGrantHonoured, Live
<1> QED BY <1>1, Invariant, PTL

(* Tokens are never shared. *)
THEOREM TokensUnique == Spec => []TokensNameOneHolder
<1>1. IInv => TokensNameOneHolder
  BY DEF IInv
<1> QED BY <1>1, Invariant, PTL

(* No recoverer is live beside a running workflow lease. *)
THEOREM WorkflowOwnerExcluded == Spec => []WorkflowOwnerUndisturbed
<1>1. IInv => WorkflowOwnerUndisturbed
  BY DEF IInv, LivePinsRow, WorkflowOwnerUndisturbed
<1> QED BY <1>1, Invariant, PTL

(* The fence token never goes back. *)
THEOREM TokenGrows == Spec => TokenMonotonic
<1>1. TypeOK /\ [Next]_vars =>
        [/\ fence'.token >= fence.token
         /\ fence'.holder # fence.holder => fence'.token > fence.token]_vars
  <2> SUFFICES ASSUME TypeOK, Next
               PROVE  /\ fence'.token >= fence.token
                      /\ fence'.holder # fence.holder => fence'.token > fence.token
    OBVIOUS
  <2>1. fence.token \in Nat
    BY DEF TypeOK
  <2>2. \/ fence' = fence
        \/ \E h \in Holders : Take(h) \/ Release(h)
    BY DEF Next, Tick, BeginAcquire, Reenter, RefuseAcquire, BeginRelease,
           RefuseRelease, Forget
  <2>3. ASSUME NEW h \in Holders, Take(h) \/ Release(h)
        PROVE  \/ fence'.token = fence.token + 1
               \/ fence'.token = fence.token /\ fence'.holder = fence.holder
    BY <2>3 DEF Take, Release, TypeOK
  <2> QED BY <2>1, <2>2, <2>3
<1> QED BY <1>1, TypeCorrect, PTL DEF Spec, TokenMonotonic
-----------------------------------------------------------------------------
(* The dashboard and its evaluation.                                       *)

Views == [snapshot : Nat, assets : Nat]
Phases == {"off", "loading", "ready", "closing", "closed", "invalid"}
Connections == {"none", "queued", "open", "asked", "refused", "gone"}

DashboardTyped ==
  /\ disk \in [Files -> Nat] /\ view \in Views /\ phase \in Phases
  /\ conn \in [Clients -> Connections] /\ query \in [Clients -> Requests]
  /\ answer \in [Clients -> [status : Nat, body : Views]]
  /\ todo \in 0 .. ROUTES /\ trial \in Nat
  /\ shown \in Seq(Nat) /\ heard \subseteq Nat \X Nat \X Views
  /\ flawed \in BOOLEAN /\ outcome \in {"none", "PASS", "rejected", "off"}

\* Nobody waits for or is handled by a server that is not there, and nobody
\* waits for one that closes.
NobodyInside ==
  /\ phase \in {"off", "loading", "closed", "invalid"} =>
       \A c \in Clients : conn[c] \notin {"queued", "open", "asked"}
  /\ phase = "closing" => \A c \in Clients : conn[c] # "queued"

\* The answers to trial t, and those of view v for its routes from one on.
Told(t) == {h \in heard : h[1] = t}
From(t, v, route) == {<<t, n, v>> : n \in route .. ROUTES}
Heard(t) == \E v \in Views : v.snapshot = shown[t] /\ Told(t) = From(t, v, 1)

\* Where the evaluation is: what it has shown and asked for.
Standing ==
  /\ trial = 0 => phase = "off" /\ shown = <<>>
  /\ trial > 0 =>
       /\ phase # "invalid"
       /\ Len(shown) = IF phase = "off" THEN trial - 1 ELSE trial
       /\ phase # "off" => shown[trial] = view.snapshot
       /\ phase \in {"off", "loading"} => todo = ROUTES
       /\ phase \in {"closing", "closed"} => todo = 0
  /\ limit = 0
  /\ \A h \in heard : h[1] \in 1 .. trial
  /\ todo = 0 => conn[Evaluator] = "none"

\* Without a flaw, it has heard all routes of the trials before, and of this
\* one all it has not still to ask for, and all were of the view.
AllHeard ==
  trial > 0 /\ ~flawed =>
    /\ \A t \in 1 .. (trial - 1) : Heard(t)
    /\ Told(trial) = From(trial, view, todo + 1)

Earned == outcome = "PASS" => Stable /\ \A t \in 1 .. TRIAL_COUNT : Heard(t)

EvaluationInv ==
  /\ DashboardTyped /\ NobodyInside /\ Earned
  /\ Running => Standing /\ AllHeard

LEMMA OneMoreShown ==
  ASSUME NEW s \in Seq(Nat), NEW n \in Nat
  PROVE  /\ Append(s, n) \in Seq(Nat) /\ Len(Append(s, n)) = Len(s) + 1
         /\ Append(s, n)[Len(s) + 1] = n
         /\ \A i \in 1 .. Len(s) : Append(s, n)[i] = s[i]
OBVIOUS

\* Every step keeps the types.
LEMMA TypesKept ==
  ASSUME EvaluationInv, [EvaluationNext]_allVars
  PROVE  DashboardTyped'
<1> USE EvaluatorAssumption, CountsAssumption DEF EvaluationInv, DashboardTyped
<1>1. Nothing \in Views BY DEF Nothing, Views
<1>2. CASE Begin BY <1>2 DEF Begin, dashboard, files, server, clients
<1>3. ASSUME LoadSnapshot PROVE view' \in Views /\ phase' \in Phases /\ UNCHANGED <<files, clients>>
  <2>1. disk["snapshot"] \in Nat BY DEF Files
  <2>2. [Nothing EXCEPT !.snapshot = disk["snapshot"]] \in Views BY <1>1, <2>1 DEF Views
  <2>3. QED BY <1>1, <1>3, <2>2 DEF LoadSnapshot, Phases
<1>4. CASE Project
  <2>1. view'.snapshot \in Nat BY <1>3, <1>4 DEF Project, Views
  <2>2. Append(shown, view'.snapshot) \in Seq(Nat) BY <2>1, OneMoreShown
  <2>3. shown' = shown \/ shown' = Append(shown, view'.snapshot) BY <1>4 DEF Project, Reject
  <2>4. shown' \in Seq(Nat) BY <2>2, <2>3
  <2>5. QED BY <1>3, <1>4, <2>4 DEF Project, Reject, files, clients
<1>5. CASE Alone BY <1>3, <1>5 DEF Alone, trials, files, clients
<1>6. CASE Bind /\ UNCHANGED trials
  <2>1. disk["assets"] \in Nat BY DEF Files
  <2>2. [view EXCEPT !.assets = disk["assets"]] \in Views BY <2>1 DEF Views
  <2>3. QED BY <1>6, <2>2 DEF Bind, trials, files, clients, Phases
<1>7. CASE (Close \/ WaitPasses) /\ UNCHANGED trials
  BY <1>7 DEF Close, WaitPasses, trials, files, clients, Phases
<1>8. ASSUME Stop, UNCHANGED trials PROVE DashboardTyped'
  <2>1. conn' \in [Clients -> Connections] BY <1>8 DEF Stop, Connections
  <2>2. QED BY <1>8, <2>1 DEF Stop, trials, files, Phases
<1>9. ASSUME NEW c \in Clients, Connect(c), UNCHANGED trials PROVE DashboardTyped'
  BY <1>9 DEF Connect, trials, files, server, Connections
<1>10. ASSUME NEW c \in Clients, NEW q \in Requests, Ask(c, q), UNCHANGED trials PROVE DashboardTyped'
  BY <1>10 DEF Ask, trials, files, server, Connections
<1>11. ASSUME NEW c \in Clients, Accept(c) \/ Leave(c), UNCHANGED trials PROVE DashboardTyped'
  BY <1>11 DEF Accept, Leave, trials, files, server, Connections
<1>12. ASSUME NEW c \in Clients, Answer(c), UNCHANGED trials PROVE DashboardTyped'
  <2>1. Status(query[c]) \in Nat BY DEF Status, Requests
  <2>2. Body(query[c]) \in Views BY <1>1 DEF Body
  <2>3. [status |-> Status(query[c]), body |-> Body(query[c])] \in [status : Nat, body : Views]
    BY <2>1, <2>2
  <2>4. answer' \in [Clients -> [status : Nat, body : Views]] BY <1>12, <2>3 DEF Answer
  <2>5. conn' \in [Clients -> Connections] BY <1>12 DEF Answer, Connections
  <2>6. QED BY <1>12, <2>4, <2>5 DEF Answer, trials, files, server
<1>13. CASE Request
  <2>1. UNCHANGED trials BY <1>13 DEF Request
  <2>2. CASE Connect(Evaluator) BY <1>9, <2>1, <2>2
  <2>3. CASE Ask(Evaluator, "read") BY <1>10, <2>1, <2>3 DEF Requests
  <2>4. QED BY <1>13, <2>2, <2>3 DEF Request
<1>14. ASSUME NEW good \in BOOLEAN, Settle(good), todo > 0, heard' \subseteq Nat \X Nat \X Views
       PROVE  DashboardTyped'
  <2>1. [status |-> 0, body |-> Nothing] \in [status : Nat, body : Views] BY <1>1
  <2>2. answer' \in [Clients -> [status : Nat, body : Views]] BY <1>14, <2>1 DEF Settle
  <2>3. conn' \in [Clients -> Connections] BY <1>14 DEF Settle, Connections
  <2>4. todo' \in 0 .. ROUTES BY <1>14 DEF Settle
  <2>5. flawed' \in BOOLEAN BY <1>14 DEF Settle
  <2>6. QED BY <1>14, <2>2, <2>3, <2>4, <2>5 DEF Settle, server
<1>15. CASE HearAnswer
  <2>1. todo > 0 BY <1>15 DEF HearAnswer, Standing
  <2>2. <<trial, todo, answer[Evaluator].body>> \in Nat \X Nat \X Views OBVIOUS
  <2>3. heard' \subseteq Nat \X Nat \X Views BY <1>15, <2>2 DEF HearAnswer
  <2>4. (answer[Evaluator] = [status |-> 200, body |-> view]) \in BOOLEAN OBVIOUS
  <2>5. QED BY <1>14, <1>15, <2>1, <2>3, <2>4 DEF HearAnswer
<1>16. CASE RequestFails
  BY <1>14, <1>16 DEF RequestFails
<1>17. CASE Shutdown BY <1>8, <1>17 DEF Shutdown
<1>18. CASE NextTrial BY <1>18 DEF NextTrial, files, clients, Phases
<1>19. CASE Publish BY <1>19 DEF Publish, Reject, dashboard, files, server, clients
<1>20. CASE Edit /\ UNCHANGED trials
  <2>1. disk' \in [Files -> Nat] BY <1>20 DEF Edit
  <2>2. QED BY <1>20, <2>1 DEF Edit, trials, server, clients
<1>21. CASE UNCHANGED allVars
  BY <1>21 DEF allVars, dashboard, trials, files, server, clients
<1>22. CASE Serving BY <1>6, <1>7, <1>8, <1>22 DEF Serving, LastTurn
<1>23. ASSUME NEW c \in Clients, Go(c) \/ (Others(c) /\ Client(c) /\ UNCHANGED trials)
       PROVE  DashboardTyped'
  BY <1>9, <1>10, <1>11, <1>12, <1>23 DEF Go, Handle, Client
<1>24. CASE Interrupt /\ UNCHANGED trials BY <1>8, <1>24 DEF Interrupt
<1>25. QED
  BY <1>2, <1>4, <1>5, <1>13, <1>15, <1>16, <1>17, <1>18, <1>19, <1>20, <1>21, <1>22, <1>23,
     <1>24 DEF EvaluationNext, Evaluate
\* Every step keeps clients outside of a server that is not there.
LEMMA InsideKept ==
  ASSUME DashboardTyped, NobodyInside, [EvaluationNext]_allVars
  PROVE  NobodyInside'
<1> USE EvaluatorAssumption DEF DashboardTyped, NobodyInside
<1>1. ASSUME UNCHANGED conn, UNCHANGED phase \/ phase' \in {"off", "loading", "invalid"},
             phase \in {"off", "loading", "closed", "invalid"} \/ UNCHANGED phase
      PROVE  NobodyInside'
  BY <1>1
<1>2. CASE Begin BY <1>1, <1>2 DEF Begin, dashboard, server, clients
<1>3. CASE LoadSnapshot BY <1>1, <1>3 DEF LoadSnapshot, clients
<1>4. CASE Bind BY <1>4 DEF Bind, clients
<1>5. CASE Close BY <1>5 DEF Close, clients, Handled
<1>6. CASE WaitPasses BY <1>1, <1>6 DEF WaitPasses, clients
<1>7. CASE Stop
  <2>1. phase' = "closing" /\ \A c \in Clients : conn'[c] # "queued"
    BY <1>7 DEF Stop
  <2>2. QED BY <2>1
<1>8. ASSUME NEW c \in Clients, Connect(c) PROVE NobodyInside'
  BY <1>8 DEF Connect, server
<1>9. ASSUME NEW c \in Clients, NEW q \in Requests, Ask(c, q) PROVE NobodyInside'
  BY <1>9 DEF Ask, server
<1>10. ASSUME NEW c \in Clients, Accept(c) PROVE NobodyInside'
  BY <1>10 DEF Accept, MayTurn
<1>11. ASSUME NEW c \in Clients, Answer(c) \/ Leave(c) PROVE NobodyInside'
  BY <1>11 DEF Answer, Leave, server
<1>12. ASSUME NEW good \in BOOLEAN, Settle(good) PROVE NobodyInside'
  BY <1>12 DEF Settle, server
<1>13. CASE Request BY <1>8, <1>9, <1>13 DEF Request, Requests
<1>14. CASE HearAnswer \/ RequestFails BY <1>12, <1>14 DEF HearAnswer, RequestFails
<1>15. CASE NextTrial BY <1>1, <1>15 DEF NextTrial, clients
<1>16. CASE Publish \/ Edit \/ UNCHANGED allVars
  BY <1>1, <1>16 DEF Publish, Edit, allVars, dashboard, server, clients
<1>17. ASSUME NEW c \in Clients, Go(c) \/ Client(c) PROVE NobodyInside'
  BY <1>8, <1>9, <1>10, <1>11, <1>17 DEF Go, Handle, Client
<1>18. CASE Serving \/ Shutdown \/ Interrupt
  BY <1>4, <1>5, <1>6, <1>7, <1>18 DEF Serving, LastTurn, Shutdown, Interrupt
<1>19. QED
  BY <1>2, <1>3, <1>13, <1>14, <1>15, <1>16, <1>17, <1>18
     DEF EvaluationNext, Evaluate, Project, Alone
\* What was heard of a trial is heard of it for good.
LEMMA HeardStays ==
  ASSUME NEW t, Heard(t), Told(t)' = Told(t), shown'[t] = shown[t]
  PROVE  Heard(t)'
<1>1. PICK v \in Views : v.snapshot = shown[t] /\ Told(t) = From(t, v, 1) BY DEF Heard
<1>2. v.snapshot = shown'[t] /\ Told(t)' = From(t, v, 1) BY <1>1
<1>3. QED BY <1>2 DEF Heard, From

\* A step after which the evaluation is where it was.
LEMMA StandsStill ==
  ASSUME EvaluationInv, Running, UNCHANGED trials, UNCHANGED <<view, limit>>,
         trial = 0 => phase' = "off",
         trial > 0 => /\ phase' # "invalid"
                      /\ phase' = "off" <=> phase = "off"
                      /\ phase' \in {"off", "loading"} => todo = ROUTES
                      /\ phase' \in {"closing", "closed"} => todo = 0,
         todo = 0 => conn'[Evaluator] = "none"
  PROVE  Standing' /\ AllHeard'
<1>1. UNCHANGED <<trial, todo, flawed, shown, heard>> BY DEF trials
<1>2. trial \in Nat /\ todo \in 0 .. ROUTES /\ Standing /\ AllHeard
  BY DEF EvaluationInv, DashboardTyped
<1>3. \A t : Told(t)' = Told(t) BY <1>1 DEF Told
<1>4. AllHeard'
  <2>1. ASSUME NEW t, Heard(t) PROVE Heard(t)'
    BY <1>1, <1>3, <2>1, HeardStays
  <2>2. From(trial, view, todo + 1)' = From(trial, view, todo + 1) BY <1>1 DEF From
  <2>3. Told(trial)' = Told(trial) BY <1>1 DEF Told
  <2>4. trial' = trial /\ flawed' = flawed BY <1>1
  <2>5. SUFFICES ASSUME trial > 0, ~flawed
                 PROVE  /\ \A t \in 1 .. (trial - 1) : Heard(t)'
                        /\ Told(trial)' = From(trial, view, todo + 1)'
    BY <2>4 DEF AllHeard
  <2>6. QED BY <1>2, <2>1, <2>2, <2>3, <2>5 DEF AllHeard
<1>5. /\ trial' = trial /\ todo' = todo /\ shown' = shown /\ heard' = heard
      /\ view' = view /\ limit' = 0
  BY <1>1, <1>2 DEF Standing
<1>6. trial' = 0 => phase' = "off" /\ shown' = <<>> BY <1>2, <1>5 DEF Standing
<1>7. ASSUME trial > 0
      PROVE  /\ Len(shown') = IF phase' = "off" THEN trial' - 1 ELSE trial'
             /\ phase' # "off" => shown'[trial'] = view'.snapshot
  BY <1>2, <1>5, <1>7 DEF Standing
<1>8. \A h \in heard' : h[1] \in 1 .. trial' BY <1>2, <1>5 DEF Standing
<1>9. Standing' BY <1>2, <1>5, <1>6, <1>7, <1>8 DEF Standing
<1>10. QED BY <1>4, <1>9
\* A step of the server or of a client beside the evaluation.
LEMMA ServerStands ==
  ASSUME EvaluationInv, Running,
         \/ Request \/ Shutdown
         \/ (Close \/ WaitPasses \/ LastTurn \/ Edit) /\ UNCHANGED trials
         \/ \E c \in Clients : Go(c) \/ (Others(c) /\ Client(c) /\ UNCHANGED trials)
  PROVE  Standing' /\ AllHeard'
<1> USE EvaluatorAssumption
<1>1. DashboardTyped /\ NobodyInside /\ Standing BY DEF EvaluationInv
<1>2. ASSUME UNCHANGED trials, UNCHANGED server, todo = 0 => conn'[Evaluator] = "none"
      PROVE  Standing' /\ AllHeard'
  BY <1>1, <1>2, StandsStill DEF Standing, server
<1>3. ASSUME NEW c \in Clients, Connect(c) \/ Leave(c) \/ \E q \in Requests : Ask(c, q),
             UNCHANGED trials, c # Evaluator \/ todo > 0
      PROVE  Standing' /\ AllHeard'
  <2>1. UNCHANGED server BY <1>3 DEF Connect, Leave, Ask
  <2>2. todo = 0 => conn'[Evaluator] = "none"
    BY <1>1, <1>3 DEF Standing, DashboardTyped, Connect, Leave, Ask
  <2>3. QED BY <1>2, <1>3, <2>1, <2>2
<1>4. ASSUME NEW c \in Clients, Accept(c) \/ Answer(c), UNCHANGED trials
      PROVE  Standing' /\ AllHeard'
  <2>1. UNCHANGED <<view, limit, phase>> BY <1>4 DEF Accept, Answer, server
  <2>2. todo = 0 => conn'[Evaluator] = "none"
    BY <1>1, <1>4 DEF Standing, DashboardTyped, Accept, Answer
  <2>3. QED BY <1>1, <1>4, <2>1, <2>2, StandsStill DEF Standing
<1>5. CASE Request
  <2>1. todo > 0 /\ UNCHANGED trials BY <1>5 DEF Request
  <2>2. Connect(Evaluator) \/ \E q \in Requests : Ask(Evaluator, q)
    BY <1>5 DEF Request, Requests
  <2>3. QED BY <1>3, <2>1, <2>2
<1>6. CASE Shutdown
  <2>1. /\ UNCHANGED trials /\ UNCHANGED <<view, limit>> /\ phase = "ready" /\ phase' = "closing"
        /\ trial > 0 /\ todo = 0
        /\ conn' = [c \in Clients |-> IF conn[c] = "queued" THEN "refused" ELSE conn[c]]
    BY <1>6 DEF Shutdown, Stop
  <2>2. conn'[Evaluator] = "none" BY <1>1, <2>1 DEF Standing
  <2>3. trial # 0 BY <2>1, <1>1 DEF DashboardTyped
  <2>4. QED BY <2>1, <2>2, <2>3, StandsStill
<1>7. CASE Close /\ UNCHANGED trials
  <2>1. /\ UNCHANGED trials /\ UNCHANGED <<view, limit, conn>> /\ phase = "closing"
        /\ phase' = "closed"
    BY <1>7 DEF Close, clients
  <2>2. trial # 0 /\ (trial > 0 => todo = 0) BY <1>1, <2>1 DEF Standing
  <2>3. todo = 0 => conn'[Evaluator] = "none" BY <1>1, <2>1 DEF Standing
  <2>4. QED BY <2>1, <2>2, <2>3, StandsStill
<1>8. CASE Edit /\ UNCHANGED trials
  <2>1. UNCHANGED server /\ UNCHANGED conn BY <1>8 DEF Edit, clients
  <2>2. QED BY <1>1, <1>2, <1>8, <2>1 DEF Standing
<1>9. ~WaitPasses /\ ~LastTurn BY <1>1 DEF Standing, WaitPasses, LastTurn
<1>10. ASSUME NEW c \in Clients, Go(c) \/ (Others(c) /\ Client(c) /\ UNCHANGED trials)
       PROVE  Standing' /\ AllHeard'
  <2>1. UNCHANGED trials BY <1>10 DEF Go
  <2>2. \/ Accept(c) \/ Answer(c)
        \/ /\ c # Evaluator
           /\ Connect(c) \/ Leave(c) \/ \E q \in Requests : Ask(c, q)
    BY <1>10 DEF Go, Handle, Client, Others
  <2>3. QED BY <1>3, <1>4, <2>1, <2>2
<1>11. QED BY <1>5, <1>6, <1>7, <1>8, <1>9, <1>10

\* Nothing is heard of a trial before its server is bound.
LEMMA NothingFrom == ASSUME NEW t, NEW v PROVE From(t, v, ROUTES + 1) = {}
BY CountsAssumption DEF From

\* A trial begins, and its snapshot is loaded, shown and served.
LEMMA LoadingStands ==
  ASSUME EvaluationInv, Running, Begin \/ Project \/ (Bind /\ UNCHANGED trials), Running'
  PROVE  Standing' /\ AllHeard'
<1> USE CountsAssumption
<1>1. DashboardTyped /\ NobodyInside /\ Standing /\ AllHeard BY DEF EvaluationInv
<1>2. CASE Begin
  <2>1. /\ trial = 0 /\ trial' = 1 /\ todo' = ROUTES /\ shown' = shown /\ heard' = heard
        /\ phase' = phase /\ view' = view /\ limit' = limit /\ conn' = conn
    BY <1>2 DEF Begin, dashboard, server, clients
  <2>2. phase = "off" /\ shown = <<>> /\ limit = 0 BY <1>1, <2>1 DEF Standing
  <2>3. heard = {} BY <1>1, <2>1 DEF Standing
  <2>4. Len(shown') = 0 BY <2>1, <2>2
  <2>5. Standing' BY <2>1, <2>2, <2>3, <2>4 DEF Standing
  <2>6. Told(trial)' = {} /\ From(trial, view, todo + 1)' = {}
    BY <2>1, <2>3, NothingFrom DEF Told, From
  <2>7. QED BY <2>1, <2>5, <2>6 DEF AllHeard
<1>3. CASE Project
  <2>1. /\ trial > 0 /\ phase = "off" /\ phase' = "loading"
        /\ shown' = Append(shown, view'.snapshot)
        /\ view' = [Nothing EXCEPT !.snapshot = disk["snapshot"]]
        /\ trial' = trial /\ todo' = todo /\ flawed' = flawed /\ heard' = heard
        /\ limit' = limit /\ conn' = conn
    BY <1>3 DEF Project, Reject, LoadSnapshot, Running, clients
  <2>2. view'.snapshot \in Nat BY <1>1, <2>1 DEF DashboardTyped, Files, Nothing
  <2>3. /\ Len(shown) = trial - 1 /\ trial \in Nat /\ todo = ROUTES /\ limit = 0
        /\ \A h \in heard : h[1] \in 1 .. trial
    BY <1>1, <2>1 DEF Standing, DashboardTyped
  <2>4. /\ Len(shown') = trial /\ shown'[trial] = view'.snapshot
        /\ \A t \in 1 .. (trial - 1) : shown'[t] = shown[t]
    BY <1>1, <2>1, <2>2, <2>3, OneMoreShown DEF DashboardTyped
  <2>5. Standing' BY <2>1, <2>3, <2>4 DEF Standing
  <2>6. \A t : Told(t)' = Told(t) BY <2>1 DEF Told
  <2>7. ASSUME ~flawed PROVE \A t \in 1 .. (trial - 1) : Heard(t)'
    BY <1>1, <2>1, <2>4, <2>6, <2>7, HeardStays DEF AllHeard
  <2>8. ASSUME ~flawed PROVE Told(trial)' = {} /\ From(trial, view, todo + 1)' = {}
    BY <1>1, <2>1, <2>3, <2>8, NothingFrom DEF AllHeard, Told, From
  <2>9. QED BY <2>1, <2>5, <2>7, <2>8 DEF AllHeard
<1>4. CASE Bind /\ UNCHANGED trials
  <2>1. /\ phase = "loading" /\ phase' = "ready" /\ view' = [view EXCEPT !.assets = disk["assets"]]
        /\ trial' = trial /\ todo' = todo /\ flawed' = flawed /\ heard' = heard /\ shown' = shown
        /\ limit' = limit /\ conn' = conn
    BY <1>4 DEF Bind, trials, clients
  <2>2. view'.snapshot = view.snapshot BY <1>1, <2>1 DEF DashboardTyped, Views
  <2>3. trial > 0 /\ todo = ROUTES BY <1>1, <2>1 DEF Standing, DashboardTyped
  <2>4. Standing' BY <1>1, <2>1, <2>2, <2>3 DEF Standing
  <2>5. \A t : Told(t)' = Told(t) BY <2>1 DEF Told
  <2>6. ASSUME ~flawed PROVE \A t \in 1 .. (trial - 1) : Heard(t)'
    BY <1>1, <2>1, <2>3, <2>5, <2>6, HeardStays DEF AllHeard
  <2>7. ASSUME ~flawed PROVE Told(trial)' = {} /\ From(trial, view, todo + 1)' = {}
    BY <1>1, <2>1, <2>3, <2>7, NothingFrom DEF AllHeard, Told, From
  <2>8. QED BY <2>1, <2>4, <2>6, <2>7 DEF AllHeard
<1>5. QED BY <1>2, <1>3, <1>4

\* An exchange is over, and the next trial is taken.
LEMMA ExchangeStands ==
  ASSUME EvaluationInv, Running, HearAnswer \/ RequestFails \/ NextTrial
  PROVE  Standing' /\ AllHeard'
<1> USE CountsAssumption, EvaluatorAssumption
<1>1. DashboardTyped /\ NobodyInside /\ Standing /\ AllHeard BY DEF EvaluationInv
<1>2. CASE HearAnswer
  <2>1. /\ conn[Evaluator] = "open" /\ heard' = heard \cup {<<trial, todo, answer[Evaluator].body>>}
        /\ todo' = todo - 1 /\ flawed' = (flawed \/ ~(answer[Evaluator] = [status |-> 200, body |-> view]))
        /\ conn' = [conn EXCEPT ![Evaluator] = "none"]
        /\ trial' = trial /\ shown' = shown /\ phase' = phase /\ view' = view /\ limit' = limit
    BY <1>2 DEF HearAnswer, Settle, server
  <2>2. phase \in {"ready", "closing"} /\ todo # 0 /\ todo \in 0 .. ROUTES /\ trial \in Nat
    BY <1>1, <2>1 DEF NobodyInside, Standing, DashboardTyped, Phases
  <2>3. trial > 0 /\ phase = "ready" BY <1>1, <2>2 DEF Standing
  <2>4. conn'[Evaluator] = "none" BY <1>1, <2>1 DEF DashboardTyped
  <2>5. \A h \in heard' : h[1] \in 1 .. trial BY <1>1, <2>1, <2>2, <2>3 DEF Standing
  <2>6. Standing' BY <1>1, <2>1, <2>3, <2>4, <2>5 DEF Standing
  <2>7. ASSUME NEW t \in 1 .. (trial - 1), ~flawed PROVE Heard(t)'
    <3>1. <<trial, todo, answer[Evaluator].body>>[1] # t BY <2>2
    <3>2. Told(t)' = Told(t) BY <2>1, <3>1 DEF Told
    <3>3. QED BY <1>1, <2>1, <2>3, <2>7, <3>2, HeardStays DEF AllHeard
  <2>8. ASSUME ~flawed' PROVE Told(trial)' = From(trial, view, todo + 1)'
    <3>1. ~flawed /\ answer[Evaluator].body = view
      <4>1. ~(flawed \/ ~(answer[Evaluator] = [status |-> 200, body |-> view]))
        BY <2>1, <2>8, Zenon
      <4>2. ~flawed /\ answer[Evaluator] = [status |-> 200, body |-> view] BY <4>1
      <4>3. [status |-> 200, body |-> view].body = view OBVIOUS
      <4>4. QED BY <4>2, <4>3, Zenon
    <3>2. Told(trial) = From(trial, view, todo + 1) BY <1>1, <2>3, <3>1 DEF AllHeard
    <3>3. Told(trial)' = Told(trial) \cup {<<trial, todo, view>>}
      <4>1. <<trial, todo, view>>[1] = trial /\ heard' = heard \cup {<<trial, todo, view>>}
        BY <2>1, <3>1
      <4>2. Told(trial)' = {h \in heard' : h[1] = trial} BY <2>1 DEF Told
      <4> HIDE <2>1
      <4>3. QED BY <4>1, <4>2 DEF Told
    <3>4. todo .. ROUTES = {todo} \cup ((todo + 1) .. ROUTES) BY <2>2
    <3>5. From(trial, view, todo) = From(trial, view, todo + 1) \cup {<<trial, todo, view>>}
      BY <3>4 DEF From
    <3>6. From(trial, view, todo + 1)' = From(trial, view, todo)
      <4>1. todo' + 1 = todo BY <2>1, <2>2
      <4>2. QED BY <2>1, <4>1 DEF From
    <3>7. QED BY <3>2, <3>3, <3>5, <3>6
  <2>9. QED BY <2>1, <2>6, <2>7, <2>8 DEF AllHeard
<1>3. CASE RequestFails
  <2>1. /\ phase = "ready" /\ todo > 0 /\ todo' = todo - 1 /\ flawed' = TRUE /\ heard' = heard
        /\ conn' = [conn EXCEPT ![Evaluator] = "none"]
        /\ trial' = trial /\ shown' = shown /\ phase' = phase /\ view' = view /\ limit' = limit
    BY <1>3 DEF RequestFails, Settle, server
  <2>2. conn'[Evaluator] = "none" BY <1>1, <2>1 DEF DashboardTyped
  <2>3. Standing' BY <1>1, <2>1, <2>2 DEF Standing
  <2>4. QED BY <2>1, <2>3 DEF AllHeard
<1>4. CASE NextTrial
  <2>1. /\ phase = "closed" /\ phase' = "off" /\ trial' = trial + 1 /\ todo' = ROUTES
        /\ flawed' = flawed /\ heard' = heard /\ shown' = shown /\ view' = view
        /\ limit' = limit /\ conn' = conn
    BY <1>4 DEF NextTrial, clients
  <2>2. trial \in Nat /\ trial > 0 /\ todo = 0 BY <1>1, <2>1 DEF Standing, DashboardTyped
  <2>3. /\ Len(shown) = trial /\ shown[trial] = view.snapshot /\ limit = 0
        /\ \A h \in heard : h[1] \in 1 .. trial
    BY <1>1, <2>1, <2>2 DEF Standing
  <2>4. Standing' BY <2>1, <2>2, <2>3 DEF Standing
  <2>5. \A t : Told(t)' = Told(t) BY <2>1 DEF Told
  <2>6. ASSUME ~flawed PROVE \A t \in 1 .. trial : Heard(t)'
    <3>1. \A t \in 1 .. (trial - 1) : Heard(t) BY <1>1, <2>2, <2>6 DEF AllHeard
    <3>2. Told(trial) = From(trial, view, 1) BY <1>1, <2>2, <2>6 DEF AllHeard
    <3>3. Heard(trial) BY <1>1, <2>3, <3>2 DEF Heard, DashboardTyped
    <3>4. \A t \in 1 .. trial : Heard(t) BY <2>2, <3>1, <3>3
    <3>5. QED BY <2>1, <2>5, <3>4, HeardStays
  <2>7. Told(trial + 1) = {} BY <2>2, <2>3 DEF Told
  <2>8. Told(trial)' = {} /\ From(trial, view, todo + 1)' = {}
    BY <2>1, <2>7, NothingFrom DEF Told, From
  <2>9. QED BY <2>1, <2>2, <2>4, <2>6, <2>8 DEF AllHeard
<1>5. QED BY <1>2, <1>3, <1>4
\* What is published is earned, and nothing is told or shown after it.
LEMMA EarnedKept ==
  ASSUME EvaluationInv, [EvaluationNext]_allVars
  PROVE  Earned'
<1> USE CountsAssumption
<1>1. DashboardTyped /\ NobodyInside /\ Earned BY DEF EvaluationInv
<1>2. CASE UNCHANGED trials
  <2>1. outcome' = outcome /\ heard' = heard /\ shown' = shown BY <1>2 DEF trials
  <2>2. \A t : Told(t)' = Told(t) BY <2>1 DEF Told
  <2>3. \A t : Heard(t) => Heard(t)' BY <2>1, <2>2, HeardStays
  <2>4. TRIAL_COUNT' = TRIAL_COUNT /\ Stable' = Stable BY <2>1 DEF TRIAL_COUNT, Stable
  <2>5. QED BY <1>1, <2>1, <2>3, <2>4 DEF Earned
<1>3. CASE Begin \/ Project \/ HearAnswer \/ RequestFails \/ NextTrial
  <2>1. outcome' # "PASS"
    BY <1>3 DEF Begin, Project, Reject, HearAnswer, RequestFails, Settle, NextTrial, Running
  <2>2. QED BY <2>1 DEF Earned
<1>4. CASE Publish
  <2>1. SUFFICES ASSUME outcome' = "PASS" PROVE Earned'
    BY DEF Earned
  <2>2. /\ Running /\ phase = "closed" /\ trial = TRIAL_COUNT /\ ~flawed /\ Stable
        /\ heard' = heard /\ shown' = shown
    BY <1>4, <2>1 DEF Publish, Reject
  <2>3. Standing /\ AllHeard BY <2>2 DEF EvaluationInv
  <2>4. trial \in Nat /\ trial > 0 /\ todo = 0 /\ shown[trial] = view.snapshot
    BY <1>1, <2>2, <2>3 DEF Standing, DashboardTyped
  <2>5. \A t \in 1 .. (trial - 1) : Heard(t) BY <2>2, <2>3, <2>4 DEF AllHeard
  <2>6. Told(trial) = From(trial, view, 1) BY <2>2, <2>3, <2>4 DEF AllHeard
  <2>7. Heard(trial) BY <1>1, <2>4, <2>6 DEF Heard, DashboardTyped
  <2>8. \A t \in 1 .. trial : Heard(t) BY <2>4, <2>5, <2>7
  <2>9. \A t : Told(t)' = Told(t) BY <2>2 DEF Told
  <2>10. \A t : Heard(t) => Heard(t)' BY <2>2, <2>9, HeardStays
  <2>11. TRIAL_COUNT' = TRIAL_COUNT /\ Stable' = Stable BY <2>2 DEF TRIAL_COUNT, Stable
  <2>12. QED BY <2>2, <2>8, <2>10, <2>11 DEF Earned
<1>5. UNCHANGED trials \/ Begin \/ Project \/ HearAnswer \/ RequestFails \/ NextTrial \/ Publish
  BY DEF EvaluationNext, Evaluate, Request, Shutdown, Serving, Alone, Go, allVars
<1>6. QED BY <1>2, <1>3, <1>4, <1>5

LEMMA EvaluationInvariant == EvaluationSpec => []EvaluationInv
<1>1. EvaluationInit => EvaluationInv
  <2> SUFFICES ASSUME EvaluationInit PROVE EvaluationInv
    OBVIOUS
  <2> USE EvaluatorAssumption, CountsAssumption DEF EvaluationInit, ServerInit
  <2>1. Nothing \in Views BY DEF Nothing, Views
  <2>2. DashboardTyped
    <3>1. [status |-> 0, body |-> Nothing] \in [status : Nat, body : Views] BY <2>1
    <3>2. answer \in [Clients -> [status : Nat, body : Views]] BY <3>1
    <3>3. disk \in [Files -> Nat] /\ conn \in [Clients -> Connections]
          /\ query \in [Clients -> Requests]
      BY DEF Connections, Requests
    <3>4. view \in Views /\ phase \in Phases BY <2>1 DEF Phases
    <3>5. shown \in Seq(Nat) /\ heard \subseteq Nat \X Nat \X Views OBVIOUS
    <3>6. flawed \in BOOLEAN /\ outcome \in {"none", "PASS", "rejected", "off"} OBVIOUS
    <3>7. QED BY <3>2, <3>3, <3>4, <3>5, <3>6 DEF DashboardTyped
  <2>3. NobodyInside BY DEF NobodyInside
  <2>4. Earned BY DEF Earned
  <2>5. Running => Standing BY DEF Running, Standing
  <2>6. AllHeard BY DEF AllHeard
  <2>7. QED BY <2>2, <2>3, <2>4, <2>5, <2>6 DEF EvaluationInv
<1>2. EvaluationInv /\ [EvaluationNext]_allVars => EvaluationInv'
  <2> SUFFICES ASSUME EvaluationInv, [EvaluationNext]_allVars PROVE EvaluationInv'
    OBVIOUS
  <2>1. DashboardTyped' /\ NobodyInside' /\ Earned'
    BY TypesKept, InsideKept, EarnedKept DEF EvaluationInv
  <2>2. ASSUME Running' PROVE Standing' /\ AllHeard'
    <3>1. CASE UNCHANGED allVars
      <4>1. UNCHANGED trials /\ UNCHANGED <<view, limit, phase, conn>>
        BY <3>1 DEF allVars, dashboard, server, clients
      <4>2. Running BY <2>2, <4>1 DEF Running, trials
      <4>3. QED BY <4>1, <4>2, StandsStill DEF EvaluationInv, Standing
    <3>2. CASE EvaluationNext
      <4>1. Running
        BY <2>2, <3>2 DEF EvaluationNext, Evaluate, Running, Begin, Project, Request, HearAnswer,
           Shutdown, NextTrial, Publish, Serving, Alone, RequestFails, Go, trials
      <4>2. ~Publish BY <2>2 DEF Publish, Reject, Running
      <4>3. QED BY <2>2, <3>2, <4>1, <4>2, ServerStands, LoadingStands, ExchangeStands
                  DEF EvaluationNext, Evaluate, Serving, Alone
    <3>3. QED BY <3>1, <3>2
  <2>3. QED BY <2>1, <2>2 DEF EvaluationInv
<1>3. QED BY <1>1, <1>2, PTL DEF EvaluationSpec

\* The dashboard's server does not close on a request that was accepted, for
\* any number of clients and whatever ends it.
THEOREM NoneCutOff == EvaluationSpec => []NothingCutOff
<1>1. EvaluationInv => NothingCutOff BY DEF EvaluationInv, NobodyInside, NothingCutOff
<1>2. QED BY <1>1, EvaluationInvariant, PTL

\* A set of answers of one view has as many as there are routes.
LEMMA OneViewTold ==
  ASSUME NEW t, NEW v
  PROVE  /\ Cardinality(From(t, v, 1)) = ROUTES
         /\ {h[3] : h \in From(t, v, 1)} = {v}
         /\ {h[3].snapshot : h \in From(t, v, 1)} = {v.snapshot}
<1> DEFINE f == [n \in 1 .. ROUTES |-> <<t, n, v>>]
<1>1. ROUTES \in Nat /\ 1 \in 1 .. ROUTES BY CountsAssumption
<1>2. f \in Bijection(1 .. ROUTES, From(t, v, 1))
  <2>1. f \in [1 .. ROUTES -> From(t, v, 1)] BY DEF From
  <2>2. \A m, n \in 1 .. ROUTES : f[m] = f[n] => m = n OBVIOUS
  <2>3. \A h \in From(t, v, 1) : \E n \in 1 .. ROUTES : f[n] = h BY DEF From
  <2>4. QED BY <2>1, <2>2, <2>3, Fun_IsBij
<1>3. ExistsBijection(1 .. ROUTES, From(t, v, 1)) BY <1>2 DEF ExistsBijection
<1>4. Cardinality(From(t, v, 1)) = ROUTES BY <1>1, <1>3, FS_CountingElements
<1>5. \A h \in From(t, v, 1) : h[3] = v BY DEF From
<1>6. <<t, 1, v>> \in From(t, v, 1) BY <1>1 DEF From
<1>7. QED BY <1>4, <1>5, <1>6

\* The evaluation passes only when it heard every route of every trial, all of
\* one view, and a scenario showed the same snapshot in every repetition, for
\* any number of scenarios, repetitions and routes and whoever edits meanwhile.
THEOREM EvaluationEarned == EvaluationSpec => []EvaluationIsEarned
<1>1. EvaluationInv => EvaluationIsEarned
  <2> SUFFICES ASSUME EvaluationInv, outcome = "PASS", NEW t \in 1 .. TRIAL_COUNT
               PROVE  /\ Cardinality(Told(t)) = ROUTES
                      /\ Cardinality({h[3] : h \in Told(t)}) = 1
                      /\ \A u \in 1 .. TRIAL_COUNT : u % SCENARIOS = t % SCENARIOS =>
                           {h[3].snapshot : h \in Told(u)} = {h[3].snapshot : h \in Told(t)}
    BY DEF EvaluationIsEarned, Told
  <2>1. Stable /\ \A u \in 1 .. TRIAL_COUNT : Heard(u) BY DEF EvaluationInv, Earned
  <2>2. PICK v \in Views : v.snapshot = shown[t] /\ Told(t) = From(t, v, 1)
    BY <2>1 DEF Heard
  <2>3. Cardinality(Told(t)) = ROUTES BY <2>2, OneViewTold
  <2>4. Cardinality({h[3] : h \in Told(t)}) = 1
    <3>1. {h[3] : h \in Told(t)} = {v} BY <2>2, OneViewTold
    <3>2. QED BY <3>1, FS_Singleton
  <2>5. \A u \in 1 .. TRIAL_COUNT : {h[3].snapshot : h \in Told(u)} = {shown[u]}
    <3>1. SUFFICES ASSUME NEW u \in 1 .. TRIAL_COUNT
                   PROVE  {h[3].snapshot : h \in Told(u)} = {shown[u]}
      OBVIOUS
    <3>2. PICK w \in Views : w.snapshot = shown[u] /\ Told(u) = From(u, w, 1)
      BY <2>1 DEF Heard
    <3>3. QED BY <3>2, OneViewTold
  <2>6. QED BY <2>1, <2>3, <2>4, <2>5 DEF Stable
<1>2. QED BY <1>1, EvaluationInvariant, PTL
=============================================================================
