---------------------------- MODULE RecoveryFence ----------------------------
(***************************************************************************)
(* The recovery fence of one interrupted run: its row in table             *)
(* incidentseal_recovery_fences and the two functions that change it.      *)
(*                                                                         *)
(* A call is one transaction.  CURRENT_TIMESTAMP is the time at which the  *)
(* transaction STARTED; the row is read and written later, once the        *)
(* advisory lock of the run is granted.  A call is therefore two steps     *)
(* here: Begin fixes the time, Execute uses it, and any number of other    *)
(* calls and ticks of the clock come between.                              *)
(*                                                                         *)
(* A holder may die with a call in flight.  PostgreSQL executes it all the *)
(* same, and nobody hears the result.  One holder identity has at most one *)
(* call in flight: the host waits for psql, and a restarted host comes     *)
(* back to the queue of the same lock.                                     *)
(***************************************************************************)
EXTENDS Integers

CONSTANTS
  Holders,         \* recovery holder identities
  WorkflowTokens,  \* fence tokens a caller may name for the workflow lease
  MaxLease,        \* five minutes
  MaxTime,         \* bound: the last instant
  MaxToken,        \* the largest recovery fence token the row may carry
  NoHolder         \* the NULL of recovery_holder_id

ASSUME TimeAssumption == MaxLease \in Nat \ {0} /\ MaxTime \in Nat /\ MaxToken \in Nat
ASSUME TokenAssumption == WorkflowTokens \subseteq Nat /\ NoHolder \notin Holders

VARIABLES
  now,    \* the clock of the database
  fence,  \* the row
  call,   \* call[h]: the call h has in flight
  grant   \* grant[h]: the token h believes it holds, and until when

vars == <<now, fence, call, grant>>

Time == 0..MaxTime
NoGrant == [token |-> 0, expires |-> 0]
NoCall == [op |-> "none", start |-> 0, expires |-> 0, token |-> 0, heard |-> TRUE]

Init ==
  /\ now = 0
  /\ \E token \in WorkflowTokens, expires \in Time :
        fence = [workflowToken |-> token, workflowExpires |-> expires,
                 holder |-> NoHolder, token |-> 0, expires |-> 0]
  /\ call = [h \in Holders |-> NoCall]
  /\ grant = [h \in Holders |-> NoGrant]

Tick ==
  /\ now < MaxTime
  /\ now' = now + 1
  /\ UNCHANGED <<fence, call, grant>>

-----------------------------------------------------------------------------
(* The recoverer asks for the fence.  It names the workflow token it        *)
(* observed and an expiry by its own clock, which may disagree with the    *)
(* database's.                                                              *)
BeginAcquire(h) ==
  /\ call[h].op = "none"
  /\ grant[h] = NoGrant
  /\ \E token \in WorkflowTokens, expires \in 0..(now + MaxLease + 1) :
        call' = [call EXCEPT ![h] =
          [op |-> "acquire", start |-> now, expires |-> expires,
           token |-> token, heard |-> TRUE]]
  /\ UNCHANGED <<now, fence, grant>>

RequestValid(c) == c.expires > c.start /\ c.expires <= c.start + MaxLease

\* Mutant of WorkflowOver: the expiry of the workflow's lease is not checked.
WorkflowKnown(c) == c.token = fence.workflowToken

WorkflowOver(c) ==
  c.token = fence.workflowToken /\ fence.workflowExpires <= c.start

\* Mutant of HeldAt: off by one.
HeldAfter(start) == fence.holder # NoHolder /\ fence.expires > start + 1

\* The row is still held as of the start of the call.
HeldAt(start) == fence.holder # NoHolder /\ fence.expires > start

\* The caller hears the result, unless it died meanwhile.
Hear(h, g) ==
  /\ grant' = IF call[h].heard THEN [grant EXCEPT ![h] = g] ELSE grant
  /\ call' = [call EXCEPT ![h] = NoCall]

(* A fence nobody holds is taken: a new token and the requested expiry.     *)
Take(h) ==
  /\ call[h].op = "acquire"
  /\ RequestValid(call[h]) /\ WorkflowOver(call[h])
  /\ ~HeldAt(call[h].start)
  /\ fence.token < MaxToken
  /\ fence' = [fence EXCEPT !.holder = h, !.token = fence.token + 1,
                            !.expires = call[h].expires]
  /\ Hear(h, [token |-> fence'.token, expires |-> fence'.expires])
  /\ UNCHANGED now

(* The same holder asks again: the same token, and the expiry it had.       *)
Reenter(h) ==
  /\ call[h].op = "acquire"
  /\ RequestValid(call[h]) /\ WorkflowOver(call[h])
  /\ HeldAt(call[h].start) /\ fence.holder = h
  /\ Hear(h, [token |-> fence.token, expires |-> fence.expires])
  /\ UNCHANGED <<now, fence>>

(* IS_RECOVERY_FENCE, IS_RECOVERY_ACTIVE_OWNER, or the range check on the   *)
(* token column.                                                            *)
RefuseAcquire(h) ==
  /\ call[h].op = "acquire"
  /\ \/ ~RequestValid(call[h])
     \/ ~WorkflowOver(call[h])
     \/ HeldAt(call[h].start) /\ fence.holder # h
     \/ ~HeldAt(call[h].start) /\ fence.token = MaxToken
  /\ Hear(h, NoGrant)
  /\ UNCHANGED <<now, fence>>

(* The recoverer is done and gives its token back.                          *)
BeginRelease(h) ==
  /\ call[h].op = "none"
  /\ grant[h] # NoGrant
  /\ call' = [call EXCEPT ![h] =
       [op |-> "release", start |-> now, expires |-> 0,
        token |-> grant[h].token, heard |-> TRUE]]
  /\ grant' = [grant EXCEPT ![h] = NoGrant]
  /\ UNCHANGED <<now, fence>>

MatchesHolder(h) ==
  /\ fence.holder = h
  /\ fence.token = call[h].token
  /\ fence.expires > call[h].start

(* The row expires as of the start of the call ...                          *)
Release(h) ==
  /\ call[h].op = "release"
  /\ MatchesHolder(h)
  /\ fence' = [fence EXCEPT !.expires = call[h].start]
  /\ Hear(h, NoGrant)
  /\ UNCHANGED now

(* ... or the call fails: the token is no longer the caller's.              *)
RefuseRelease(h) ==
  /\ call[h].op = "release"
  /\ ~MatchesHolder(h)
  /\ Hear(h, NoGrant)
  /\ UNCHANGED <<now, fence>>

(* The recoverer dies, or gives up on an error: it forgets its token        *)
(* without releasing it, and will not hear of a call in flight.             *)
Forget(h) ==
  /\ grant[h] # NoGrant \/ (call[h].heard /\ call[h].op # "none")
  /\ grant' = [grant EXCEPT ![h] = NoGrant]
  /\ call' = IF call[h].op = "none" THEN call ELSE [call EXCEPT ![h].heard = FALSE]
  /\ UNCHANGED <<now, fence>>

Next ==
  \/ Tick
  \/ \E h \in Holders :
       \/ BeginAcquire(h)
       \/ Take(h)
       \/ Reenter(h)
       \/ RefuseAcquire(h)
       \/ BeginRelease(h)
       \/ Release(h)
       \/ RefuseRelease(h)
       \/ Forget(h)

Spec == Init /\ [][Next]_vars

-----------------------------------------------------------------------------
(* Properties. *)

TypeOK ==
  /\ now \in Time
  /\ fence \in [workflowToken : Nat, workflowExpires : Time,
                holder : Holders \cup {NoHolder}, token : Nat, expires : Nat]
  /\ call \in [Holders -> [op : {"none", "acquire", "release"}, start : Nat,
                           expires : Nat, token : Nat, heard : BOOLEAN]]
  /\ grant \in [Holders -> [token : Nat, expires : Nat]]

\* Holder h believes, and by the clock may believe, that the fence is its own.
Live(h) == grant[h].expires > now

\* Two recoverers never both believe they hold the run, whatever the order in
\* which the calls they began were executed: "the recovery fence prevents a
\* second recoverer from acting" (docs/recovery-implementation.md).
AtMostOneLive == \A g, h \in Holders : Live(g) /\ Live(h) => g = h

\* A live grant stays good until it expires: the row still carries its holder
\* and its token, so the check before a process stop will let it through.
LiveGrantHonoured ==
  \A h \in Holders : Live(h) =>
    /\ fence.holder = h
    /\ fence.token = grant[h].token
    /\ fence.expires > now

\* A token names one holder for ever: no token is handed to two recoverers,
\* so work stamped with an old token can be told from the present holder's.
TokensNameOneHolder ==
  \A g, h \in Holders :
    grant[g] # NoGrant /\ grant[h] # NoGrant /\ grant[g].token = grant[h].token
      => g = h

\* No recoverer believes it holds the run while the workflow's own lease runs.
WorkflowOwnerUndisturbed ==
  \A h \in Holders : Live(h) => fence.workflowExpires <= now

\* The token never goes back, and a change of holder raises it.
TokenMonotonic ==
  [][/\ fence'.token >= fence.token
     /\ fence'.holder # fence.holder => fence'.token > fence.token]_vars
=============================================================================
