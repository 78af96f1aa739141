------------------------------- MODULE RunLog -------------------------------
(***************************************************************************)
(* What an event journal promises: one log per run.  A log starts with a   *)
(* queued event, grows at its end by events that continue it under the     *)
(* same authority, and is closed by a terminal event.  An event identifier *)
(* is used once across all runs.                                           *)
(***************************************************************************)
EXTENDS RunEvents, Naturals, Sequences

CONSTANTS Runs, EventIds, Authorities

VARIABLE log   \* log[r]: the events of run r, in order

Init == log = [r \in Runs |-> << >>]

UsedIds == UNION {{log[r][n].id : n \in DOMAIN log[r]} : r \in Runs}

\* What may be appended to run r: under the authority of its log, a lifecycle
\* that continues it.
Admissible(r) ==
  LET l == log[r]
      last == l[Len(l)]
  IN  [run : {r}, sequence : {Len(l)}, id : EventIds \ UsedIds,
       lifecycle : IF l = << >> THEN {"queued"}
                   ELSE {f \in Lifecycles : MayFollow(last.lifecycle, f)},
       authority : IF l = << >> THEN Authorities ELSE {last.authority}]

Next ==
  \E r \in Runs : \E e \in Admissible(r) : log' = [log EXCEPT ![r] = Append(log[r], e)]

Spec == Init /\ [][Next]_log
=============================================================================
