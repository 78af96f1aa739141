------------------------------ MODULE RunEvents ------------------------------
(***************************************************************************)
(* The vocabulary every component shares: the lifecycles a run event can   *)
(* carry, which of them end a run, and which may follow which.  The same   *)
(* table is enforced twice in the code, by the host validator (journal.py) *)
(* and by the append function of the database (001-schema.sql).            *)
(***************************************************************************)

TerminalLifecycles == {"completed", "cancelled", "failed", "stale", "superseded"}

Lifecycles == {"queued", "running"} \cup TerminalLifecycles

IsTerminal(lifecycle) == lifecycle \in TerminalLifecycles

\* The lifecycle movements the append function admits.
MayFollow(old, new) ==
  \/ old = "queued"  /\ new \in Lifecycles \ {"queued", "completed"}
  \/ old = "running" /\ new \in Lifecycles \ {"queued"}

=============================================================================
