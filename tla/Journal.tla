------------------------------- MODULE Journal -------------------------------
(***************************************************************************)
(* The append-only event journal: table incidentseal_run_events, function  *)
(* incidentseal_append_event and the host wrapper append_record.           *)
(*                                                                         *)
(* An append is one PostgreSQL transaction.  It takes the advisory lock of *)
(* its run, reads the retained rows, decides, and inserts.  Writers of one *)
(* run are serialized by the lock; writers of different runs are not, so   *)
(* the check and the insert are two steps here.  A writer keeps the exact  *)
(* record it built and may send the same bytes again after any answer, or  *)
(* after a connection that was lost before or after the commit.            *)
(*                                                                         *)
(* A digest is modelled as the tuple that is hashed: SHA-256 is taken to   *)
(* be free of collisions, so tuples are equal exactly when digests are.    *)
(***************************************************************************)
EXTENDS RunEvents, Naturals, FiniteSets

CONSTANTS
  Runs,         \* run identifiers
  Writers,      \* host processes that append
  EventIds,     \* event identifiers the host allocates
  Authorities,  \* manifest digests (approval_digest is always equal to it)
  Offered,      \* bound: the lifecycles writers offer
  MaxSequence,  \* bound: the largest sequence a writer offers
  NoWriter      \* the holder of a free lock

ASSUME BoundAssumption == MaxSequence \in Nat /\ Offered \subseteq Lifecycles
ASSUME NoWriterAssumption == NoWriter \notin Writers

VARIABLES
  rows,    \* the committed rows of incidentseal_run_events
  lock,    \* lock[r]: the transaction holding run r's advisory lock
  pc,      \* pc[w]: where writer w is
  held,    \* held[w]: the record writer w built and retains
  answer   \* answer[w]: what append_record returned or raised last

vars == <<rows, lock, pc, held, answer>>

Events == [run : Runs, sequence : 0..MaxSequence, id : EventIds,
           lifecycle : Lifecycles, authority : Authorities]

Genesis == <<"genesis">>

\* The two domain-separated digests of a record [event, previous].
LinkDigest(rec) ==
  <<"link", rec.event.sequence, rec.event, rec.previous>>
IdempotencyKey(rec) ==
  <<"key", rec.event.run, rec.event.sequence, rec.event, rec.previous>>

RowsOf(r) == {row \in rows : row.event.run = r}

\* SELECT ... ORDER BY sequence DESC LIMIT 1.
IsRoot(row) ==
  /\ row \in rows
  /\ \A other \in RowsOf(row.event.run) :
        other.event.sequence <= row.event.sequence

Accepted == {"inserted", "replayed"}
Refusals == {"IS_JOURNAL_CONFLICT", "IS_JOURNAL_SEQUENCE", "IS_JOURNAL_TERMINAL",
             "IS_JOURNAL_AUTHORITY", "IS_JOURNAL_STATE", "IS_JOURNAL_DATABASE"}

Init ==
  /\ rows = {}
  /\ lock = [r \in Runs |-> NoWriter]
  /\ pc = [w \in Writers |-> "idle"]
  /\ held = [w \in Writers |-> Genesis]
  /\ answer = [w \in Writers |-> "none"]

-----------------------------------------------------------------------------
(* The host builds a record.  It names some retained row, or none, as its  *)
(* predecessor; by the time it is appended the journal may have moved on.  *)

PreviousOptions(r) == {Genesis} \cup {LinkDigest(row) : row \in RowsOf(r)}

Compose(w) ==
  /\ pc[w] = "idle"
  /\ \E e \in Events : \E previous \in PreviousOptions(e.run) :
        /\ e.lifecycle \in Offered
        /\ held' = [held EXCEPT ![w] = [event |-> e, previous |-> previous]]
  /\ pc' = [pc EXCEPT ![w] = "ready"]
  /\ UNCHANGED <<rows, lock, answer>>

(* The checks of the append function, in its order. *)

\* Mutant of Retained: only the last row of the run is looked at.
RetainedLast(rec) == \E row \in rows : row = rec /\ IsRoot(row)

\* The record is retained already: same key, therefore the same bytes.
Retained(rec) == \E row \in rows : IdempotencyKey(row) = IdempotencyKey(rec)

Clashes(rec) ==
  \/ \E row \in rows : row.event.id = rec.event.id
  \/ \E row \in RowsOf(rec.event.run) : row.event.sequence = rec.event.sequence

\* Mutant of Contiguous: the predecessor's digest is not compared.
ContiguousNumber(prior, rec) == rec.event.sequence = prior.event.sequence + 1

Contiguous(prior, rec) ==
  /\ rec.event.sequence = prior.event.sequence + 1
  /\ rec.previous = LinkDigest(prior)

SameAuthority(prior, rec) == rec.event.authority = prior.event.authority

\* Mutant of Verdict: neither the end of a run nor its lifecycle is looked at.
VerdictOpenEnded(rec) ==
  IF Clashes(rec) THEN "IS_JOURNAL_CONFLICT"
  ELSE IF \E prior \in RowsOf(rec.event.run) :
            IsRoot(prior) /\ ~Contiguous(prior, rec) THEN "IS_JOURNAL_SEQUENCE"
  ELSE "insertable"

Verdict(rec) ==
  LET e == rec.event IN
  IF Clashes(rec) THEN "IS_JOURNAL_CONFLICT"
  ELSE IF RowsOf(e.run) = {}
  THEN IF e.sequence = 0 /\ e.lifecycle = "queued" /\ rec.previous = Genesis
       THEN "insertable" ELSE "IS_JOURNAL_SEQUENCE"
  ELSE LET prior == CHOOSE row \in RowsOf(e.run) : IsRoot(row) IN
       IF IsTerminal(prior.event.lifecycle) THEN "IS_JOURNAL_TERMINAL"
       ELSE IF ~Contiguous(prior, rec) THEN "IS_JOURNAL_SEQUENCE"
       ELSE IF ~SameAuthority(prior, rec) THEN "IS_JOURNAL_AUTHORITY"
       ELSE IF ~MayFollow(prior.event.lifecycle, e.lifecycle) THEN "IS_JOURNAL_STATE"
       ELSE "insertable"

\* append_record accepts a result only when its event_count is sequence + 1;
\* the count of a replay is that of the whole run at the time of the replay.
ReplayAnswer(rec) ==
  IF Cardinality(RowsOf(rec.event.run)) = rec.event.sequence + 1
  THEN "replayed" ELSE "IS_JOURNAL_DATABASE"

Answer(w, value) ==
  /\ answer' = [answer EXCEPT ![w] = value]
  /\ pc' = [pc EXCEPT ![w] = "answered"]

-----------------------------------------------------------------------------
(* The transaction takes the lock of its run and finds the key retained.   *)
Replay(w) ==
  /\ pc[w] = "ready"
  /\ lock[held[w].event.run] = NoWriter
  /\ Retained(held[w])
  /\ Answer(w, ReplayAnswer(held[w]))
  /\ UNCHANGED <<rows, lock, held>>

(* ... or refuses the record; the transaction ends and the lock is free.   *)
Refuse(w) ==
  /\ pc[w] = "ready"
  /\ lock[held[w].event.run] = NoWriter
  /\ ~Retained(held[w])
  /\ Verdict(held[w]) # "insertable"
  /\ Answer(w, Verdict(held[w]))
  /\ UNCHANGED <<rows, lock, held>>

(* ... or admits it, and holds the lock until it commits.                  *)
Admit(w) ==
  /\ pc[w] = "ready"
  /\ lock[held[w].event.run] = NoWriter
  /\ ~Retained(held[w])
  /\ Verdict(held[w]) = "insertable"
  /\ lock' = [lock EXCEPT ![held[w].event.run] = w]
  /\ pc' = [pc EXCEPT ![w] = "admitted"]
  /\ UNCHANGED <<rows, held, answer>>

(* Mutant of Insert: the table has no unique indexes.                      *)
InsertUnchecked(w) ==
  /\ pc[w] = "admitted"
  /\ Answer(w, "inserted")
  /\ rows' = rows \cup {held[w]}
  /\ lock' = [lock EXCEPT ![held[w].event.run] = NoWriter]
  /\ UNCHANGED held

(* INSERT and commit.  The unique indexes are the only guard against a     *)
(* transaction of another run that committed the same event id meanwhile.  *)
Insert(w) ==
  /\ pc[w] = "admitted"
  /\ IF Clashes(held[w])
     THEN /\ Answer(w, "IS_JOURNAL_CONFLICT")
          /\ UNCHANGED rows
     ELSE /\ Answer(w, "inserted")
          /\ rows' = rows \cup {held[w]}
  /\ lock' = [lock EXCEPT ![held[w].event.run] = NoWriter]
  /\ UNCHANGED held

(* The connection or the database is lost before the commit: PostgreSQL    *)
(* rolls back and releases the lock.  The host still holds its record.     *)
Abort(w) ==
  /\ pc[w] = "admitted"
  /\ lock' = [lock EXCEPT ![held[w].event.run] = NoWriter]
  /\ pc' = [pc EXCEPT ![w] = "ready"]
  /\ UNCHANGED <<rows, held, answer>>

(* The host sends the same bytes again, whether it saw the answer or not.  *)
Retry(w) ==
  /\ pc[w] = "answered"
  /\ pc' = [pc EXCEPT ![w] = "ready"]
  /\ answer' = [answer EXCEPT ![w] = "none"]
  /\ UNCHANGED <<rows, lock, held>>

(* The host moves on to its next record.                                   *)
Finish(w) ==
  /\ pc[w] = "answered"
  /\ pc' = [pc EXCEPT ![w] = "idle"]
  /\ answer' = [answer EXCEPT ![w] = "none"]
  /\ held' = [held EXCEPT ![w] = Genesis]
  /\ UNCHANGED <<rows, lock>>

Next ==
  \E w \in Writers :
    \/ Compose(w)
    \/ Replay(w)
    \/ Refuse(w)
    \/ Admit(w)
    \/ Insert(w)
    \/ Abort(w)
    \/ Retry(w)
    \/ Finish(w)

Spec == Init /\ [][Next]_vars

-----------------------------------------------------------------------------
(* Properties.  The chain is what the journal is for: the contract promises *)
(* contiguous sequences, exact predecessors, one authority per run and no   *)
(* event after a terminal one (docs/event-journal-contract.md).             *)

\* The type of every variable, the predecessor digests aside.
TypeOK ==
  /\ \A row \in rows : row.event \in Events
  /\ lock \in [Runs -> Writers \cup {NoWriter}]
  /\ pc \in [Writers -> {"idle", "ready", "admitted", "answered"}]
  /\ DOMAIN held = Writers
  /\ \A w \in Writers : pc[w] # "idle" => held[w].event \in Events
  /\ answer \in [Writers -> Accepted \cup Refusals \cup {"none"}]

\* A run has one row per sequence (primary key), and an event id names one
\* row of the whole table, whichever runs append at the same time.
IdentitiesUnique ==
  \A a, b \in rows :
    \/ a.event.id = b.event.id
    \/ a.event.run = b.event.run /\ a.event.sequence = b.event.sequence
    => a = b

\* Row b is the exact predecessor of row a.
Precedes(b, a) ==
  /\ b.event.run = a.event.run
  /\ a.event.sequence = b.event.sequence + 1
  /\ a.previous = LinkDigest(b)

\* Every row starts its run at genesis or hangs on its exact predecessor,
\* by a lifecycle movement the contract allows.
ChainIntact ==
  \A a \in rows :
    \/ a.event.sequence = 0 /\ a.event.lifecycle = "queued" /\ a.previous = Genesis
    \/ \E b \in rows :
          Precedes(b, a) /\ MayFollow(b.event.lifecycle, a.event.lifecycle)

\* No row follows a terminal row: a finished run is closed, whatever writers
\* with older views of it still send.
TerminalIsLast ==
  \A a, b \in rows :
    /\ a.event.run = b.event.run
    /\ IsTerminal(a.event.lifecycle)
    => b.event.sequence <= a.event.sequence

\* The authority of a run never changes within its journal.
OneAuthorityPerRun ==
  \A a, b \in rows :
    a.event.run = b.event.run => a.event.authority = b.event.authority

\* Writer w gets its answer in this step.
Answered(w) == pc[w] # "answered" /\ pc'[w] = "answered"

\* A host that lost the answer and sends retained bytes again is never told
\* that they conflict, are out of sequence or come too late.
RetryNeverMisjudged ==
  [][\A w \in Writers :
       Answered(w) /\ held[w] \in rows
         => answer'[w] \in {"replayed", "IS_JOURNAL_DATABASE"}]_vars

-----------------------------------------------------------------------------
(* What the journal promises its callers: per run, a log that only grows,   *)
(* one admissible event at a time.                                          *)

RowAt(r, n) == CHOOSE row \in RowsOf(r) : row.event.sequence = n

Log == [r \in Runs |->
          [n \in 1..Cardinality(RowsOf(r)) |-> RowAt(r, n - 1).event]]

RunLogOf == INSTANCE RunLog WITH log <- Log

\* The table, read in sequence order, implements the per-run log.
ImplementsRunLog == RunLogOf!Spec
=============================================================================
