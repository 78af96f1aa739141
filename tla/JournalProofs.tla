--------------------------- MODULE JournalProofs ---------------------------
(***************************************************************************)
(* The chain invariants of the journal, for every number of runs, writers, *)
(* event ids and authorities and every bound.                              *)
(*                                                                         *)
(* The invariants of Journal are not inductive: an admitted record is      *)
(* inserted later, so what its checks found must still hold by then.  It   *)
(* does, because only the holder of a run's lock inserts into that run.    *)
(*                                                                         *)
(* The last part counts the rows: a run of n rows has the sequences 0 to   *)
(* n - 1.  So the rows in their order are a log, and the journal implements *)
(* the abstract one, RunLog.                                               *)
(***************************************************************************)
EXTENDS Journal, FiniteSetTheorems, SequenceTheorems, TLAPS

\* The record continues its run: what the checks of one run establish.
Extends(rec) ==
  \/ /\ RowsOf(rec.event.run) = {}
     /\ rec.event.sequence = 0
     /\ rec.event.lifecycle = "queued"
     /\ rec.previous = Genesis
  \/ \E prior \in RowsOf(rec.event.run) :
       /\ IsRoot(prior)
       /\ ~IsTerminal(prior.event.lifecycle)
       /\ Precedes(prior, rec)
       /\ rec.event.authority = prior.event.authority
       /\ MayFollow(prior.event.lifecycle, rec.event.lifecycle)

RootExists ==
  \A r \in Runs : RowsOf(r) # {} => \E row \in RowsOf(r) : IsRoot(row)

AdmittedHoldsLock ==
  \A w \in Writers : pc[w] = "admitted" => lock[held[w].event.run] = w

AdmittedExtends ==
  \A w \in Writers : pc[w] = "admitted" => Extends(held[w])

Chain ==
  /\ IdentitiesUnique
  /\ ChainIntact
  /\ TerminalIsLast
  /\ OneAuthorityPerRun
  /\ RootExists

IInv == TypeOK /\ Chain /\ AdmittedHoldsLock /\ AdmittedExtends

-----------------------------------------------------------------------------
(* What the order of checks in the append function amounts to. *)
LEMMA VerdictExtends ==
  ASSUME TypeOK, RootExists, NEW rec, rec.event \in Events,
         Verdict(rec) = "insertable"
  PROVE  Extends(rec) /\ ~Clashes(rec)
<1>1. ~Clashes(rec)
  BY DEF Verdict
<1>2. CASE RowsOf(rec.event.run) = {}
  BY <1>1, <1>2 DEF Verdict, Extends
<1>3. CASE RowsOf(rec.event.run) # {}
  <2> DEFINE prior == CHOOSE row \in RowsOf(rec.event.run) : IsRoot(row)
  <2>1. prior \in RowsOf(rec.event.run) /\ IsRoot(prior)
    BY <1>3 DEF RootExists, Events
  <2>2. /\ ~IsTerminal(prior.event.lifecycle)
        /\ rec.event.sequence = prior.event.sequence + 1
        /\ rec.previous = LinkDigest(prior)
        /\ rec.event.authority = prior.event.authority
        /\ MayFollow(prior.event.lifecycle, rec.event.lifecycle)
    BY <1>1, <1>3 DEF Verdict, Contiguous, SameAuthority
  <2>3. Precedes(prior, rec)
    BY <2>1, <2>2 DEF Precedes, RowsOf
  <2> QED BY <1>1, <2>1, <2>2, <2>3 DEF Extends
<1> QED BY <1>2, <1>3

(* One insertion keeps the chain. *)
LEMMA InsertKeepsChain ==
  ASSUME TypeOK, Chain, NEW rec, rec.event \in Events,
         Extends(rec), ~Clashes(rec), rows' = rows \cup {rec}
  PROVE  Chain'
<1> USE BoundAssumption
<1>0. \A row \in rows \cup {rec} : row.event.sequence \in Nat /\ row.event.run \in Runs
  BY DEF TypeOK, Events
<1>1. IdentitiesUnique'
  BY DEF Chain, IdentitiesUnique, Clashes, RowsOf
<1>2. ChainIntact'
  <2> SUFFICES ASSUME NEW a \in rows'
               PROVE  \/ /\ a.event.sequence = 0
                         /\ a.event.lifecycle = "queued"
                         /\ a.previous = Genesis
                      \/ \E b \in rows' :
                           Precedes(b, a) /\ MayFollow(b.event.lifecycle, a.event.lifecycle)
    BY DEF ChainIntact, Precedes, LinkDigest
  <2>1. CASE a \in rows
    BY <2>1 DEF Chain, ChainIntact
  <2>2. CASE a = rec
    BY <2>2 DEF Extends, RowsOf
  <2> QED BY <2>1, <2>2
<1>3. \A a \in rows : a.event.run = rec.event.run =>
        a.event.sequence < rec.event.sequence /\ ~IsTerminal(a.event.lifecycle)
  <2> SUFFICES ASSUME NEW a \in rows, a.event.run = rec.event.run
               PROVE  a.event.sequence < rec.event.sequence /\ ~IsTerminal(a.event.lifecycle)
    OBVIOUS
  <2>1. PICK prior \in RowsOf(rec.event.run) :
          IsRoot(prior) /\ ~IsTerminal(prior.event.lifecycle) /\ Precedes(prior, rec)
    BY DEF Extends, RowsOf
  <2>2. a.event.sequence <= prior.event.sequence /\ prior \in rows
        /\ prior.event.run = rec.event.run
        /\ rec.event.sequence = prior.event.sequence + 1
    BY <2>1 DEF IsRoot, RowsOf, Precedes
  <2>3. ~IsTerminal(a.event.lifecycle)
    <3> SUFFICES ASSUME IsTerminal(a.event.lifecycle) PROVE FALSE
      OBVIOUS
    <3>1. prior.event.sequence <= a.event.sequence
      BY <2>2 DEF Chain, TerminalIsLast
    <3>2. prior.event.sequence = a.event.sequence
      BY <3>1, <2>2, <1>0
    <3>3. prior = a
      BY <3>2, <2>2 DEF Chain, IdentitiesUnique
    <3> QED BY <3>3, <2>1
  <2> QED BY <2>2, <2>3, <1>0
<1>4. TerminalIsLast'
  BY <1>0, <1>3 DEF Chain, TerminalIsLast
<1>5. OneAuthorityPerRun'
  <2>1. \A a \in rows : a.event.run = rec.event.run => a.event.authority = rec.event.authority
    BY DEF Extends, RowsOf, Chain, OneAuthorityPerRun
  <2> QED BY <2>1 DEF Chain, OneAuthorityPerRun
<1>6. RootExists'
  <2> SUFFICES ASSUME NEW r \in Runs, RowsOf(r)' # {}
               PROVE  \E row \in RowsOf(r)' : IsRoot(row)'
    BY DEF RootExists, IsRoot, RowsOf
  <2>1. CASE r = rec.event.run
    <3>1. IsRoot(rec)'
      BY <1>0, <1>3 DEF IsRoot, RowsOf
    <3> QED BY <2>1, <3>1 DEF RowsOf
  <2>2. CASE r # rec.event.run
    <3>1. RowsOf(r)' = RowsOf(r)
      BY <2>2 DEF RowsOf
    <3>2. PICK row \in RowsOf(r) : IsRoot(row)
      BY <3>1 DEF Chain, RootExists
    <3>3. IsRoot(row)'
      BY <2>2, <3>2 DEF IsRoot, RowsOf
    <3> QED BY <3>1, <3>2, <3>3
  <2> QED BY <2>1, <2>2
<1> QED BY <1>1, <1>2, <1>4, <1>5, <1>6 DEF Chain

(* A run nobody inserts into keeps what its checks found. *)
LEMMA ExtendsStable ==
  ASSUME NEW rec, NEW new, Extends(rec), rows' = rows \cup {new},
         new.event.run # rec.event.run
  PROVE  Extends(rec)'
<1>1. RowsOf(rec.event.run)' = RowsOf(rec.event.run)
  BY DEF RowsOf
<1>2. \A row \in RowsOf(rec.event.run) : IsRoot(row) => IsRoot(row)'
  BY <1>1 DEF IsRoot, RowsOf
<1> QED BY <1>1, <1>2 DEF Extends, Precedes, LinkDigest

(* A step that leaves the table alone keeps everything said of it. *)
LEMMA ChainUnchanged ==
  ASSUME Chain, UNCHANGED rows
  PROVE  Chain' /\ \A rec : Extends(rec) => Extends(rec)'
<1>1. \A r : RowsOf(r)' = RowsOf(r)
  BY DEF RowsOf
<1>2. \A row : IsRoot(row) <=> IsRoot(row)'
  BY <1>1 DEF IsRoot
<1>3. Chain'
  <2>1. IdentitiesUnique' /\ TerminalIsLast' /\ OneAuthorityPerRun'
    BY DEF Chain, IdentitiesUnique, TerminalIsLast, OneAuthorityPerRun
  <2>2. ChainIntact'
    BY DEF Chain, ChainIntact, Precedes, LinkDigest
  <2>3. RootExists'
    BY <1>1, <1>2 DEF Chain, RootExists
  <2> QED BY <2>1, <2>2, <2>3 DEF Chain
<1>4. \A rec : Extends(rec) => Extends(rec)'
  BY <1>1, <1>2 DEF Extends, Precedes, LinkDigest
<1> QED BY <1>3, <1>4

LEMMA InitInvariant == Init => IInv
<1> SUFFICES ASSUME Init PROVE IInv
  OBVIOUS
<1>1. TypeOK
  BY DEF Init, TypeOK
<1>2. Chain
  BY DEF Init, Chain, IdentitiesUnique, ChainIntact, TerminalIsLast,
         OneAuthorityPerRun, RootExists, RowsOf
<1>3. AdmittedHoldsLock /\ AdmittedExtends
  BY DEF Init, AdmittedHoldsLock, AdmittedExtends
<1> QED BY <1>1, <1>2, <1>3 DEF IInv

LEMMA VerdictRange ==
  ASSUME NEW rec PROVE Verdict(rec) \in Refusals \cup {"insertable"}
  BY DEF Verdict, Refusals

(* The types, one step per action. *)
LEMMA StepTypes == IInv /\ [Next]_vars => TypeOK'
<1> SUFFICES ASSUME IInv, [Next]_vars PROVE TypeOK'
  OBVIOUS
<1> USE DEF IInv, TypeOK
<1>1. ASSUME NEW w \in Writers, Compose(w) PROVE TypeOK'
  BY <1>1 DEF Compose
<1>2. ASSUME NEW w \in Writers, Replay(w) PROVE TypeOK'
  BY <1>2 DEF Replay, Answer, ReplayAnswer, Accepted, Refusals
<1>3. ASSUME NEW w \in Writers, Refuse(w) PROVE TypeOK'
  <2>1. Verdict(held[w]) \in Refusals
    BY <1>3, VerdictRange DEF Refuse
  <2> QED BY <1>3, <2>1 DEF Refuse, Answer
<1>4. ASSUME NEW w \in Writers, Admit(w) PROVE TypeOK'
  <2>1. held[w].event.run \in Runs
    BY <1>4 DEF Admit, Events
  <2> QED BY <1>4, <2>1 DEF Admit
<1>5. ASSUME NEW w \in Writers, Insert(w) PROVE TypeOK'
  <2>1. /\ held[w].event \in Events
        /\ answer' = [answer EXCEPT ![w] = IF Clashes(held[w])
                         THEN "IS_JOURNAL_CONFLICT" ELSE "inserted"]
        /\ pc' = [pc EXCEPT ![w] = "answered"]
        /\ lock' = [lock EXCEPT ![held[w].event.run] = NoWriter]
        /\ held' = held
        /\ rows' \subseteq rows \cup {held[w]}
    BY <1>5 DEF Insert, Answer
  <2> QED BY <2>1 DEF Accepted, Refusals
<1>6. ASSUME NEW w \in Writers, Abort(w) PROVE TypeOK'
  BY <1>6 DEF Abort
<1>7. ASSUME NEW w \in Writers, Retry(w) PROVE TypeOK'
  BY <1>7 DEF Retry
<1>8. ASSUME NEW w \in Writers, Finish(w) PROVE TypeOK'
  BY <1>8 DEF Finish
<1>9. CASE UNCHANGED vars
  BY <1>9 DEF vars
<1> QED BY <1>1, <1>2, <1>3, <1>4, <1>5, <1>6, <1>7, <1>8, <1>9 DEF Next

(* Every step but Insert leaves the table alone and admits nothing          *)
(* unchecked.                                                              *)
LEMMA StepInvariant == IInv /\ [Next]_vars => IInv'
<1> SUFFICES ASSUME IInv, [Next]_vars PROVE IInv'
  OBVIOUS
<1>t. TypeOK'
  BY StepTypes
<1>1. ASSUME UNCHANGED <<rows, lock>>,
             \A w \in Writers : pc'[w] = "admitted" =>
                pc[w] = "admitted" /\ held'[w] = held[w]
      PROVE  IInv'
  BY <1>t, <1>1, ChainUnchanged DEF IInv, AdmittedHoldsLock, AdmittedExtends
<1>2. ASSUME NEW w \in Writers, Compose(w) PROVE IInv'
  BY <1>1, <1>2 DEF Compose, IInv, TypeOK
<1>3. ASSUME NEW w \in Writers, Replay(w) \/ Refuse(w) PROVE IInv'
  BY <1>1, <1>3 DEF Replay, Refuse, Answer, IInv, TypeOK
<1>4. ASSUME NEW w \in Writers, Admit(w) PROVE IInv'
  <2>1. Extends(held[w]) /\ held[w].event \in Events
    BY <1>4, VerdictExtends DEF Admit, IInv, TypeOK, Chain
  <2>2. Chain' /\ \A rec : Extends(rec) => Extends(rec)'
    BY <1>4, ChainUnchanged DEF Admit, IInv
  <2>3. \A x \in Writers : pc'[x] = "admitted" => x = w \/ pc[x] = "admitted"
    BY <1>4 DEF Admit, IInv, TypeOK
  <2>4. AdmittedExtends'
    BY <1>4, <2>1, <2>2, <2>3 DEF Admit, IInv, AdmittedExtends
  <2>5. AdmittedHoldsLock'
    <3> SUFFICES ASSUME NEW x \in Writers, pc'[x] = "admitted"
                 PROVE  lock'[held'[x].event.run] = x
      BY DEF AdmittedHoldsLock
    <3>1. held[w].event.run \in Runs
      BY <2>1 DEF Events
    <3>2. CASE x = w
      BY <1>4, <3>1, <3>2 DEF Admit, IInv, TypeOK
    <3>3. CASE x # w
      <4>1. lock[held[x].event.run] = x
        BY <2>3, <3>3 DEF IInv, AdmittedHoldsLock
      <4>2. held[x].event.run # held[w].event.run
        BY <1>4, <4>1, NoWriterAssumption DEF Admit
      <4> QED BY <1>4, <4>1, <4>2 DEF Admit, IInv, TypeOK
    <3> QED BY <3>2, <3>3
  <2> QED BY <1>t, <2>2, <2>4, <2>5 DEF IInv
<1>5. ASSUME NEW w \in Writers, Insert(w) PROVE IInv'
  <2>1. /\ pc[w] = "admitted"
        /\ held' = held
        /\ pc' = [pc EXCEPT ![w] = "answered"]
        /\ lock' = [lock EXCEPT ![held[w].event.run] = NoWriter]
        /\ \/ UNCHANGED rows
           \/ ~Clashes(held[w]) /\ rows' = rows \cup {held[w]}
    BY <1>5 DEF Insert, Answer
  <2>2. held[w].event \in Events /\ Extends(held[w])
    BY <2>1 DEF IInv, TypeOK, AdmittedExtends
  <2>3. \A x \in Writers : pc'[x] = "admitted" =>
          /\ pc[x] = "admitted"
          /\ held[x].event.run # held[w].event.run
    BY <2>1 DEF IInv, TypeOK, AdmittedHoldsLock
  <2>4. AdmittedHoldsLock'
    BY <2>1, <2>3 DEF IInv, TypeOK, AdmittedHoldsLock
  <2>5. Chain'
    BY <2>1, <2>2, InsertKeepsChain, ChainUnchanged DEF IInv
  <2>6. AdmittedExtends'
    <3> SUFFICES ASSUME NEW x \in Writers, pc'[x] = "admitted"
                 PROVE  Extends(held[x])'
      BY <2>1 DEF AdmittedExtends
    <3>1. Extends(held[x]) /\ held[x].event.run # held[w].event.run
      BY <2>3 DEF IInv, AdmittedExtends
    <3> QED BY <2>1, <3>1, ExtendsStable, ChainUnchanged DEF IInv
  <2> QED BY <1>t, <2>4, <2>5, <2>6 DEF IInv
<1>6. ASSUME NEW w \in Writers, Abort(w) PROVE IInv'
  <2>1. \A x \in Writers : pc'[x] = "admitted" =>
          /\ pc[x] = "admitted"
          /\ held[x].event.run # held[w].event.run
    BY <1>6 DEF Abort, IInv, TypeOK, AdmittedHoldsLock
  <2>2. AdmittedHoldsLock'
    BY <1>6, <2>1 DEF Abort, IInv, TypeOK, AdmittedHoldsLock
  <2>3. Chain' /\ AdmittedExtends'
    BY <1>6, <2>1, ChainUnchanged DEF Abort, IInv, AdmittedExtends
  <2> QED BY <1>t, <2>2, <2>3 DEF IInv
<1>7. ASSUME NEW w \in Writers, Retry(w) \/ Finish(w) PROVE IInv'
  BY <1>1, <1>7 DEF Retry, Finish, IInv, TypeOK
<1>8. CASE UNCHANGED vars
  BY <1>1, <1>8 DEF vars
<1> QED BY <1>2, <1>3, <1>4, <1>5, <1>6, <1>7, <1>8 DEF Next

LEMMA Invariant == Spec => []IInv
<1> QED BY InitInvariant, StepInvariant, PTL DEF Spec

(* Every variable keeps its type. *)
THEOREM TypeCorrect == Spec => []TypeOK
<1>1. IInv => TypeOK
  BY DEF IInv
<1> QED BY <1>1, Invariant, PTL

(* The journal of every run is an intact chain: exact predecessors, allowed *)
(* movements, one row per sequence and per event id.                        *)
THEOREM JournalChain == Spec => [](ChainIntact /\ IdentitiesUnique)
<1>1. IInv => ChainIntact /\ IdentitiesUnique
  BY DEF IInv, Chain
<1> QED BY <1>1, Invariant, PTL

(* A terminal event closes its run for good. *)
THEOREM TerminalCloses == Spec => []TerminalIsLast
<1>1. IInv => TerminalIsLast
  BY DEF IInv, Chain
<1> QED BY <1>1, Invariant, PTL

(* No run changes its authority. *)
THEOREM AuthorityFixed == Spec => []OneAuthorityPerRun
<1>1. IInv => OneAuthorityPerRun
  BY DEF IInv, Chain
<1> QED BY <1>1, Invariant, PTL

(* Sending retained bytes again is never reported as a conflict, a gap or   *)
(* a late event.                                                            *)
THEOREM RetrySafe == Spec => RetryNeverMisjudged
<1>1. IInv /\ [Next]_vars => [\A w \in Writers :
        Answered(w) /\ held[w] \in rows
          => answer'[w] \in {"replayed", "IS_JOURNAL_DATABASE"}]_vars
  <2> SUFFICES ASSUME IInv, Next, NEW w \in Writers, Answered(w), held[w] \in rows
               PROVE  answer'[w] \in {"replayed", "IS_JOURNAL_DATABASE"}
    BY DEF vars, Answered
  <2>1. PICK x \in Writers : Replay(x) \/ Refuse(x) \/ Insert(x) \/ Compose(x)
           \/ Admit(x) \/ Abort(x) \/ Retry(x) \/ Finish(x)
    BY DEF Next
  <2>2. x = w /\ (Replay(w) \/ Refuse(w) \/ Insert(w))
    BY <2>1 DEF Answered, IInv, TypeOK, Replay, Refuse, Insert, Compose, Admit,
                Abort, Retry, Finish, Answer
  <2>3. CASE Replay(w)
    BY <2>3 DEF Replay, Answer, ReplayAnswer, IInv, TypeOK
  <2>4. CASE Refuse(w)
    BY <2>4 DEF Refuse, Retained
  <2>5. CASE Insert(w)
    <3>1. Extends(held[w])
      BY <2>5 DEF Insert, IInv, AdmittedExtends
    <3>2. PICK prior \in rows : /\ IsRoot(prior)
                                /\ Precedes(prior, held[w])
      BY <3>1 DEF Extends, RowsOf
    <3>3. /\ held[w].event.sequence <= prior.event.sequence
          /\ held[w].event.sequence = prior.event.sequence + 1
      BY <3>2 DEF IsRoot, Precedes, RowsOf
    <3>4. prior.event.sequence \in Nat
      BY <3>2, BoundAssumption DEF IInv, TypeOK, Events
    <3> QED BY <3>3, <3>4
  <2> QED BY <2>2, <2>3, <2>4, <2>5
<1> QED BY <1>1, Invariant, PTL DEF Spec, RetryNeverMisjudged

-----------------------------------------------------------------------------
(* What a run's rows are counted by.  The host compares the count of a run  *)
(* with the sequence of its record, and a log is read off the table by      *)
(* counting, so the sequences of a run have to be exactly those below its   *)
(* count: no gap, and no row beside them.                                   *)
Dense ==
  \A r \in Runs :
    /\ IsFiniteSet(RowsOf(r))
    /\ {row.event.sequence : row \in RowsOf(r)} = 0..(Cardinality(RowsOf(r)) - 1)

\* A record is its event and its predecessor's digest, and nothing else.
Exact(rec) == rec = [event |-> rec.event, previous |-> rec.previous]
RecordsExact ==
  /\ \A row \in rows : Exact(row)
  /\ \A w \in Writers : pc[w] # "idle" => Exact(held[w])

\* The number of rows of a run is the sequence that its next event takes.
LEMMA NextSequence ==
  ASSUME IInv, Dense, NEW rec, rec.event \in Events, Extends(rec)
  PROVE  Cardinality(RowsOf(rec.event.run)) = rec.event.sequence
<1> DEFINE old == RowsOf(rec.event.run)
           n == Cardinality(old)
<1>1. n \in Nat /\ {row.event.sequence : row \in old} = 0..(n - 1)
  BY FS_CardinalityType DEF Dense, Events
<1>2. \A row \in old : row.event.sequence \in Nat
  BY BoundAssumption DEF RowsOf, IInv, TypeOK, Events
<1>3. CASE old = {}
  BY <1>3, FS_EmptySet DEF Extends
<1>4. CASE old # {}
  <2>1. PICK prior \in old : IsRoot(prior) /\ Precedes(prior, rec)
    BY <1>4 DEF Extends
  <2>2. \A row \in old : row.event.sequence <= prior.event.sequence
    BY <2>1 DEF IsRoot, RowsOf
  <2>3. n # 0 BY <1>4, FS_EmptySet DEF Dense, Events
  <2>4. PICK row \in old : row.event.sequence = n - 1 BY <1>1, <2>3
  <2>5. prior.event.sequence \in 0..(n - 1) BY <1>1
  <2>6. prior.event.sequence = n - 1 BY <1>1, <1>2, <2>2, <2>4, <2>5
  <2>7. QED BY <1>1, <2>1, <2>6 DEF Precedes
<1>5. QED BY <1>3, <1>4

LEMMA InsertKeepsDense ==
  ASSUME IInv, Dense, NEW rec, rec.event \in Events, Extends(rec), ~Clashes(rec),
         rows' = rows \cup {rec}
  PROVE  /\ Dense'
         /\ RowsOf(rec.event.run)' = RowsOf(rec.event.run) \cup {rec}
         /\ \A r \in Runs \ {rec.event.run} : RowsOf(r)' = RowsOf(r)
         /\ Cardinality(RowsOf(rec.event.run)') = rec.event.sequence + 1
<1> DEFINE r0 == rec.event.run
           n == rec.event.sequence
<1>1. RowsOf(r0)' = RowsOf(r0) \cup {rec} /\ \A r \in Runs \ {r0} : RowsOf(r)' = RowsOf(r)
  BY DEF RowsOf
<1>2. rec \notin RowsOf(r0) BY DEF Clashes
<1>3. r0 \in Runs /\ n \in Nat BY BoundAssumption DEF Events
<1>4. /\ Cardinality(RowsOf(r0)) = n /\ IsFiniteSet(RowsOf(r0))
      /\ {row.event.sequence : row \in RowsOf(r0)} = 0..(n - 1)
  BY <1>3, NextSequence DEF Dense
<1>5. IsFiniteSet(RowsOf(r0)') /\ Cardinality(RowsOf(r0)') = n + 1
  BY <1>1, <1>2, <1>4, FS_AddElement
<1>6. {row.event.sequence : row \in RowsOf(r0)'} = 0..n
  BY <1>1, <1>3, <1>4
<1>7. Dense'
  <2>1. \A r \in Runs \ {r0} : /\ IsFiniteSet(RowsOf(r)')
           /\ {row.event.sequence : row \in RowsOf(r)'} = 0..(Cardinality(RowsOf(r)') - 1)
    BY <1>1 DEF Dense
  <2>2. Cardinality(RowsOf(r0)') - 1 = n BY <1>3, <1>5
  <2>3. QED BY <1>5, <1>6, <2>1, <2>2 DEF Dense
<1>8. QED BY <1>1, <1>5, <1>7

LEMMA DenseUnchanged ==
  ASSUME Dense, UNCHANGED rows PROVE Dense'
BY DEF Dense, RowsOf

LEMMA StepCounted == IInv /\ Dense /\ RecordsExact /\ [Next]_vars => Dense' /\ RecordsExact'
<1> SUFFICES ASSUME IInv, Dense, RecordsExact, [Next]_vars PROVE Dense' /\ RecordsExact'
  OBVIOUS
<1>1. ASSUME NEW w \in Writers, Compose(w) PROVE Dense' /\ RecordsExact'
  BY <1>1, DenseUnchanged DEF Compose, RecordsExact, Exact, IInv, TypeOK
<1>2. ASSUME NEW w \in Writers, Replay(w) \/ Refuse(w) \/ Admit(w) \/ Abort(w) \/ Retry(w)
      PROVE  Dense' /\ RecordsExact'
  BY <1>2, DenseUnchanged
     DEF Replay, Refuse, Admit, Abort, Retry, Answer, RecordsExact, IInv, TypeOK
<1>3. ASSUME NEW w \in Writers, Finish(w) PROVE Dense' /\ RecordsExact'
  BY <1>3, DenseUnchanged DEF Finish, RecordsExact, IInv, TypeOK
<1>4. ASSUME NEW w \in Writers, Insert(w) PROVE Dense' /\ RecordsExact'
  <2>1. /\ pc[w] = "admitted" /\ held' = held /\ pc' = [pc EXCEPT ![w] = "answered"]
        /\ \/ UNCHANGED rows
           \/ ~Clashes(held[w]) /\ rows' = rows \cup {held[w]}
    BY <1>4 DEF Insert, Answer
  <2>2. held[w].event \in Events /\ Extends(held[w])
    BY <2>1 DEF IInv, TypeOK, AdmittedExtends
  <2>3. RecordsExact' BY <2>1 DEF RecordsExact, IInv, TypeOK
  <2>4. QED BY <2>1, <2>2, <2>3, InsertKeepsDense, DenseUnchanged
<1>5. CASE UNCHANGED vars
  BY <1>5, DenseUnchanged DEF vars, RecordsExact
<1>6. QED BY <1>1, <1>2, <1>3, <1>4, <1>5 DEF Next

LEMMA Counted == Spec => [](IInv /\ Dense /\ RecordsExact)
<1>1. Init => Dense /\ RecordsExact
  <2> SUFFICES ASSUME Init PROVE Dense /\ RecordsExact
    OBVIOUS
  <2>1. \A r \in Runs : RowsOf(r) = {} BY DEF Init, RowsOf
  <2>2. Dense BY <2>1, FS_EmptySet DEF Dense
  <2>3. RecordsExact BY DEF Init, RecordsExact
  <2>4. QED BY <2>2, <2>3
<1>2. QED BY <1>1, Invariant, StepCounted, PTL DEF Spec

-----------------------------------------------------------------------------
(* The table implements the log.  Read in sequence order, the rows of a run *)
(* are a log of its events; an insert is an append to one log by an event   *)
(* that the log admits, and every other step leaves every log as it is.     *)

\* Every log is as long as its run has rows, and has row n at place n + 1.
LogReads ==
  /\ DOMAIN Log = Runs
  /\ \A r \in Runs :
       /\ Log[r] \in Seq(Events) /\ Len(Log[r]) = Cardinality(RowsOf(r))
       /\ \A row \in RowsOf(r) :
            row.event.sequence + 1 \in 1..Len(Log[r]) /\ Log[r][row.event.sequence + 1] = row.event
       /\ \A n \in 1..Len(Log[r]) : \E row \in RowsOf(r) : row.event.sequence = n - 1

LEMMA ReadsRows == IInv /\ Dense => LogReads
<1> SUFFICES ASSUME IInv, Dense, NEW r \in Runs
             PROVE  /\ Log[r] \in Seq(Events) /\ Len(Log[r]) = Cardinality(RowsOf(r))
                    /\ \A row \in RowsOf(r) : row.event.sequence + 1 \in 1..Len(Log[r])
                                             /\ Log[r][row.event.sequence + 1] = row.event
                    /\ \A n \in 1..Len(Log[r]) : \E row \in RowsOf(r) : row.event.sequence = n - 1
  BY DEF LogReads, Log
<1> DEFINE c == Cardinality(RowsOf(r))
<1>1. c \in Nat /\ {row.event.sequence : row \in RowsOf(r)} = 0..(c - 1)
  BY FS_CardinalityType DEF Dense
<1>2. \A n \in 1..c : \E row \in RowsOf(r) : row.event.sequence = n - 1
  <2> HIDE DEF c
  <2>1. \A n \in 1..c : n - 1 \in 0..(c - 1) BY <1>1
  <2>2. QED BY <1>1, <2>1
<1>3. \A row \in RowsOf(r) : /\ row.event.sequence + 1 \in 1..c
                             /\ row.event.sequence \in Nat /\ row.event \in Events
  <2>1. \A row \in RowsOf(r) : row.event.sequence \in 0..(c - 1) BY <1>1
  <2>2. \A row \in RowsOf(r) : row.event \in Events BY DEF RowsOf, IInv, TypeOK
  <2>3. QED BY <1>1, <2>1, <2>2
<1>4. \A n \in 1..c : /\ RowAt(r, n - 1) \in RowsOf(r)
                      /\ RowAt(r, n - 1).event.sequence = n - 1
  <2> SUFFICES ASSUME NEW n \in 1..c
               PROVE  /\ RowAt(r, n - 1) \in RowsOf(r)
                      /\ RowAt(r, n - 1).event.sequence = n - 1
    OBVIOUS
  <2>1. \E row \in RowsOf(r) : row.event.sequence = n - 1 BY <1>2
  <2>2. QED BY <2>1 DEF RowAt
<1>5. \A row \in RowsOf(r) : RowAt(r, row.event.sequence) = row
  <2> SUFFICES ASSUME NEW row \in RowsOf(r) PROVE RowAt(r, row.event.sequence) = row
    OBVIOUS
  <2>1. RowAt(r, row.event.sequence) \in RowsOf(r)
        /\ RowAt(r, row.event.sequence).event.sequence = row.event.sequence
    BY DEF RowAt
  <2>2. QED BY <2>1 DEF RowsOf, IInv, Chain, IdentitiesUnique
<1>6. Log[r] = [n \in 1..c |-> RowAt(r, n - 1).event] BY DEF Log
<1>7. Log[r] \in Seq(Events) /\ Len(Log[r]) = c
  <2>1. \A n \in 1..c : RowAt(r, n - 1).event \in Events BY <1>3, <1>4
  <2>2. Log[r] \in [1..c -> Events] BY <1>6, <2>1
  <2>3. QED BY <1>1, <2>2, SeqDef
<1>8. \A row \in RowsOf(r) : Log[r][row.event.sequence + 1] = row.event
  BY <1>3, <1>5, <1>6
<1>9. QED BY <1>2, <1>3, <1>7, <1>8

LEMMA LogUnchanged == ASSUME UNCHANGED rows PROVE UNCHANGED Log
BY DEF Log, RowAt, RowsOf

\* An insert appends its event to the log of its run.
LEMMA InsertAppends ==
  ASSUME IInv, Dense, LogReads, LogReads', NEW rec, NEW r \in Runs,
         rec.event \in Events, rec.event.run = r, Extends(rec), ~Clashes(rec),
         rows' = rows \cup {rec}
  PROVE  Log' = [Log EXCEPT ![r] = Append(Log[r], rec.event)]
<1> DEFINE n == rec.event.sequence
           longer == Append(Log[r], rec.event)
<1>1. /\ RowsOf(r)' = RowsOf(r) \cup {rec}
      /\ \A q \in Runs \ {r} : RowsOf(q)' = RowsOf(q)
      /\ Cardinality(RowsOf(r)') = n + 1 /\ Cardinality(RowsOf(r)) = n /\ n \in Nat
  BY InsertKeepsDense, NextSequence, BoundAssumption DEF Events
<1>2. \A q \in Runs \ {r} : Log'[q] = Log[q]
  <2> SUFFICES ASSUME NEW q \in Runs \ {r} PROVE Log'[q] = Log[q]
    OBVIOUS
  <2>1. /\ Log[q] \in Seq(Events) /\ Log'[q] \in Seq(Events) /\ Len(Log'[q]) = Len(Log[q])
    BY <1>1 DEF LogReads
  <2>2. \A m \in 1..Len(Log[q]) : Log[q][m] = Log'[q][m]
    <3> SUFFICES ASSUME NEW m \in 1..Len(Log[q]) PROVE Log[q][m] = Log'[q][m]
      OBVIOUS
    <3>1. PICK row \in RowsOf(q) : row.event.sequence = m - 1 BY DEF LogReads
    <3>2. Log[q][row.event.sequence + 1] = row.event /\ row \in RowsOf(q)'
      BY <1>1 DEF LogReads
    <3>3. Log'[q][row.event.sequence + 1] = row.event BY <3>2 DEF LogReads
    <3>4. row.event.sequence + 1 = m BY <3>1, <2>1
    <3>5. QED BY <3>2, <3>3, <3>4
  <2>3. QED BY <2>1, <2>2, SeqEqual
<1>3. Log'[r] = longer
  <2>1. Log[r] \in Seq(Events) /\ Len(Log[r]) = n BY <1>1 DEF LogReads
  <2>2. Log'[r] \in Seq(Events) /\ Len(Log'[r]) = n + 1 BY <1>1 DEF LogReads
  <2>3. /\ longer \in Seq(Events) /\ Len(longer) = n + 1 /\ longer[n + 1] = rec.event
        /\ \A m \in 1..n : longer[m] = Log[r][m]
    BY <1>1, <2>1
  <2>4. \A m \in 1..n : Log'[r][m] = longer[m]
    <3> SUFFICES ASSUME NEW m \in 1..n PROVE Log'[r][m] = Log[r][m]
      BY <2>3
    <3>1. PICK row \in RowsOf(r) : row.event.sequence = m - 1 BY <2>1 DEF LogReads
    <3>2. Log[r][row.event.sequence + 1] = row.event /\ row \in RowsOf(r)'
      BY <1>1 DEF LogReads
    <3>3. Log'[r][row.event.sequence + 1] = row.event BY <3>2 DEF LogReads
    <3>4. row.event.sequence + 1 = m BY <1>1, <3>1
    <3>5. QED BY <3>2, <3>3, <3>4
  <2>5. Log'[r][n + 1] = longer[n + 1]
    <3>1. rec \in RowsOf(r)' BY <1>1
    <3>2. QED BY <2>3, <3>1 DEF LogReads
  <2>6. \A m \in 1..(n + 1) : Log'[r][m] = longer[m]
    <3>1. \A m \in 1..(n + 1) : m \in 1..n \/ m = n + 1 BY <1>1
    <3> HIDE DEF longer, n
    <3>2. QED BY <2>4, <2>5, <3>1
  <2>7. QED BY <2>2, <2>3, <2>6, SeqEqual
<1>4. Log = [q \in Runs |-> Log[q]] /\ Log' = [q \in Runs |-> Log'[q]] BY DEF Log
<1>5. [Log EXCEPT ![r] = longer] = [q \in Runs |-> IF q = r THEN longer ELSE Log[q]]
  BY <1>4
<1>6. QED BY <1>2, <1>3, <1>4, <1>5

\* The event of an insert is one that the log of its run admits.
LEMMA InsertAdmissible ==
  ASSUME IInv, Dense, LogReads, NEW rec, NEW r \in Runs,
         rec.event \in Events, rec.event.run = r, Extends(rec), ~Clashes(rec)
  PROVE  rec.event \in RunLogOf!Admissible(r)
<1> DEFINE e == rec.event
           log == Log[r]
<1>1. log \in Seq(Events) /\ Len(log) = e.sequence /\ e.sequence \in Nat
  <2>1. Cardinality(RowsOf(r)) = e.sequence BY NextSequence
  <2>2. e.sequence \in Nat BY BoundAssumption DEF Events
  <2>3. QED BY <2>1, <2>2 DEF LogReads
<1>2. e.id \notin RunLogOf!UsedIds
  <2> SUFFICES ASSUME NEW q \in Runs, NEW n \in DOMAIN Log[q], Log[q][n].id = e.id PROVE FALSE
    BY DEF RunLogOf!UsedIds
  <2>1. Log[q] \in Seq(Events) /\ n \in 1..Len(Log[q]) BY DEF LogReads
  <2>2. PICK row \in RowsOf(q) : row.event.sequence = n - 1 BY <2>1 DEF LogReads
  <2>3. Log[q][row.event.sequence + 1] = row.event BY DEF LogReads
  <2>4. row.event.sequence + 1 = n BY <2>1, <2>2
  <2>5. row.event.id = e.id /\ row \in rows BY <2>3, <2>4 DEF RowsOf
  <2>6. QED BY <2>5 DEF Clashes
<1>3. CASE RowsOf(r) = {}
  <2>1. e.sequence = 0 /\ e.lifecycle = "queued"
    BY <1>3 DEF Extends
  <2>2. log = << >> BY <1>1, <2>1, EmptySeq
  <2>3. QED BY <1>1, <1>2, <2>1, <2>2 DEF RunLogOf!Admissible, Events
<1>4. CASE RowsOf(r) # {}
  <2>1. PICK prior \in RowsOf(r) :
          /\ IsRoot(prior) /\ Precedes(prior, rec) /\ e.authority = prior.event.authority
          /\ MayFollow(prior.event.lifecycle, e.lifecycle)
    BY <1>4 DEF Extends
  <2>2. prior.event.sequence + 1 = Len(log)
    BY <1>1, <2>1 DEF Precedes
  <2>3. log[Len(log)] = prior.event BY <2>2 DEF LogReads
  <2>4. log # << >> BY <1>1, <2>1, <2>2, EmptySeq DEF LogReads
  <2>5. /\ e.lifecycle \in RunLogOf!Lifecycles
        /\ RunLogOf!MayFollow(prior.event.lifecycle, e.lifecycle)
    BY <2>1 DEF Events, Lifecycles, TerminalLifecycles, MayFollow,
                RunLogOf!Lifecycles, RunLogOf!TerminalLifecycles, RunLogOf!MayFollow
  <2>6. /\ e = [run |-> e.run, sequence |-> e.sequence, id |-> e.id,
                lifecycle |-> e.lifecycle, authority |-> e.authority]
        /\ e.id \in EventIds /\ e.run = r
    BY DEF Events
  <2>7. QED BY <1>1, <1>2, <2>1, <2>3, <2>4, <2>5, <2>6 DEF RunLogOf!Admissible
<1>5. QED BY <1>3, <1>4

\* The journal implements one growing log per run, whatever its writers retry,
\* lose or send too late.
THEOREM RunLogImplemented == Spec => ImplementsRunLog
<1>1. Init => RunLogOf!Init
  <2> SUFFICES ASSUME Init, NEW r \in Runs PROVE Log[r] = << >>
    BY DEF RunLogOf!Init, Log
  <2>1. IInv /\ Dense
    BY InitInvariant, FS_EmptySet DEF Init, Dense, RowsOf
  <2>2. RowsOf(r) = {} BY DEF Init, RowsOf
  <2>3. Log[r] \in Seq(Events) /\ Len(Log[r]) = 0
    BY <2>1, <2>2, ReadsRows, FS_EmptySet DEF LogReads
  <2>4. QED BY <2>3, EmptySeq
<1>2. IInv /\ Dense /\ LogReads /\ LogReads' /\ [Next]_vars => [RunLogOf!Next]_Log
  <2> SUFFICES ASSUME IInv, Dense, LogReads, LogReads', [Next]_vars, Log' # Log
               PROVE  RunLogOf!Next
    OBVIOUS
  <2>1. rows' # rows BY LogUnchanged
  <2>2. PICK w \in Writers : Insert(w)
    BY <2>1 DEF Next, vars, Compose, Replay, Refuse, Admit, Abort, Retry, Finish
  <2>3. pc[w] = "admitted" /\ ~Clashes(held[w]) /\ rows' = rows \cup {held[w]}
    BY <2>1, <2>2 DEF Insert
  <2>4. held[w].event \in Events /\ Extends(held[w])
    BY <2>3 DEF IInv, TypeOK, AdmittedExtends
  <2>5. PICK rec : rec = held[w] OBVIOUS
  <2> DEFINE r == rec.event.run
  <2>6. r \in Runs BY <2>4, <2>5 DEF Events
  <2>7. Log' = [Log EXCEPT ![r] = Append(Log[r], rec.event)]
    BY <2>3, <2>4, <2>5, <2>6, InsertAppends
  <2>8. rec.event \in RunLogOf!Admissible(r)
    BY <2>3, <2>4, <2>5, <2>6, InsertAdmissible
  <2>9. QED BY <2>6, <2>7, <2>8 DEF RunLogOf!Next
<1>3. QED BY <1>1, <1>2, Counted, ReadsRows, PTL DEF Spec, ImplementsRunLog, RunLogOf!Spec
=============================================================================
