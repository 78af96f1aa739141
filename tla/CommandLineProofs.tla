--------------------------- MODULE CommandLineProofs ---------------------------
(***************************************************************************)
(* Exit status zero is earned, for any number of operators, manifests,     *)
(* releases of the files, and documents.  The parts of the command line    *)
(* come first, each by itself, then the command line they make up.         *)
(*                                                                         *)
(* The operators: the approval file binds only a manifest whose digest a   *)
(* human typed, which is inductive together with what every command        *)
(* carries on its way to the file; and what is replaced was retained.      *)
(*                                                                         *)
(* The files: images are bound only by one release of them, although they  *)
(* may change while they are read.                                         *)
(*                                                                         *)
(* The documents: the search for a cycle accepts a document just when its  *)
(* steps have an order.  The order in which the visits end is one; and     *)
(* when a visit meets a step of its own path, every order would have that  *)
(* step before itself.                                                     *)
(***************************************************************************)
EXTENDS CommandLine, FiniteSetTheorems, TLAPS

AfterAsking == {"ask", "recheck", "compare", "retain", "replace", "verify", "restore"}
AfterConfirming == AfterAsking \ {"ask"}
Writing == {"retain", "replace", "verify", "restore"}

WasConfirmed(record) == record # None => record.manifest \in confirmed

\* What operator o's command carries.
CarriesConfirmed(o) ==
  /\ op[o].pc \in AfterAsking => op[o].shown \in Manifests
  /\ op[o].pc \in AfterConfirming => op[o].shown \in confirmed
  /\ op[o].pc \in Writing =>
       op[o].record \in Records /\ WasConfirmed(op[o].record) /\ WasConfirmed(op[o].existing)

IInv == TypeOK /\ WasConfirmed(active) /\ \A o \in Operators : CarriesConfirmed(o)

LEMMA InitIInv == Init => IInv
<1> SUFFICES ASSUME Init PROVE IInv
  OBVIOUS
<1>1. active \in Records \cup {None} /\ approved \subseteq Records
  BY DEF Init, Records
<1>2. confirmed \subseteq Manifests /\ WasConfirmed(active)
  BY DEF Init, WasConfirmed
<1>3. op \in [Operators -> Commands]
  BY DEF Init, Idle, Commands
<1>4. \A o \in Operators : CarriesConfirmed(o)
  BY DEF Init, Idle, CarriesConfirmed, AfterAsking, AfterConfirming, Writing
<1> QED
  BY <1>1, <1>2, <1>3, <1>4 DEF Init, IInv, TypeOK

\* A step that changes one command, which still carries what is confirmed, and
\* not what was confirmed, disturbs no other.
LEMMA OneCommand ==
  ASSUME IInv, NEW o \in Operators, NEW c \in Commands,
         op' = [op EXCEPT ![o] = c],
         manifest' \in Manifests, active' \in Records \cup {None},
         superseded' \subseteq Records, now' \in Nat, made' \in Nat,
         confirmed \subseteq confirmed', confirmed' \subseteq Manifests,
         approved' \subseteq Records,
         WasConfirmed(active)', CarriesConfirmed(o)'
  PROVE  IInv'
<1>1. op' \in [Operators -> Commands]
  BY DEF IInv, TypeOK
<1>2. ASSUME NEW p \in Operators, p # o PROVE CarriesConfirmed(p)'
  <2>1. op'[p] = op[p] /\ CarriesConfirmed(p)
    BY <1>2 DEF IInv, TypeOK
  <2> QED
    BY <2>1 DEF CarriesConfirmed, WasConfirmed
<1> QED
  BY <1>1, <1>2 DEF IInv, TypeOK

LEMMA NextIInv == IInv /\ [Next]_vars => IInv'
<1> SUFFICES ASSUME IInv, [Next]_vars PROVE IInv'
  OBVIOUS
<1>t. TypeOK /\ WasConfirmed(active) /\ \A o \in Operators : op[o] \in Commands /\ CarriesConfirmed(o)
  BY DEF IInv, TypeOK
<1>1. ASSUME NEW o \in Operators, Ask(o) PROVE IInv'
  <2> DEFINE c == [Idle EXCEPT !.pc = "ask", !.shown = manifest,
                     !.status = Status(manifest, now), !.seen = active]
  <2>1. c \in Commands
    BY <1>1, <1>t DEF Ask, Idle, Commands, TypeOK
  <2>2. op' = [op EXCEPT ![o] = c] /\ op'[o] = c
    BY <1>1, <1>t DEF Ask, TypeOK
  <2>3. CarriesConfirmed(o)'
    BY <2>2, <1>t DEF CarriesConfirmed, Idle, AfterAsking, AfterConfirming, Writing, TypeOK
  <2>4. WasConfirmed(active)'
    BY <1>1, <1>t DEF Ask, WasConfirmed
  <2> QED
    BY <1>1, <1>t, <2>1, <2>2, <2>3, <2>4, OneCommand DEF Ask, TypeOK
<1>2. ASSUME NEW o \in Operators, Confirm(o) PROVE IInv'
  <2> DEFINE c == [op[o] EXCEPT !.pc = "recheck"]
  <2>1. c \in Commands
    BY <1>t DEF Commands
  <2>2. op' = [op EXCEPT ![o] = c] /\ op'[o] = c
    BY <1>2, <1>t DEF Confirm, Go, TypeOK
  <2>3. op[o].shown \in Manifests
    BY <1>2, <1>t DEF Confirm, At, CarriesConfirmed, AfterAsking
  <2>4. CarriesConfirmed(o)'
    BY <1>2, <1>t, <2>2, <2>3 DEF Confirm, CarriesConfirmed, Commands, AfterAsking, AfterConfirming, Writing
  <2>5. WasConfirmed(active)'
    BY <1>2, <1>t DEF Confirm, WasConfirmed
  <2> QED
    BY <1>2, <1>t, <2>1, <2>2, <2>3, <2>4, <2>5, OneCommand DEF Confirm, TypeOK
<1>3. ASSUME NEW o \in Operators, Recheck(o) PROVE IInv'
  <2>1. CASE op' = [op EXCEPT ![o].pc = "compare"]
    <3> DEFINE c == [op[o] EXCEPT !.pc = "compare"]
    <3>1. c \in Commands
      BY <1>t DEF Commands
    <3>2. op' = [op EXCEPT ![o] = c] /\ op'[o] = c
      BY <2>1, <1>t DEF TypeOK
    <3>3. CarriesConfirmed(o)'
      BY <1>3, <1>t, <3>2 DEF Recheck, At, CarriesConfirmed, Commands, AfterAsking, AfterConfirming, Writing
    <3>4. WasConfirmed(active)'
      BY <1>3, <1>t DEF Recheck, WasConfirmed
    <3> QED
      BY <1>3, <1>t, <3>1, <3>2, <3>3, <3>4, OneCommand DEF Recheck, TypeOK
  <2>2. CASE End(o)
    BY <1>3, <2>2, <1>t, OneCommand DEF Recheck, End, Idle, Commands, TypeOK, WasConfirmed,
       CarriesConfirmed, AfterAsking, AfterConfirming, Writing
  <2> QED
    BY <1>3, <2>1, <2>2 DEF Recheck, Go
<1>4. ASSUME NEW o \in Operators, Compare(o) PROVE IInv'
  <2>1. CASE active = op[o].seen
    <3> DEFINE r == [id |-> made + 1, manifest |-> op[o].shown, at |-> now]
               c == [op[o] EXCEPT !.pc = "retain", !.existing = active, !.record = r]
    <3>1. op[o].shown \in Manifests /\ op[o].shown \in confirmed
      BY <1>4, <1>t DEF Compare, At, CarriesConfirmed, AfterAsking, AfterConfirming
    <3>2. r \in Records /\ WasConfirmed(r)
      BY <1>t, <3>1 DEF Records, TypeOK, WasConfirmed
    <3>3. c \in Commands
      BY <1>t, <3>2 DEF Commands, TypeOK
    <3>4. op' = [op EXCEPT ![o] = c] /\ op'[o] = c
      BY <1>4, <2>1, <1>t DEF Compare, TypeOK
    <3>5. CarriesConfirmed(o)'
      <4>1. confirmed' = confirmed
        BY <1>4 DEF Compare
      <4>2. c.shown = op[o].shown /\ c.record = r /\ c.existing = active
        BY <1>t DEF Commands
      <4>3. op'[o].shown = op[o].shown /\ op'[o].record = r /\ op'[o].existing = active
        BY <3>4, <4>2
      <4> QED
        BY <1>t, <3>1, <3>2, <4>1, <4>3 DEF CarriesConfirmed, WasConfirmed
    <3>6. WasConfirmed(active)'
      BY <1>4, <1>t DEF Compare, WasConfirmed
    <3>7. UNCHANGED <<manifest, active, superseded, now, confirmed, approved>> /\ made' \in Nat
      BY <1>4, <2>1, <1>t DEF Compare, TypeOK
    <3> HIDE DEF r, c
    <3> QED
      BY <1>t, <3>3, <3>4, <3>5, <3>6, <3>7, OneCommand DEF TypeOK
  <2>2. CASE active # op[o].seen
    BY <1>4, <2>2, <1>t, OneCommand DEF Compare, End, Idle, Commands, TypeOK, WasConfirmed,
       CarriesConfirmed, AfterAsking, AfterConfirming, Writing
  <2> QED
    BY <2>1, <2>2
<1>5. ASSUME NEW o \in Operators, Retain(o) PROVE IInv'
  <2> DEFINE c == [op[o] EXCEPT !.pc = "replace"]
  <2>1. c \in Commands
    BY <1>t DEF Commands
  <2>2. op' = [op EXCEPT ![o] = c] /\ op'[o] = c
    BY <1>5, <1>t DEF Retain, Go, TypeOK
  <2>3. CarriesConfirmed(o)'
    BY <1>5, <1>t, <2>2 DEF Retain, At, CarriesConfirmed, WasConfirmed, Commands, AfterAsking, AfterConfirming, Writing
  <2>4. WasConfirmed(active)'
    BY <1>5, <1>t DEF Retain, WasConfirmed
  <2>5. superseded' \subseteq Records
    BY <1>5, <1>t DEF Retain, TypeOK, Commands
  <2> QED
    BY <1>5, <1>t, <2>1, <2>2, <2>3, <2>4, <2>5, OneCommand DEF Retain, TypeOK
<1>6. ASSUME NEW o \in Operators, Replace(o) PROVE IInv'
  <2> DEFINE c == [op[o] EXCEPT !.pc = "verify"]
  <2>1. c \in Commands
    BY <1>t DEF Commands
  <2>2. op' = [op EXCEPT ![o] = c] /\ op'[o] = c
    BY <1>6, <1>t DEF Replace, Go, TypeOK
  <2>3. op[o].record \in Records /\ WasConfirmed(op[o].record)
    BY <1>6, <1>t DEF Replace, At, CarriesConfirmed, Writing
  <2>4. CarriesConfirmed(o)'
    BY <1>6, <1>t, <2>2 DEF Replace, At, CarriesConfirmed, WasConfirmed, Commands, AfterAsking, AfterConfirming, Writing
  <2>5. WasConfirmed(active)'
    BY <1>6, <2>3 DEF Replace, WasConfirmed
  <2> QED
    BY <1>6, <1>t, <2>1, <2>2, <2>3, <2>4, <2>5, OneCommand DEF Replace, TypeOK
<1>7. ASSUME NEW o \in Operators, Verify(o) PROVE IInv'
  <2>1. CASE op' = [op EXCEPT ![o].pc = "restore"] /\ approved' = approved
    <3> DEFINE c == [op[o] EXCEPT !.pc = "restore"]
    <3>1. c \in Commands
      BY <1>t DEF Commands
    <3>2. op' = [op EXCEPT ![o] = c] /\ op'[o] = c
      BY <2>1, <1>t DEF TypeOK
    <3>3. CarriesConfirmed(o)'
      BY <1>7, <1>t, <3>2 DEF Verify, At, CarriesConfirmed, WasConfirmed, Commands, AfterAsking, AfterConfirming, Writing
    <3>4. WasConfirmed(active)'
      BY <1>7, <1>t DEF Verify, WasConfirmed
    <3> QED
      BY <1>7, <2>1, <1>t, <3>1, <3>2, <3>3, <3>4, OneCommand DEF Verify, TypeOK
  <2>2. CASE End(o) /\ approved' = approved \cup {op[o].record}
    <3>1. op[o].record \in Records
      BY <1>7, <1>t DEF Verify, At, CarriesConfirmed, Writing
    <3> QED
      BY <1>7, <2>2, <1>t, <3>1, OneCommand DEF Verify, End, Idle, Commands, TypeOK, WasConfirmed,
         CarriesConfirmed, AfterAsking, AfterConfirming, Writing
  <2> QED
    BY <1>7, <2>1, <2>2 DEF Verify, Go
<1>8. ASSUME NEW o \in Operators, Restore(o) PROVE IInv'
  <2>1. op[o].existing \in Records \cup {None} /\ WasConfirmed(op[o].existing)
    BY <1>8, <1>t DEF Restore, At, CarriesConfirmed, Writing, Commands
  <2>2. Idle \in Commands /\ op' = [op EXCEPT ![o] = Idle] /\ op'[o] = Idle
    BY <1>8, <1>t DEF Restore, End, Idle, Commands, TypeOK
  <2>3. WasConfirmed(active)'
    BY <1>8, <2>1 DEF Restore, WasConfirmed
  <2>4. CarriesConfirmed(o)'
    BY <2>2 DEF CarriesConfirmed, Idle, AfterAsking, AfterConfirming, Writing
  <2> QED
    BY <1>8, <1>t, <2>1, <2>2, <2>3, <2>4, OneCommand DEF Restore, TypeOK
<1>9. ASSUME NEW o \in Operators, Stop(o) PROVE IInv'
  BY <1>9, <1>t, OneCommand DEF Stop, End, Idle, Commands, TypeOK, WasConfirmed,
     CarriesConfirmed, AfterAsking, AfterConfirming, Writing
<1>10. CASE Edit
  BY <1>10, <1>t DEF Edit, IInv, TypeOK, CarriesConfirmed, WasConfirmed
<1>11. CASE Tick
  BY <1>11, <1>t DEF Tick, IInv, TypeOK, CarriesConfirmed, WasConfirmed
<1>12. CASE UNCHANGED vars
  BY <1>12, <1>t DEF vars, IInv, TypeOK, CarriesConfirmed, WasConfirmed
<1> QED
  BY <1>1, <1>2, <1>3, <1>4, <1>5, <1>6, <1>7, <1>8, <1>9, <1>10, <1>11, <1>12 DEF Next

LEMMA Invariance == Spec => []IInv
<1>1. Init => IInv
  BY InitIInv
<1>2. IInv /\ [Next]_vars => IInv'
  BY NextIInv
<1> QED
  BY <1>1, <1>2, PTL DEF Spec

\* Every variable of the approval command keeps its type (approve_interactive,
\* write_approval).
THEOREM TypeCorrect == Spec => []TypeOK
<1>1. IInv => TypeOK
  BY DEF IInv
<1> QED
  BY <1>1, Invariance, PTL

\* The approval file never binds a manifest whose full digest no human typed:
\* editing the manifest, failing, dying and overtaking do not change that.
THEOREM ConfirmedOnly == Spec => []ActiveWasConfirmed
<1>1. IInv => ActiveWasConfirmed
  BY DEF IInv, WasConfirmed, ActiveWasConfirmed
<1> QED
  BY <1>1, Invariance, PTL

-----------------------------------------------------------------------------
(* What is replaced.  A record that waits to be put in the file is none of *)
(* those reported, because the records have identities of their own; and   *)
(* what a command is about to replace it has retained.                     *)

Waits(o) == op[o].pc \in Writing

OwnRecord(o) ==
  Waits(o) =>
    /\ op[o].record.id <= made
    /\ \A r \in approved : r.id # op[o].record.id
    /\ \A p \in Operators \ {o} : Waits(p) => op[p].record.id # op[o].record.id
KeptPrior(o) ==
  op[o].pc \in {"replace", "verify", "restore"} =>
    op[o].existing = None \/ op[o].existing \in superseded
Issued == \A r \in approved : r.id <= made
RInv == Issued /\ \A o \in Operators : OwnRecord(o) /\ KeptPrior(o)

\* A step of one command that builds no record, and puts nothing in the file
\* that it did not carry before, disturbs no other command.
LEMMA CarriesOn ==
  ASSUME IInv, RInv, NEW o \in Operators, made' = made, superseded \subseteq superseded',
         \A p \in Operators \ {o} : op'[p] = op[p],
         op'[o].pc \in Writing => Waits(o) /\ op'[o].record = op[o].record,
         \/ approved' = approved
         \/ Waits(o) /\ approved' = approved \cup {op[o].record} /\ op'[o].pc \notin Writing,
         KeptPrior(o)'
  PROVE  RInv'
<1>1. \A p \in Operators : OwnRecord(p) /\ KeptPrior(p) BY DEF RInv
<1>2. Issued' BY <1>1 DEF RInv, Issued, OwnRecord
<1>3. ASSUME NEW p \in Operators \ {o} PROVE OwnRecord(p)' /\ KeptPrior(p)'
  <2>1. op'[p] = op[p] /\ OwnRecord(p) /\ KeptPrior(p) BY <1>1
  <2>2. KeptPrior(p)' BY <2>1 DEF KeptPrior
  <2>3. OwnRecord(p)' BY <1>1, <2>1 DEF OwnRecord, Waits
  <2>4. QED BY <2>2, <2>3
<1>4. OwnRecord(o)' BY <1>1 DEF OwnRecord, Waits
<1>5. QED BY <1>2, <1>3, <1>4 DEF RInv

LEMMA NextRInv == IInv /\ RInv /\ [Next]_vars => RInv'
<1> SUFFICES ASSUME IInv, RInv, [Next]_vars PROVE RInv'
  OBVIOUS
<1>t. TypeOK /\ \A o \in Operators : op[o] \in Commands /\ OwnRecord(o) /\ KeptPrior(o)
  BY DEF IInv, TypeOK, RInv
<1>1. ASSUME NEW o \in Operators, NEW c \in Commands, op' = [op EXCEPT ![o] = c],
             c.pc \notin Writing, made' = made, superseded' = superseded,
             \/ approved' = approved
             \/ Waits(o) /\ approved' = approved \cup {op[o].record}
      PROVE  RInv'
  <2>1. op'[o] = c /\ \A p \in Operators \ {o} : op'[p] = op[p] BY <1>1, <1>t DEF TypeOK
  <2>2. KeptPrior(o)' BY <1>1, <2>1 DEF KeptPrior, Writing
  <2>3. QED BY <1>1, <2>1, <2>2, CarriesOn
<1>2. ASSUME NEW o \in Operators, NEW pc \in Writing, op' = [op EXCEPT ![o].pc = pc], Waits(o),
             made' = made, superseded \subseteq superseded', approved' = approved,
             op[o].existing = None \/ op[o].existing \in superseded'
      PROVE  RInv'
  <2>1. op'[o] = [op[o] EXCEPT !.pc = pc] /\ \A p \in Operators \ {o} : op'[p] = op[p]
    BY <1>2, <1>t DEF TypeOK
  <2>2. op'[o].record = op[o].record /\ op'[o].existing = op[o].existing
    BY <2>1, <1>t DEF Commands
  <2>3. KeptPrior(o)' BY <1>2, <2>2 DEF KeptPrior
  <2>4. QED BY <1>2, <2>1, <2>2, <2>3, CarriesOn
<1>3. Idle \in Commands /\ Idle.pc \notin Writing
  BY DEF Idle, Commands, Writing
<1>4. ASSUME NEW o \in Operators, End(o), made' = made, superseded' = superseded,
             \/ approved' = approved
             \/ Waits(o) /\ approved' = approved \cup {op[o].record}
      PROVE  RInv'
  BY <1>1, <1>3, <1>4 DEF End
<1>5. ASSUME NEW o \in Operators, NEW pc \in AfterAsking \ Writing, op' = [op EXCEPT ![o].pc = pc],
             made' = made, superseded' = superseded, approved' = approved
      PROVE  RInv'
  <2> DEFINE c == [op[o] EXCEPT !.pc = pc]
  <2>1. c \in Commands /\ c.pc = pc BY <1>t DEF Commands, AfterAsking
  <2>2. op' = [op EXCEPT ![o] = c] BY <1>5, <1>t DEF TypeOK
  <2> HIDE DEF c
  <2>3. QED BY <1>1, <1>5, <2>1, <2>2
<1>6. ASSUME NEW o \in Operators, Ask(o) PROVE RInv'
  <2> DEFINE c == [Idle EXCEPT !.pc = "ask", !.shown = manifest,
                     !.status = Status(manifest, now), !.seen = active]
  <2>1. c \in Commands /\ c.pc \notin Writing
    BY <1>6, <1>t DEF Ask, Idle, Commands, TypeOK, Writing
  <2>2. /\ op' = [op EXCEPT ![o] = c]
        /\ made' = made /\ superseded' = superseded /\ approved' = approved
    BY <1>6 DEF Ask
  <2> HIDE DEF c
  <2>3. QED BY <1>1, <2>1, <2>2
<1>7. ASSUME NEW o \in Operators, Confirm(o) PROVE RInv'
  BY <1>5, <1>7 DEF Confirm, Go, AfterAsking, Writing
<1>8. ASSUME NEW o \in Operators, Recheck(o) PROVE RInv'
  BY <1>4, <1>5, <1>8 DEF Recheck, Go, AfterAsking, Writing
<1>9. ASSUME NEW o \in Operators, Compare(o) PROVE RInv'
  <2>1. CASE End(o) /\ made' = made BY <1>4, <1>9, <2>1 DEF Compare
  <2>2. CASE active = op[o].seen
    <3> DEFINE r == [id |-> made + 1, manifest |-> op[o].shown, at |-> now]
    <3>1. /\ made' = made + 1 /\ approved' = approved /\ superseded' = superseded
          /\ op' = [op EXCEPT ![o].pc = "retain", ![o].existing = active, ![o].record = r]
      BY <1>9, <2>2 DEF Compare
    <3>2. \A p \in Operators \ {o} : op'[p] = op[p] BY <3>1, <1>t DEF TypeOK
    <3>3. op'[o].pc = "retain" /\ op'[o].record.id = made + 1 BY <3>1, <1>t DEF TypeOK, Commands
    <3>4. made \in Nat /\ (\A a \in approved : a \in Records /\ a.id \in Nat /\ a.id <= made)
      BY <1>t DEF TypeOK, RInv, Issued, Records
    <3>5. \A p \in Operators : Waits(p) => op[p].record.id \in Nat /\ op[p].record.id <= made
      BY <1>t DEF OwnRecord, IInv, CarriesConfirmed, Waits, Records
    <3>u. made' = made + 1 /\ approved' = approved /\ superseded' = superseded BY <3>1
    <3>6. Issued' BY <3>u, <3>4 DEF Issued
    <3>7. OwnRecord(o)' /\ KeptPrior(o)'
      <4>1. KeptPrior(o)' BY <3>3 DEF KeptPrior
      <4>2. \A a \in approved : a.id # op'[o].record.id BY <3>3, <3>4
      <4>3. \A p \in Operators \ {o} : op'[p].pc \in Writing => op'[p].record.id # op'[o].record.id
        BY <3>2, <3>3, <3>4, <3>5 DEF Waits
      <4>4. QED BY <3>u, <3>3, <3>4, <4>1, <4>2, <4>3 DEF OwnRecord, Waits
    <3>8. ASSUME NEW p \in Operators \ {o} PROVE OwnRecord(p)' /\ KeptPrior(p)'
      <4>1. op'[p] = op[p] /\ KeptPrior(p) /\ OwnRecord(p) BY <3>2, <1>t
      <4>2. KeptPrior(p)' BY <3>u, <4>1 DEF KeptPrior
      <4>3. ASSUME op'[p].pc \in Writing
            PROVE  /\ op'[p].record.id <= made + 1
                   /\ \A a \in approved : a.id # op'[p].record.id
                   /\ \A q \in Operators \ {p} : op'[q].pc \in Writing =>
                                                   op'[q].record.id # op'[p].record.id
        <5>1. Waits(p) /\ op[p].record.id \in Nat /\ op[p].record.id <= made
          BY <3>5, <4>1, <4>3 DEF Waits
        <5>2. ASSUME NEW q \in Operators \ {p}, op'[q].pc \in Writing
              PROVE  op'[q].record.id # op'[p].record.id
          <6>1. CASE q = o BY <3>3, <3>4, <4>1, <5>1, <6>1
          <6>2. CASE q # o BY <3>2, <4>1, <5>1, <5>2, <6>2 DEF OwnRecord, Waits
          <6>3. QED BY <6>1, <6>2
        <5>3. QED BY <3>4, <4>1, <5>1, <5>2 DEF OwnRecord
      <4>4. QED BY <3>u, <4>2, <4>3 DEF OwnRecord, Waits
    <3>9. QED BY <3>6, <3>7, <3>8 DEF RInv
  <2>3. QED BY <1>9, <2>1, <2>2 DEF Compare
<1>10. ASSUME NEW o \in Operators, Retain(o) PROVE RInv'
  BY <1>2, <1>10 DEF Retain, Go, At, Waits, Writing
<1>11. ASSUME NEW o \in Operators, Replace(o) PROVE RInv'
  BY <1>2, <1>11, <1>t DEF Replace, Go, At, Waits, Writing, KeptPrior
<1>12. ASSUME NEW o \in Operators, Verify(o) PROVE RInv'
  <2>1. Waits(o) BY <1>12 DEF Verify, At, Waits, Writing
  <2>2. op[o].existing = None \/ op[o].existing \in superseded
    BY <1>12, <1>t DEF Verify, At, KeptPrior
  <2>3. QED BY <1>2, <1>4, <1>12, <2>1, <2>2 DEF Verify, Go, Writing
<1>13. ASSUME NEW o \in Operators, Restore(o) \/ Stop(o) PROVE RInv'
  BY <1>4, <1>13 DEF Restore, Stop
<1>14. CASE Edit \/ Tick \/ UNCHANGED vars
  BY <1>14, <1>t DEF Edit, Tick, vars, RInv, Issued, OwnRecord, KeptPrior, Waits
<1>15. QED
  BY <1>6, <1>7, <1>8, <1>9, <1>10, <1>11, <1>12, <1>13, <1>14 DEF Next

LEMMA RInvariance == Spec => []RInv
<1>1. Init => RInv
  <2> SUFFICES ASSUME Init PROVE RInv
    OBVIOUS
  <2>1. Issued BY DEF Init, Issued
  <2>2. \A o \in Operators : OwnRecord(o) /\ KeptPrior(o)
    BY DEF Init, Idle, OwnRecord, KeptPrior, Waits, Writing
  <2>3. QED BY <2>1, <2>2 DEF RInv
<1>2. QED BY <1>1, NextRInv, Invariance, PTL DEF Spec

\* A reported approval leaves the file only for the retained records, whatever
\* fails and whoever dies, unless another command had compared against an
\* older file (write_approval), for any number of operators.
THEOREM Retained == Spec => ReplacedIsRetained
<1>1. IInv /\ RInv /\ [Next]_vars =>
        [\A r \in approved : active = r /\ active' # r =>
           \/ r \in superseded
           \/ \E o \in Operators :
                \/ At(o, "replace") /\ op[o].existing # r
                \/ At(o, "restore") /\ op[o].record # r]_vars
  <2> SUFFICES ASSUME IInv, RInv, [Next]_vars, NEW r \in approved, active = r, active' # r,
                      r \notin superseded
               PROVE  \E o \in Operators :
                        \/ At(o, "replace") /\ op[o].existing # r
                        \/ At(o, "restore") /\ op[o].record # r
    OBVIOUS
  <2>1. PICK o \in Operators : Replace(o) \/ Restore(o)
    BY DEF Next, vars, Ask, Confirm, Recheck, Compare, Retain, Verify, Stop, Edit, Tick
  <2>2. r \in Records /\ r # None BY NoneAssumption DEF IInv, TypeOK
  <2>3. CASE Replace(o)
    BY <2>2, <2>3 DEF Replace, At, RInv, KeptPrior
  <2>4. CASE Restore(o)
    BY <2>4 DEF Restore, At, RInv, OwnRecord, Waits, Writing
  <2>5. QED BY <2>1, <2>3, <2>4
<1>2. QED BY <1>1, Invariance, RInvariance, PTL DEF Spec, ReplacedIsRetained

-----------------------------------------------------------------------------
(* The validation of the platform's files.  A file changes at most once     *)
(* while they are read, so that its reads show one release up to some       *)
(* moment and the other from then on; what was compared is what was read.   *)
(* Two reads of the contract agree with the runtime lock: one, and, through *)
(* the topology lock, one before the others; what changed in between would  *)
(* have had to change twice.                                                *)

\* The reads of file f before the moment k are of the other release than now.
SeenUntil(f, k) ==
  \A n \in 1 .. Len(read) :
    Reads[n] = f => read[n] = (IF n > k THEN tree[f] ELSE 1 - tree[f])
OneChange(f) ==
  /\ f \notin switched => SeenUntil(f, 0)
  /\ \E k \in Nat : SeenUntil(f, k)

TInv ==
  /\ read \in Seq({0, 1}) /\ Len(read) <= Len(Reads)
  /\ tree \in [Files -> {0, 1}] /\ switched \subseteq Files
  /\ topo = "off" => read = <<>> /\ switched = {}
  /\ \A f \in same : Names[f] \subseteq same
  /\ \A f \in Files : OneChange(f)
  /\ topo \in {"reading", "valid", "bound"} => \A n \in 1 .. Len(read) : Agrees(read, n)
  /\ topo = "bound" => Len(read) = Len(Reads)

LEMMA ReadsAre ==
  /\ Len(Validation) = 17 /\ Len(Reads) = 23
  /\ Reads[2] = "compose" /\ Reads[3] = "context" /\ Reads[1] = "lock" /\ Reads[4] = "topologyLock"
  /\ Reads[5] = "contract" /\ Reads[6] = "fixture" /\ Reads[7] = "images" /\ Reads[8] = "contract"
  /\ Reads[14] = "contract" /\ Reads[19] = "contract" /\ Reads[20] = "runtimeLock"
  /\ Reads[22] = "topologyLock" /\ Reads[23] = "lock"
  /\ \A n \in 1 .. 23 : Reads[n] \in Files
BY DEF Reads, Validation, Files

\* How many reads there are, by itself.
LEMMA ReadsMany == Len(Reads) = 23
BY ReadsAre

\* Which file is read when is not unfolded where only that it is one matters.
LEMMA ReadsFiles == \A n \in 1 .. 23 : Reads[n] \in Files
BY ReadsAre

\* Arithmetic of places, apart from what is read there.
LEMMA NextPlace ==
  ASSUME NEW l \in Nat, NEW m \in Nat, m = 23, l < m
  PROVE  l + 1 \in 1 .. 23
OBVIOUS

LEMMA PlaceWithin ==
  ASSUME NEW l \in 1 .. 23, NEW m, m = 23
  PROVE  l <= m
OBVIOUS

LEMMA Member ==
  ASSUME NEW S, NEW s \in Seq(S), NEW n \in 1 .. Len(s)
  PROVE  s[n] \in S
OBVIOUS

LEMMA FilesFinite == IsFiniteSet(Files)
<1>1. IsFiniteSet({"lock"}) BY FS_Singleton
<1>2. IsFiniteSet({"lock"} \cup {"topologyLock"} \cup {"runtimeLock"} \cup {"contract"}
                   \cup {"images"} \cup {"context"} \cup {"compose"} \cup {"fixture"})
  BY <1>1, FS_AddElement
<1>3. QED BY <1>2 DEF Files

\* What is compared at the n-th read concerns no later one.
LEMMA AgreesEarlier ==
  ASSUME NEW r \in Seq({0, 1}), NEW v \in {0, 1}, NEW n \in 1 .. Len(r)
  PROVE  Agrees(Append(r, v), n) <=> Agrees(r, n)
<1>1. \A m \in 1 .. n : Append(r, v)[m] = r[m] OBVIOUS
<1>2. QED BY <1>1 DEF Agrees, Consistent, Bound, Renders

LEMMA TopologyNextTInv == TInv /\ [TopologyNext]_topology => TInv'
<1> SUFFICES ASSUME TInv, [TopologyNext]_topology PROVE TInv'
  OBVIOUS
<1>1. CASE Validate
  <2>1. /\ read = <<>> /\ switched = {} /\ UNCHANGED <<read, switched>> /\ topo' = "reading"
        /\ tree' \in [Files -> {0, 1}] /\ \A f \in same' : Names[f] \subseteq same'
    BY <1>1 DEF Validate, TInv
  <2>2. QED BY <2>1, ReadsAre DEF TInv, OneChange, SeenUntil
<1>2. CASE ReadNext
  <2> DEFINE n == Len(read) + 1
             f == Reads[n]
  <2>1. /\ n \in 1 .. 23 /\ f \in Files /\ tree[f] \in {0, 1}
        /\ read' = Append(read, tree[f]) /\ UNCHANGED <<tree, same, alike, switched>>
        /\ topo \in {"reading", "valid"}
    <3>1. /\ topo \in {"reading", "valid"} /\ Len(read) < Len(Reads)
          /\ read' = Append(read, tree[f]) /\ UNCHANGED <<tree, same, alike, switched>>
      BY <1>2 DEF ReadNext
    <3>2. read \in Seq({0, 1}) /\ tree \in [Files -> {0, 1}] BY DEF TInv
    <3> HIDE DEF f
    <3>3. n \in 1 .. 23
      <4>1. Len(read) < Len(Reads) BY <3>1
      <4>2. Len(read) \in Nat BY <3>2
      <4>3. Len(Reads) \in Nat BY ReadsMany
      <4>4. QED BY <4>1, <4>2, <4>3, ReadsMany, NextPlace
    <3>4. f \in Files BY <3>3, ReadsFiles DEF f
    <3>5. tree[f] \in {0, 1} BY <3>2, <3>4
    <3>6. QED BY <3>1, <3>3, <3>4, <3>5
  <2>2. /\ read' \in Seq({0, 1}) /\ Len(read') = n /\ read'[n] = tree[f]
        /\ \A m \in 1 .. Len(read) : read'[m] = read[m]
    BY <2>1 DEF TInv
  <2>3. ASSUME NEW g \in Files PROVE OneChange(g)'
    <3>1. ASSUME NEW k \in Nat, k < n, SeenUntil(g, k) PROVE SeenUntil(g, k)'
      BY <2>1, <2>2, <3>1 DEF SeenUntil, TInv
    <3>2. PICK k \in Nat : SeenUntil(g, k) BY DEF TInv, OneChange
    <3>3. \E h \in Nat : h < n /\ SeenUntil(g, h)
      <4>1. CASE k < n BY <3>2, <4>1
      <4>2. CASE k >= n
        <5>1. Len(read) \in Nat /\ Len(read) < n BY DEF TInv
        <5>2. SeenUntil(g, Len(read)) BY <3>2, <4>2, <5>1 DEF SeenUntil
        <5>3. QED BY <5>1, <5>2
      <4>3. QED BY <4>1, <4>2, <2>1
    <3>4. QED BY <2>1, <3>1, <3>3 DEF OneChange, TInv
  <2>4. topo' # "rejected" => Agrees(read', n) BY <1>2, <2>2 DEF ReadNext
  <2>5. topo' # "rejected" => \A m \in 1 .. Len(read') : Agrees(read, m)'
    <3> SUFFICES ASSUME topo' # "rejected", NEW m \in 1 .. n PROVE Agrees(read, m)'
      BY <2>2
    <3>1. ASSUME Agrees(read', m) PROVE Agrees(read, m)'
      BY <2>1, <3>1 DEF Agrees, Consistent, Bound, Renders
    <3>2. Agrees(read', m)
      <4>1. CASE m = n BY <2>4, <4>1
      <4>2. CASE m # n
        <5>1. m \in 1 .. Len(read) BY <2>1, <4>2 DEF TInv
        <5>2. Agrees(read, m) BY <2>1, <5>1 DEF TInv
        <5>3. QED BY <2>1, <5>1, <5>2, AgreesEarlier DEF TInv
      <4>3. QED BY <4>1, <4>2
    <3>3. QED BY <3>1, <3>2
  <2>6. topo' = "bound" => Len(read') = Len(Reads) BY <1>2 DEF ReadNext
  <2>7. topo' # "off" BY <1>2 DEF ReadNext
  <2>8. /\ tree' \in [Files -> {0, 1}] /\ switched' \subseteq Files
        /\ \A g \in same' : Names[g] \subseteq same'
    BY <2>1 DEF TInv
  <2>9. Len(read') <= Len(Reads)
    <3>1. Len(read') = n BY <2>2
    <3>2. n \in 1 .. 23 BY <2>1
    <3> HIDE DEF n
    <3>3. QED BY <3>1, <3>2, ReadsMany, PlaceWithin
  <2> HIDE DEF n, f
  <2>10. QED BY <2>2, <2>3, <2>5, <2>6, <2>7, <2>8, <2>9 DEF TInv
<1>3. CASE Switch
  <2>1. PICK f \in Files \ (same \cup switched) :
          tree' = [tree EXCEPT ![f] = 1 - @] /\ switched' = switched \cup {f}
    BY <1>3 DEF Switch
  <2>2. UNCHANGED <<same, alike, read, topo>> BY <1>3 DEF Switch
  <2>3. tree[f] \in {0, 1} /\ tree'[f] = 1 - tree[f]
        /\ (\A g \in Files \ {f} : tree'[g] = tree[g]) /\ tree' \in [Files -> {0, 1}]
    BY <2>1 DEF TInv
  <2>4. OneChange(f)'
    <3>1. SeenUntil(f, 0) BY <2>1 DEF TInv, OneChange
    <3>2. Len(read) \in Nat /\ SeenUntil(f, Len(read))'
      BY <2>2, <2>3, <3>1 DEF SeenUntil, TInv
    <3>3. QED BY <2>1, <2>2, <3>2 DEF OneChange
  <2>5. ASSUME NEW g \in Files \ {f} PROVE OneChange(g)'
    <3>1. \A k \in Nat : SeenUntil(g, k) => SeenUntil(g, k)'
      BY <2>2, <2>3 DEF SeenUntil
    <3>2. QED BY <2>1, <3>1 DEF OneChange, TInv
  <2>6. topo # "off" BY <1>3 DEF Switch
  <2>7. \A n \in 1 .. Len(read) : Agrees(read, n) => Agrees(read, n)'
    BY <2>2 DEF Agrees, Consistent, Bound, Renders
  <2>8. QED BY <2>1, <2>2, <2>3, <2>4, <2>5, <2>6, <2>7 DEF TInv
<1>4. CASE Forget
  <2>1. /\ read' = <<>> /\ switched' = {} /\ topo' = "off" /\ same' = Files
        /\ tree' = [f \in Files |-> 0]
    BY <1>4 DEF Forget
  <2>2. \A f \in Files : Names[f] \subseteq Files BY DEF Files, Names
  <2>3. \A f \in Files : OneChange(f)' BY <2>1 DEF OneChange, SeenUntil
  <2>4. tree' \in [Files -> {0, 1}] BY <2>1
  <2>5. read' \in Seq({0, 1}) /\ Len(read') = 0 BY <2>1
  <2>6. QED BY <2>1, <2>2, <2>3, <2>4, <2>5, ReadsMany DEF TInv
<1>5. CASE BindUnlocked
  <2>1. topo' = "unlocked" /\ topo # "off" /\ UNCHANGED <<tree, same, alike, read, switched>>
    BY <1>5 DEF BindUnlocked
  <2>2. \A f \in Files : OneChange(f)' BY <2>1 DEF TInv, OneChange, SeenUntil
  <2>3. QED BY <2>1, <2>2 DEF TInv
<1>6. CASE UNCHANGED topology
  BY <1>6 DEF topology, TInv, OneChange, SeenUntil, Agrees, Consistent, Bound, Renders
<1>7. QED BY <1>1, <1>2, <1>3, <1>4, <1>5, <1>6 DEF TopologyNext

LEMMA TInvariance == TopologySpec => []TInv
<1>1. TopologyInit => TInv
  <2> SUFFICES ASSUME TopologyInit PROVE TInv
    OBVIOUS
  <2>1. /\ read = <<>> /\ switched = {} /\ topo = "off" /\ same = Files
        /\ tree = [f \in Files |-> 0]
    BY DEF TopologyInit
  <2>2. \A f \in Files : Names[f] \subseteq Files BY DEF Files, Names
  <2>3. \A f \in Files : OneChange(f) BY <2>1 DEF OneChange, SeenUntil
  <2>4. QED BY <2>1, <2>2, <2>3, ReadsAre DEF TInv
<1>2. QED BY <1>1, TopologyNextTInv, PTL DEF TopologySpec

\* Images are bound to a runtime lock only if the tree is of one release, as far
\* as the releases differ; and when one file changes while the files are read,
\* the contract that was enforced is the one that is reported and the one that
\* the images belong to (topology.py:527), whatever the releases have in common.
THEOREM NoMixBinds == TopologySpec => []MixNeverBinds
<1> SUFFICES TInv => MixNeverBinds
  BY TInvariance, PTL
<1> SUFFICES ASSUME TInv, topo = "bound" PROVE MixNeverBinds
  BY DEF MixNeverBinds
<1>1. Len(read) = 23 /\ \A n \in 1 .. 23 : Agrees(read, n) /\ read[n] \in {0, 1}
  <2>1. Len(read) = 23 BY ReadsMany DEF TInv
  <2>2. \A n \in 1 .. 23 : read[n] \in {0, 1}
    <3>1. read \in Seq({0, 1}) BY DEF TInv
    <3>2. \A n \in 1 .. Len(read) : read[n] \in {0, 1} BY <3>1, Member
    <3>3. QED BY <2>1, <3>2
  <2>3. \A n \in 1 .. 23 : Agrees(read, n) BY <2>1 DEF TInv
  <2>4. QED BY <2>1, <2>2, <2>3
<1>2. /\ \A n \in {2, 3} : Bound(read, n, 1)
      /\ \A n \in {5, 6, 7} : Bound(read, n, 4)
      /\ "contract" \in same \/ read[20] = read[19]
      /\ \A n \in {22, 23} : Bound(read, n, 20)
  BY <1>1 DEF Agrees, Consistent
<1>3. /\ "lock" \in same => {"compose", "context"} \subseteq same
      /\ "topologyLock" \in same => {"contract", "fixture", "images"} \subseteq same
  BY DEF TInv, Names
<1>4. ASSUME switched = {}
      PROVE  \E v \in {0, 1} : \A f \in Files : f \in same \/ tree[f] = v
  <2>1. \A n \in 1 .. 23 : read[n] = tree[Reads[n]]
    <3>1. \A f \in Files : SeenUntil(f, 0) BY <1>4 DEF TInv, OneChange
    <3>2. QED BY <1>1, <3>1, ReadsFiles DEF SeenUntil
  <2>2. \A f \in Files : f \in same \/ tree[f] = tree["runtimeLock"]
    BY <1>2, <1>3, <2>1, ReadsAre DEF Bound, Files
  <2>3. QED BY <2>2 DEF TInv, Files
<1>5. ASSUME Cardinality(switched) <= 1, NEW n \in {8, 14, 19}, "contract" \notin same
      PROVE  read[n] = read[20]
  <2>1. read[20] = read[19] BY <1>2, <1>5
  <2>2. "contract" \notin switched \/ "topologyLock" \notin switched
    <3> SUFFICES ASSUME {"contract", "topologyLock"} \subseteq switched PROVE FALSE
      OBVIOUS
    <3>1. IsFiniteSet({"contract"}) /\ Cardinality({"contract"}) = 1 BY FS_Singleton
    <3>2. IsFiniteSet({"contract"} \cup {"topologyLock"})
          /\ Cardinality({"contract"} \cup {"topologyLock"}) = 2
      BY <3>1, FS_AddElement
    <3>3. IsFiniteSet(switched) BY FilesFinite, FS_Subset DEF TInv
    <3>4. 2 <= Cardinality(switched) /\ Cardinality(switched) \in Nat
      BY <3>2, <3>3, FS_Subset, FS_CardinalityType
    <3>5. QED BY <1>5, <3>4
  <2>3. CASE "contract" \notin switched
    <3>1. SeenUntil("contract", 0) BY <2>3 DEF TInv, OneChange, Files
    <3>2. \A m \in {8, 14, 19} : Reads[m] = "contract" BY ReadsAre
    <3>3. \A m \in {8, 14, 19} : read[m] = tree["contract"]
      BY <1>1, <3>1, <3>2 DEF SeenUntil
    <3>4. QED BY <2>1, <3>3
  <2>4. CASE "topologyLock" \notin switched
    <3>1. read[4] = read[22]
      <4>1. SeenUntil("topologyLock", 0) BY <2>4 DEF TInv, OneChange, Files
      <4>2. \A m \in {4, 22} : Reads[m] = "topologyLock" BY ReadsAre
      <4>3. \A m \in {4, 22} : read[m] = tree["topologyLock"]
        BY <1>1, <4>1, <4>2 DEF SeenUntil
      <4>4. QED BY <4>3
    <3>2. read[5] = read[4] /\ read[22] = read[20]
      BY <1>2, <1>3, <1>5, ReadsAre DEF Bound
    <3>3. PICK k \in Nat : SeenUntil("contract", k) BY DEF TInv, OneChange, Files
    <3>4. \A m \in {5, 8, 14, 19} :
            read[m] = (IF m > k THEN tree["contract"] ELSE 1 - tree["contract"])
      BY <1>1, <3>3, ReadsAre DEF SeenUntil
    <3>5. tree["contract"] \in {0, 1} BY DEF TInv, Files
    <3>6. QED BY <2>1, <3>1, <3>2, <3>4, <3>5
  <2>5. QED BY <2>2, <2>3, <2>4
<1>6. QED BY <1>4, <1>5 DEF MixNeverBinds

-----------------------------------------------------------------------------
(* The validation of a document's steps.  Both directions are about the same *)
(* orders: a document is accepted because leaving the steps gave one, and    *)
(* refused for a cycle because in every order each call's step comes before  *)
(* its caller's, so that none could meet its own path.                       *)

\* In every order of the document, step s has its place before step t.
Before(d, s, t) ==
  \A o \in Orders(d) : \A p, q \in 1 .. Len(d.ids) : o[p] = s /\ o[q] = t => p < q

\* The open calls c: of known steps, none visited or called twice, and each
\* before its callers in every order.
Frames == [step : Known(doc), left : SUBSET Known(doc)]
Calls(c) ==
  /\ c \in Seq(Frames)
  /\ \A i \in 1 .. Len(c) : c[i].step \notin visited /\ c[i].left \subseteq doc.deps[c[i].step]
  /\ \A i, j \in 1 .. Len(c) :
       i < j => c[j].step # c[i].step /\ Before(doc, c[j].step, c[i].step)

\* A step's prerequisites are visited, still to come, or what is visited now;
\* the innermost call's is one of S.
Awaiting(c, S) ==
  \A i \in 1 .. Len(c) :
    doc.deps[c[i].step] \subseteq
      visited \cup c[i].left \cup (IF i < Len(c) THEN {c[i + 1].step} ELSE S)

\* What the loop has taken is visited, or is being visited.
Reached(c) == \A i \in 1 .. upto : doc.ids[i] \in visited \cup OnPath(c)

\* The steps visited so far can be put in an order of their own.
Ordered ==
  \E o \in Seq(Known(doc)) : IsOrder(doc, o) /\ {o[i] : i \in 1 .. Len(o)} = visited

WellNamed(d) == Len(d.ids) > 0 /\ Unique(d) /\ NoStranger(d)

Searching ==
  /\ WellNamed(doc)
  /\ upto \in 0 .. Len(doc.ids) /\ visited \subseteq Known(doc)
  /\ Calls(path) /\ Awaiting(path, {}) /\ Reached(path) /\ Ordered

LInv ==
  /\ lint \in {"off", "visiting", "accepted", "refused"}
  /\ lint = "off" => doc = NoDocument /\ upto = 0 /\ path = <<>> /\ visited = {}
  /\ lint # "off" => doc \in Documents
  /\ lint = "visiting" => Searching
  /\ lint = "accepted" => Runnable(doc)
  /\ lint = "refused" => ~Runnable(doc)

LEMMA DocumentType ==
  ASSUME NEW d \in Documents
  PROVE  /\ d.ids \in Seq(StepIds) /\ d.deps \in [Known(d) -> SUBSET StepIds]
         /\ Known(d) = {d.ids[i] : i \in 1 .. Len(d.ids)}
<1>1. PICK l \in StepLists :
        d \in [ids : {l}, deps : [{l[i] : i \in DOMAIN l} -> SUBSET StepIds],
               required : SUBSET StepIds]
  BY DEF Documents
<1>2. l \in Seq(StepIds) BY StepListsAssumption DEF StepListsAssumption
<1>3. d.ids = l /\ d.deps \in [{l[i] : i \in DOMAIN l} -> SUBSET StepIds] BY <1>1
<1>4. DOMAIN l = 1 .. Len(l) BY <1>2
<1>5. Known(d) = {l[i] : i \in DOMAIN l} BY <1>3 DEF Known
<1>6. QED BY <1>2, <1>3, <1>4, <1>5

LEMMA CountUpTo ==
  ASSUME NEW n \in Nat
  PROVE  IsFiniteSet(1 .. n) /\ Cardinality(1 .. n) = n
<1>1. 1 \in Int /\ n \in Int OBVIOUS
<1>2. IsFiniteSet(1 .. n) /\ Cardinality(1 .. n) = IF 1 > n THEN 0 ELSE n - 1 + 1
  BY <1>1, FS_Interval
<1>3. (IF 1 > n THEN 0 ELSE n - 1 + 1) = n OBVIOUS
<1>4. QED BY <1>2, <1>3

\* A document has no more names than steps, and as many only if no name is used
\* twice.
LEMMA KnownCount ==
  ASSUME NEW d \in Documents
  PROVE  /\ IsFiniteSet(Known(d)) /\ Cardinality(Known(d)) \in Nat
         /\ Cardinality(Known(d)) <= Len(d.ids)
         /\ Cardinality(Known(d)) = Len(d.ids) <=> Unique(d)
<1> DEFINE n == Len(d.ids)
<1>1. d.ids \in [1 .. n -> Known(d)] /\ n \in Nat BY DocumentType
<1>2. d.ids \in Surjection(1 .. n, Known(d)) BY <1>1, DocumentType DEF Surjection
<1>3. IsFiniteSet(1 .. n) /\ Cardinality(1 .. n) = n BY <1>1, CountUpTo
<1>4. d.ids \in Injection(1 .. n, Known(d)) <=> Unique(d)
  BY <1>1 DEF Injection, IsInjective, Unique
<1>5. QED BY <1>2, <1>3, <1>4, FS_Surjection, FS_CardinalityType

\* An order has a place for every name, and names are used once.
LEMMA OrderNamesAll ==
  ASSUME NEW d \in Documents, NEW o \in Orders(d)
  PROVE  /\ Unique(d)
         /\ \A s \in Known(d) : \E p \in 1 .. Len(d.ids) : o[p] = s
         /\ \A p, q \in 1 .. Len(d.ids) : o[p] = o[q] => p = q
<1> DEFINE n == Len(d.ids)
<1>1. o \in [1 .. n -> Known(d)] /\ IsOrder(d, o) /\ n \in Nat
  BY DocumentType DEF Orders
<1>2. \A p, q \in 1 .. n : o[p] = o[q] => p = q BY <1>1 DEF IsOrder
<1>3. o \in Injection(1 .. n, Known(d)) BY <1>1, <1>2 DEF Injection, IsInjective
<1>4. IsFiniteSet(1 .. n) /\ Cardinality(1 .. n) = n BY <1>1, CountUpTo
<1>5. n <= Cardinality(Known(d))
      /\ (n = Cardinality(Known(d)) <=> o \in Surjection(1 .. n, Known(d)))
  BY <1>3, <1>4, KnownCount, FS_Injection
<1>6. n = Cardinality(Known(d)) BY <1>1, <1>5, KnownCount
<1>7. o \in Surjection(1 .. n, Known(d)) BY <1>5, <1>6
<1>8. \A s \in Known(d) : \E p \in 1 .. n : o[p] = s BY <1>7 DEF Surjection
<1>9. QED BY <1>2, <1>6, <1>8, KnownCount

\* A document that has an order is well named.
LEMMA OrderIsNamed ==
  ASSUME NEW d \in Documents, NEW o \in Orders(d)
  PROVE  NoStranger(d)
<1> SUFFICES ASSUME NEW s \in Known(d)
             PROVE  s \notin d.deps[s] /\ d.deps[s] \subseteq Known(d)
  BY DEF NoStranger
<1>1. PICK p \in 1 .. Len(d.ids) : o[p] = s BY OrderNamesAll
<1>2. o \in [1 .. Len(d.ids) -> Known(d)] /\ Len(d.ids) \in Nat
      /\ d.deps[s] \subseteq {o[j] : j \in 1 .. p - 1}
  BY <1>1, DocumentType DEF Orders, IsOrder
<1>3. \A j \in 1 .. p - 1 : j \in 1 .. Len(d.ids) /\ j # p BY <1>2
<1>4. QED BY <1>1, <1>2, <1>3, OrderNamesAll

LEMMA DependencyBefore ==
  ASSUME NEW d \in Documents, NEW t \in Known(d), NEW s \in d.deps[t]
  PROVE  Before(d, s, t)
<1> SUFFICES ASSUME NEW o \in Orders(d), NEW p \in 1 .. Len(d.ids), NEW q \in 1 .. Len(d.ids),
                    o[p] = s, o[q] = t
             PROVE  p < q
  BY DEF Before
<1>1. Len(d.ids) \in Nat /\ DOMAIN o = 1 .. Len(d.ids) BY DocumentType DEF Orders
<1>2. PICK j \in 1 .. q - 1 : s = o[j] BY <1>1 DEF Orders, IsOrder
<1>3. j \in 1 .. Len(d.ids) /\ j < q BY <1>1
<1>4. p = j BY <1>2, <1>3, OrderNamesAll
<1>5. QED BY <1>3, <1>4

LEMMA BeforeTransitive ==
  ASSUME NEW d \in Documents, NEW s, NEW t \in Known(d), NEW u,
         Before(d, s, t), Before(d, t, u)
  PROVE  Before(d, s, u)
<1> SUFFICES ASSUME NEW o \in Orders(d), NEW p \in 1 .. Len(d.ids), NEW q \in 1 .. Len(d.ids),
                    o[p] = s, o[q] = u
             PROVE  p < q
  BY DEF Before
<1>1. Len(d.ids) \in Nat BY DocumentType
<1>2. PICK r \in 1 .. Len(d.ids) : o[r] = t BY OrderNamesAll
<1>3. p < r /\ r < q BY <1>2 DEF Before
<1>4. QED BY <1>1, <1>3

LEMMA BeforeItself ==
  ASSUME NEW d \in Documents, NEW s \in Known(d), Before(d, s, s)
  PROVE  Orders(d) = {}
<1> SUFFICES ASSUME NEW o \in Orders(d) PROVE FALSE
  OBVIOUS
<1>1. Len(d.ids) \in Nat BY DocumentType
<1>2. PICK p \in 1 .. Len(d.ids) : o[p] = s BY OrderNamesAll
<1>3. p < p BY <1>2 DEF Before
<1>4. QED BY <1>1, <1>3

\* When every step is visited, the order of the visited ones is the document's.
LEMMA AllVisited ==
  ASSUME NEW d \in Documents, Unique(d), NEW o \in Seq(Known(d)), IsOrder(d, o),
         {o[i] : i \in 1 .. Len(o)} = Known(d)
  PROVE  Orders(d) # {}
<1>1. Len(o) \in Nat /\ o \in [1 .. Len(o) -> Known(d)] OBVIOUS
<1>2. o \in Injection(1 .. Len(o), Known(d)) BY <1>1 DEF Injection, IsInjective, IsOrder
<1>3. o \in Surjection(1 .. Len(o), Known(d)) BY <1>1 DEF Surjection
<1>4. IsFiniteSet(1 .. Len(o)) /\ Cardinality(1 .. Len(o)) = Len(o) BY <1>1, CountUpTo
<1>5. Len(o) = Cardinality(Known(d)) BY <1>2, <1>3, <1>4, KnownCount, FS_Injection
<1>6. Len(o) = Len(d.ids) BY <1>5, KnownCount
<1>7. o \in [1 .. Len(d.ids) -> Known(d)] BY <1>1, <1>6
<1>8. QED BY <1>7 DEF Orders

\* A visit keeps the search going, or it meets its own path and then the
\* document has no order.
LEMMA VisitKeeps ==
  ASSUME doc \in Documents, WellNamed(doc), visited \subseteq Known(doc),
         NEW s \in Known(doc), NEW c, Calls(c), Awaiting(c, {s}),
         \A i \in 1 .. Len(c) : i = Len(c) => s \in doc.deps[c[i].step],
         Visit(s, c)
  PROVE  /\ visited' = visited
         /\ \/ lint' = "refused" /\ Orders(doc) = {}
            \/ /\ lint' = lint /\ Calls(path') /\ Awaiting(path', {})
               /\ s \in visited \cup OnPath(path') /\ OnPath(c) \subseteq OnPath(path')
<1> DEFINE n == Len(c)
<1>0. n = Len(c) /\ c \in Seq(Frames) BY DEF Calls
<1>1. n \in Nat /\ DOMAIN c = 1 .. n BY <1>0
<1> HIDE DEF n
<1>2. \A i \in 1 .. n : c[i] \in Frames /\ c[i].step \in Known(doc)
  <2>1. \A i \in 1 .. n : c[i] \in Frames BY <1>0, Member
  <2>2. QED BY <2>1 DEF Frames
<1>3. \A i \in 1 .. n : Before(doc, s, c[i].step)
  <2> SUFFICES ASSUME NEW i \in 1 .. n PROVE Before(doc, s, c[i].step)
    OBVIOUS
  <2>1. n \in 1 .. n BY <1>1
  <2>2. s \in doc.deps[c[n].step] BY <1>0, <2>1
  <2>3. Before(doc, s, c[n].step) BY <1>2, <2>1, <2>2, DependencyBefore
  <2>4. CASE i = n BY <2>3, <2>4
  <2>5. CASE i < n
    <3>1. Before(doc, c[n].step, c[i].step) BY <1>0, <2>1, <2>5 DEF Calls
    <3>2. QED BY <1>2, <2>1, <2>3, <3>1, BeforeTransitive
  <2>6. QED BY <1>1, <2>4, <2>5
<1>4. CASE s \in OnPath(c)
  <2>1. lint' = "refused" /\ visited' = visited BY <1>4 DEF Visit
  <2>2. PICK i \in 1 .. n : c[i].step = s BY <1>1, <1>4 DEF OnPath
  <2>3. Orders(doc) = {} BY <1>3, <2>2, BeforeItself
  <2>4. QED BY <2>1, <2>3
<1>5. CASE s \notin OnPath(c)
  <2>1. lint' = lint /\ visited' = visited
        /\ path' = IF s \in visited THEN c ELSE Append(c, [step |-> s, left |-> doc.deps[s]])
    BY <1>5 DEF Visit
  <2>2. CASE s \in visited
    <3>1. path' = c BY <2>1, <2>2
    <3>2. Awaiting(c, {}) BY <2>2 DEF Awaiting
    <3>3. QED BY <2>1, <2>2, <3>1, <3>2
  <2>3. CASE s \notin visited
    <3> DEFINE f == [step |-> s, left |-> doc.deps[s]]
    <3>1. path' = Append(c, f) BY <2>1, <2>3
    <3>2. doc.deps[s] \subseteq Known(doc) BY DEF WellNamed, NoStranger
    <3>3. f \in Frames BY <3>2 DEF Frames
    <3>4. /\ path' \in Seq(Frames) /\ Len(path') = n + 1 /\ path'[n + 1] = f
          /\ \A i \in 1 .. n : path'[i] = c[i]
          /\ DOMAIN path' = 1 .. n + 1
      BY <1>0, <1>1, <3>1, <3>3
    <3>5. \A i \in 1 .. n + 1 : i \in 1 .. n \/ i = n + 1 BY <1>1
    <3>6. \A i \in 1 .. n : c[i].step # s BY <1>1, <1>5 DEF OnPath
    <3>7. \A i \in 1 .. n + 1 :
            path'[i].step \notin visited /\ path'[i].left \subseteq doc.deps[path'[i].step]
      BY <1>0, <2>3, <3>4, <3>5 DEF Calls
    <3>8. ASSUME NEW i \in 1 .. n + 1, NEW j \in 1 .. n + 1, i < j
          PROVE  path'[j].step # path'[i].step /\ Before(doc, path'[j].step, path'[i].step)
      <4>1. i \in 1 .. n BY <1>1, <3>8
      <4>2. CASE j \in 1 .. n BY <1>0, <3>4, <3>8, <4>1, <4>2 DEF Calls
      <4>3. CASE j = n + 1 BY <1>3, <3>4, <3>6, <4>1, <4>3
      <4>4. QED BY <3>5, <4>2, <4>3
    <3>9. Calls(path') BY <3>4, <3>7, <3>8 DEF Calls
    <3>10. ASSUME NEW i \in 1 .. n + 1
           PROVE  doc.deps[path'[i].step] \subseteq
                    visited \cup path'[i].left
                      \cup (IF i < n + 1 THEN {path'[i + 1].step} ELSE {})
      <4>1. CASE i = n + 1 BY <3>4, <4>1
      <4>2. CASE i = n /\ i \in 1 .. n
        <5>1. doc.deps[c[i].step] \subseteq visited \cup c[i].left \cup {s}
          BY <1>0, <4>2 DEF Awaiting
        <5>2. path'[i + 1].step = s /\ i < n + 1 BY <1>1, <3>4, <4>2
        <5>3. QED BY <3>4, <4>2, <5>1, <5>2
      <4>3. CASE i < n /\ i \in 1 .. n
        <5>1. doc.deps[c[i].step] \subseteq visited \cup c[i].left \cup {c[i + 1].step}
          BY <1>0, <4>3 DEF Awaiting
        <5>2. i + 1 \in 1 .. n /\ i < n + 1 BY <1>1, <4>3
        <5>3. QED BY <3>4, <4>3, <5>1, <5>2
      <4>4. QED BY <1>1, <3>5, <4>1, <4>2, <4>3
    <3>11. Awaiting(path', {}) BY <3>4, <3>10 DEF Awaiting
    <3>12. s \in OnPath(path') BY <1>1, <3>4 DEF OnPath
    <3>13. OnPath(c) \subseteq OnPath(path') BY <1>1, <3>4 DEF OnPath
    <3>14. QED BY <2>1, <3>9, <3>11, <3>12, <3>13
  <2>4. QED BY <2>2, <2>3
<1>6. QED BY <1>4, <1>5

LEMMA LintInitLInv == LintInit => LInv
<1>1. ~Runnable(NoDocument) BY DEF Runnable, NoDocument
<1>2. QED BY DEF LintInit, LInv

\* What a document was accepted or refused for before the search begins.
LEMMA ReadLInv == LInv /\ ReadDocument => LInv'
<1> SUFFICES ASSUME LInv, ReadDocument PROVE LInv'
  OBVIOUS
<1>1. doc' \in Documents /\ upto' = 0 /\ path' = <<>> /\ visited' = {}
      /\ lint' = IF WellNamed(doc') THEN "visiting" ELSE "refused"
  BY DEF LInv, ReadDocument, WellNamed
<1>2. CASE WellNamed(doc')
  <2>1. doc'.ids \in Seq(StepIds) BY <1>1, DocumentType
  <2>2. Calls(path)' /\ Awaiting(path, {})' BY <1>1 DEF Calls, Awaiting
  <2>3. Reached(path)' BY <1>1 DEF Reached
  <2>4. Ordered'
    <3>1. <<>> \in Seq(Known(doc')) /\ IsOrder(doc', <<>>) /\ {<<>>[i] : i \in 1 .. Len(<<>>)} = {}
      BY DEF IsOrder
    <3>2. QED BY <1>1, <3>1 DEF Ordered
  <2>5. upto' \in 0 .. Len(doc'.ids) BY <1>1, <2>1
  <2>6. Searching' BY <1>1, <1>2, <2>2, <2>3, <2>4, <2>5 DEF Searching
  <2>7. QED BY <1>1, <1>2, <2>6 DEF LInv
<1>3. CASE ~WellNamed(doc')
  <2>1. ~Runnable(doc')
    <3> SUFFICES ASSUME Runnable(doc') PROVE FALSE
      OBVIOUS
    <3>1. PICK o : o \in Orders(doc') BY DEF Runnable
    <3>2. Len(doc'.ids) > 0 BY DEF Runnable
    <3>3. Unique(doc') /\ NoStranger(doc') BY <1>1, <3>1, OrderNamesAll, OrderIsNamed
    <3>4. QED BY <1>3, <3>2, <3>3 DEF WellNamed
  <2>2. QED BY <1>1, <1>3, <2>1 DEF LInv
<1>4. QED BY <1>2, <1>3

\* A step of the search either keeps it going or is right to refuse.
LEMMA Searched ==
  ASSUME LInv, doc' = doc, lint = "visiting",
         \/ lint' = "refused" /\ Orders(doc) = {}
         \/ lint' = "visiting" /\ Searching'
  PROVE  LInv'
<1>1. doc \in Documents BY DEF LInv
<1>2. CASE lint' = "refused" /\ Orders(doc) = {}
  <2>1. ~Runnable(doc)' BY <1>2 DEF Runnable
  <2>2. QED BY <1>1, <1>2, <2>1 DEF LInv
<1>3. CASE lint' = "visiting" /\ Searching'
  BY <1>1, <1>3 DEF LInv
<1>4. QED BY <1>2, <1>3

LEMMA VisitStepLInv == LInv /\ VisitStep => LInv'
<1> SUFFICES ASSUME LInv, VisitStep PROVE LInv'
  OBVIOUS
<1> DEFINE s == doc.ids[upto + 1]
<1>1. /\ lint = "visiting" /\ path = <<>> /\ upto < Len(doc.ids) /\ doc' = doc
      /\ upto' = upto + 1 /\ Visit(s, <<>>)
  BY DEF VisitStep
<1>2. /\ doc \in Documents /\ WellNamed(doc) /\ visited \subseteq Known(doc)
      /\ Calls(<<>>) /\ Awaiting(<<>>, {}) /\ Reached(<<>>) /\ Ordered
      /\ upto \in 0 .. Len(doc.ids)
  BY <1>1 DEF LInv, Searching
<1>3. doc.ids \in Seq(StepIds) BY <1>2, DocumentType
<1>4. upto + 1 \in 1 .. Len(doc.ids) BY <1>1, <1>2, <1>3
<1>5. s \in Known(doc) BY <1>2, <1>4, DocumentType
<1>6. Awaiting(<<>>, {s}) BY DEF Awaiting
<1>7. \A i \in 1 .. Len(<<>>) : i = Len(<<>>) => s \in doc.deps[<<>>[i].step]
  OBVIOUS
<1> HIDE DEF s
<1>8. /\ visited' = visited
      /\ \/ lint' = "refused" /\ Orders(doc) = {}
         \/ /\ lint' = lint /\ Calls(path') /\ Awaiting(path', {})
            /\ s \in visited \cup OnPath(path')
  BY <1>1, <1>2, <1>5, <1>6, <1>7, VisitKeeps
<1>9. CASE /\ lint' = lint /\ Calls(path') /\ Awaiting(path', {})
           /\ s \in visited \cup OnPath(path')
  <2>1. Calls(path)' /\ Awaiting(path, {})' /\ Ordered'
    BY <1>1, <1>2, <1>8, <1>9 DEF Calls, Frames, Awaiting, Ordered
  <2>2. Reached(path)'
    <3>1. \A i \in 1 .. upto : doc.ids[i] \in visited BY <1>2 DEF Reached, OnPath
    <3>2. \A i \in 1 .. upto + 1 : i \in 1 .. upto \/ i = upto + 1 BY <1>2
    <3>3. \A i \in 1 .. upto + 1 : doc.ids[i] \in visited \cup OnPath(path')
      BY <1>9, <3>1, <3>2 DEF s
    <3>4. QED BY <1>1, <1>8, <3>3 DEF Reached
  <2>3. upto' \in 0 .. Len(doc'.ids) BY <1>1, <1>2, <1>4
  <2>4. WellNamed(doc') /\ visited' \subseteq Known(doc') BY <1>1, <1>2, <1>8
  <2>5. Searching' BY <2>1, <2>2, <2>3, <2>4 DEF Searching
  <2>6. QED BY <1>1, <1>9, <2>5, Searched
<1>10. QED BY <1>1, <1>8, <1>9, Searched

LEMMA VisitPrerequisiteLInv == LInv /\ VisitPrerequisite => LInv'
<1> SUFFICES ASSUME LInv, VisitPrerequisite PROVE LInv'
  OBVIOUS
<1> DEFINE n == Len(path)
<1>1. /\ lint = "visiting" /\ path # <<>> /\ doc' = doc /\ upto' = upto
      /\ \E s \in Top.left : Visit(s, [path EXCEPT ![Len(path)].left = @ \ {s}])
  BY DEF VisitPrerequisite
<1>2. /\ doc \in Documents /\ WellNamed(doc) /\ visited \subseteq Known(doc)
      /\ Calls(path) /\ Awaiting(path, {}) /\ Reached(path) /\ Ordered
      /\ upto \in 0 .. Len(doc.ids)
  BY <1>1 DEF LInv, Searching
<1>3. path \in Seq(Frames) BY <1>2 DEF Calls
<1>4. n \in Nat /\ n \in 1 .. n /\ DOMAIN path = 1 .. n /\ n = Len(path) BY <1>1, <1>3
<1>5. Top = path[n] BY DEF Top
<1> HIDE DEF n
<1>6. PICK s \in path[n].left : Visit(s, [path EXCEPT ![n].left = @ \ {s}])
  BY <1>1, <1>4, <1>5
<1> DEFINE c == [path EXCEPT ![n].left = @ \ {s}]
<1>7. \A i \in 1 .. n : path[i] \in Frames BY <1>3, <1>4, Member
<1>8. path[n].step \in Known(doc) /\ path[n].left \subseteq Known(doc) BY <1>4, <1>7 DEF Frames
<1>9. s \in Known(doc) /\ s \in doc.deps[path[n].step] BY <1>2, <1>4, <1>6, <1>8 DEF Calls
<1>10. /\ c \in Seq(Frames) /\ Len(c) = n /\ DOMAIN c = 1 .. n
       /\ c[n] = [path[n] EXCEPT !.left = @ \ {s}]
       /\ \A i \in 1 .. n : i # n => c[i] = path[i]
  <2>1. [path[n] EXCEPT !.left = @ \ {s}] \in Frames BY <1>4, <1>7 DEF Frames
  <2>2. QED BY <1>3, <1>4, <2>1
<1>11. /\ \A i \in 1 .. n : c[i].step = path[i].step /\ c[i].left \subseteq path[i].left
       /\ c[n].left = path[n].left \ {s}
  BY <1>4, <1>7, <1>10 DEF Frames
<1> HIDE DEF c
<1>12. Calls(c) BY <1>2, <1>4, <1>10, <1>11 DEF Calls
<1>13. Awaiting(c, {s})
  <2> SUFFICES ASSUME NEW i \in 1 .. n
               PROVE  doc.deps[c[i].step] \subseteq
                        visited \cup c[i].left \cup (IF i < n THEN {c[i + 1].step} ELSE {s})
    BY <1>10 DEF Awaiting
  <2>1. doc.deps[path[i].step] \subseteq
          visited \cup path[i].left \cup (IF i < n THEN {path[i + 1].step} ELSE {})
    BY <1>2, <1>4 DEF Awaiting
  <2>2. CASE i = n BY <1>4, <1>11, <2>1, <2>2
  <2>3. CASE i < n
    <3>1. i + 1 \in 1 .. n /\ i # n BY <1>3, <2>3 DEF n
    <3>2. c[i] = path[i] /\ c[i + 1].step = path[i + 1].step BY <1>10, <1>11, <3>1
    <3>3. QED BY <2>1, <2>3, <3>2
  <2>4. QED BY <1>3, <2>2, <2>3 DEF n
<1>14. \A i \in 1 .. Len(c) : i = Len(c) => s \in doc.deps[c[i].step]
  BY <1>9, <1>10, <1>11
<1>15. Visit(s, c) BY <1>6 DEF c
<1>16. OnPath(c) = OnPath(path) BY <1>4, <1>10, <1>11 DEF OnPath
<1>17. /\ visited' = visited
       /\ \/ lint' = "refused" /\ Orders(doc) = {}
          \/ /\ lint' = lint /\ Calls(path') /\ Awaiting(path', {})
             /\ OnPath(c) \subseteq OnPath(path')
  BY <1>2, <1>9, <1>12, <1>13, <1>14, <1>15, VisitKeeps
<1>18. CASE /\ lint' = lint /\ Calls(path') /\ Awaiting(path', {})
            /\ OnPath(c) \subseteq OnPath(path')
  <2>1. Calls(path)' /\ Awaiting(path, {})' /\ Ordered'
    BY <1>1, <1>2, <1>17, <1>18 DEF Calls, Frames, Awaiting, Ordered
  <2>2. Reached(path)' BY <1>1, <1>2, <1>16, <1>17, <1>18 DEF Reached
  <2>3. WellNamed(doc') /\ visited' \subseteq Known(doc') /\ upto' \in 0 .. Len(doc'.ids)
    BY <1>1, <1>2, <1>17
  <2>4. Searching' BY <2>1, <2>2, <2>3 DEF Searching
  <2>5. QED BY <1>1, <1>18, <2>4, Searched
<1>19. QED BY <1>1, <1>17, <1>18, Searched

\* The step that is left goes to the end of the order: its prerequisites are
\* all visited.
LEMMA LeaveStepLInv == LInv /\ LeaveStep => LInv'
<1> SUFFICES ASSUME LInv, LeaveStep PROVE LInv'
  OBVIOUS
<1> DEFINE n == Len(path)
           s == path[n].step
<1>1. /\ lint = "visiting" /\ path # <<>> /\ doc' = doc /\ upto' = upto /\ lint' = lint
      /\ path[n].left = {} /\ path' = SubSeq(path, 1, n - 1) /\ visited' = visited \cup {s}
  BY DEF LeaveStep, Top
<1>2. /\ doc \in Documents /\ WellNamed(doc) /\ visited \subseteq Known(doc)
      /\ Calls(path) /\ Awaiting(path, {}) /\ Reached(path) /\ Ordered
      /\ upto \in 0 .. Len(doc.ids)
  BY <1>1 DEF LInv, Searching
<1>3. path \in Seq(Frames) BY <1>2 DEF Calls
<1>4. n \in Nat /\ n \in 1 .. n /\ n = Len(path) BY <1>1, <1>3
<1>5. /\ path' \in Seq(Frames) /\ Len(path') = n - 1
      /\ \A i \in 1 .. n - 1 : path'[i] = path[i]
      /\ DOMAIN path = 1 .. n /\ DOMAIN path' = 1 .. n - 1
  <2> HIDE DEF n, s
  <2>1. n - 1 \in Nat /\ n - 1 <= n /\ DOMAIN path = 1 .. n BY <1>3, <1>4
  <2>2. \A i \in 1 .. n - 1 : i \in 1 .. n BY <1>4
  <2>3. path' = [i \in 1 .. n - 1 |-> path[i]] BY <1>1, <1>3, <1>4, <2>1
  <2>4. path' \in [1 .. n - 1 -> Frames] BY <1>3, <1>4, <2>2, <2>3, Member
  <2>5. path' \in Seq(Frames) /\ Len(path') = n - 1 BY <2>1, <2>4
  <2>6. QED BY <2>1, <2>3, <2>5
<1>6. path[n] \in Frames BY <1>3, <1>4, Member
<1>7. s \in Known(doc) /\ s \notin visited BY <1>2, <1>4, <1>6 DEF Frames, Calls
<1>8. \A i \in 1 .. n - 1 : i \in 1 .. n /\ i < n BY <1>4
<1> HIDE DEF n
<1>9. Calls(path)'
  <2>1. \A i \in 1 .. n - 1 : path[i].step # s BY <1>2, <1>4, <1>8 DEF Calls
  <2>2. \A i \in 1 .. n - 1 :
          path'[i].step \notin visited' /\ path'[i].left \subseteq doc.deps[path'[i].step]
    BY <1>1, <1>2, <1>4, <1>5, <1>8, <2>1 DEF Calls
  <2>3. \A i, j \in 1 .. n - 1 :
          i < j => path'[j].step # path'[i].step /\ Before(doc, path'[j].step, path'[i].step)
    BY <1>2, <1>4, <1>5, <1>8 DEF Calls
  <2>4. QED BY <1>1, <1>5, <2>2, <2>3 DEF Calls, Frames
<1>10. Awaiting(path, {})'
  <2> SUFFICES ASSUME NEW i \in 1 .. n - 1
               PROVE  doc.deps[path[i].step] \subseteq
                        visited' \cup path[i].left
                          \cup (IF i < n - 1 THEN {path[i + 1].step} ELSE {})
    <3>1. \A i \in 1 .. n - 1 : i < n - 1 => i + 1 \in 1 .. n - 1 BY <1>4
    <3>2. QED BY <1>1, <1>5, <3>1 DEF Awaiting
  <2>1. doc.deps[path[i].step] \subseteq visited \cup path[i].left \cup {path[i + 1].step}
    BY <1>2, <1>4, <1>8 DEF Awaiting
  <2>2. i < n - 1 \/ i + 1 = n BY <1>4, <1>8
  <2>3. QED BY <1>1, <2>1, <2>2
<1>11. Reached(path)'
  <2>1. OnPath(path) \subseteq OnPath(path') \cup {s}
    <3>1. \A i \in 1 .. n : i \in 1 .. n - 1 \/ i = n BY <1>4
    <3>2. QED BY <1>5, <3>1 DEF OnPath
  <2>2. QED BY <1>1, <1>2, <2>1 DEF Reached
<1>12. Ordered'
  <2>1. PICK o \in Seq(Known(doc)) : IsOrder(doc, o) /\ {o[i] : i \in 1 .. Len(o)} = visited
    BY <1>2 DEF Ordered
  <2> DEFINE m == Len(o)
             q == Append(o, s)
  <2>2. m \in Nat /\ DOMAIN o = 1 .. m /\ m = Len(o) BY <2>1
  <2>3. /\ q \in Seq(Known(doc)) /\ Len(q) = m + 1 /\ DOMAIN q = 1 .. m + 1
        /\ q[m + 1] = s /\ \A i \in 1 .. m : q[i] = o[i]
    BY <1>7, <2>1, <2>2
  <2> HIDE DEF m, q, s
  <2>4. \A i \in 1 .. m + 1 : i \in 1 .. m \/ i = m + 1 BY <2>2
  <2>5. \A i \in 1 .. m : o[i] # s BY <1>7, <2>1, <2>2
  <2>6. \A i, j \in 1 .. m + 1 : i # j => q[i] # q[j]
    <3>1. \A i, j \in 1 .. m : i # j => o[i] # o[j] BY <2>1, <2>2 DEF IsOrder
    <3>2. QED BY <2>3, <2>4, <2>5, <3>1
  <2>7. ASSUME NEW i \in 1 .. m + 1
        PROVE  doc.deps[q[i]] \subseteq {q[j] : j \in 1 .. i - 1}
    <3>1. CASE i \in 1 .. m
      <4>1. doc.deps[o[i]] \subseteq {o[j] : j \in 1 .. i - 1} BY <2>1, <2>2, <3>1 DEF IsOrder
      <4>2. \A j \in 1 .. i - 1 : j \in 1 .. m BY <2>2, <3>1
      <4>3. QED BY <2>3, <3>1, <4>1, <4>2
    <3>2. CASE i = m + 1
      <4>1. doc.deps[path[n].step] \subseteq visited \cup path[n].left BY <1>2, <1>4 DEF Awaiting
      <4>2. doc.deps[s] \subseteq visited BY <1>1, <4>1 DEF s, n
      <4>3. i - 1 = m BY <2>2, <3>2
      <4>4. QED BY <2>1, <2>2, <2>3, <3>2, <4>2, <4>3
    <3>3. QED BY <2>4, <3>1, <3>2
  <2>8. IsOrder(doc, q) BY <2>3, <2>6, <2>7 DEF IsOrder
  <2>9. {q[i] : i \in 1 .. Len(q)} = visited'
    <3>1. {q[i] : i \in 1 .. m + 1} = {q[i] : i \in 1 .. m} \cup {q[m + 1]}
      <4>1. m + 1 \in 1 .. m + 1 /\ \A i \in 1 .. m : i \in 1 .. m + 1 BY <2>2
      <4>2. QED BY <2>4, <4>1
    <3>2. {q[i] : i \in 1 .. m} = visited BY <2>1, <2>2, <2>3
    <3>3. visited' = visited \cup {s} BY <1>1 DEF s, n
    <3>4. QED BY <2>3, <3>1, <3>2, <3>3
  <2>10. QED BY <1>1, <2>3, <2>8, <2>9 DEF Ordered
<1>13. WellNamed(doc') /\ visited' \subseteq Known(doc') /\ upto' \in 0 .. Len(doc'.ids)
  BY <1>1, <1>2, <1>7
<1>14. Searching' BY <1>9, <1>10, <1>11, <1>12, <1>13 DEF Searching
<1>15. QED BY <1>1, <1>14, Searched

LEMMA CheckClaimLInv == LInv /\ CheckClaim => LInv'
<1> SUFFICES ASSUME LInv, CheckClaim PROVE LInv'
  OBVIOUS
<1>1. /\ lint = "visiting" /\ path = <<>> /\ upto = Len(doc.ids) /\ doc' = doc
      /\ lint' = IF ClaimCovered(doc) THEN "accepted" ELSE "refused"
  BY DEF CheckClaim
<1>2. /\ doc \in Documents /\ WellNamed(doc) /\ visited \subseteq Known(doc)
      /\ Reached(<<>>) /\ Ordered
  BY <1>1 DEF LInv, Searching
<1>3. visited = Known(doc)
  <2>1. \A i \in 1 .. Len(doc.ids) : doc.ids[i] \in visited
    BY <1>1, <1>2 DEF Reached, OnPath
  <2>2. QED BY <1>2, <2>1, DocumentType
<1>4. Orders(doc) # {}
  <2>1. PICK o \in Seq(Known(doc)) :
          IsOrder(doc, o) /\ {o[i] : i \in 1 .. Len(o)} = Known(doc)
    BY <1>2, <1>3 DEF Ordered
  <2>2. QED BY <1>2, <2>1, AllVisited DEF WellNamed
<1>5. ClaimCovered(doc) <=> Runnable(doc)
  BY <1>2, <1>4 DEF ClaimCovered, Runnable, WellNamed
<1>6. QED BY <1>1, <1>2, <1>5 DEF LInv

LEMMA LintNextLInv == LInv /\ [LintNext]_linting => LInv'
<1> SUFFICES ASSUME LInv, [LintNext]_linting PROVE LInv'
  OBVIOUS
<1>1. CASE UNCHANGED linting
  <2>1. doc' = doc /\ lint' = lint /\ upto' = upto /\ path' = path /\ visited' = visited
    BY <1>1 DEF linting
  <2>2. Calls(path)' <=> Calls(path) BY <2>1 DEF Calls, Frames
  <2>3. Awaiting(path, {})' <=> Awaiting(path, {}) BY <2>1 DEF Awaiting
  <2>4. Reached(path)' <=> Reached(path) BY <2>1 DEF Reached
  <2>5. Ordered' <=> Ordered BY <2>1 DEF Ordered
  <2>6. Searching' <=> Searching BY <2>1, <2>2, <2>3, <2>4, <2>5 DEF Searching
  <2>7. QED BY <2>1, <2>6 DEF LInv
<1>2. QED
  BY <1>1, ReadLInv, VisitStepLInv, VisitPrerequisiteLInv, LeaveStepLInv, CheckClaimLInv
     DEF LintNext, Visiting

\* Whatever the document and whatever the order in which it comes to the steps,
\* the validation accepts just the documents whose steps can be run in some
\* order, with a claim about steps that run (manifest.py:320).
LintDecides ==
  lint \in {"accepted", "refused"} => (lint = "accepted" <=> Runnable(doc))

THEOREM LintIsRight == LintSpec => []LintDecides
<1>1. LInv => LintDecides BY DEF LInv, LintDecides
<1>2. QED BY <1>1, LintInitLInv, LintNextLInv, PTL DEF LintSpec

-----------------------------------------------------------------------------
(* The command line.  A step of it is a step of one of its parts, or of none, *)
(* so that it keeps what each part by itself keeps.                           *)

LEMMA StepOfParts ==
  [CommandNext]_cliVars =>
    [Next]_vars /\ [TopologyNext]_topology /\ [LintNext]_linting
<1> SUFFICES ASSUME [CommandNext]_cliVars
             PROVE  [Next]_vars /\ [TopologyNext]_topology /\ [LintNext]_linting
  OBVIOUS
<1>1. CASE UNCHANGED cliVars BY <1>1 DEF cliVars
<1>2. CASE Untouched BY <1>2 DEF Untouched
<1>3. CASE Refuse BY <1>2, <1>3 DEF Refuse
<1>4. CASE LintDocument BY <1>4 DEF LintDocument, LintNext
<1>5. CASE VisitDocument BY <1>5 DEF VisitDocument, LintNext
<1>6. CASE AnswerLint BY <1>2, <1>6 DEF AnswerLint
<1>7. CASE Delegate BY <1>2, <1>7 DEF Delegate
<1>8. CASE LoadManifest BY <1>2, <1>8 DEF LoadManifest
<1>9. CASE InspectApproval BY <1>2, <1>9 DEF InspectApproval
<1>10. CASE CallTopology BY <1>10 DEF CallTopology, TopologyNext
<1>11. CASE ReadTopology BY <1>11 DEF ReadTopology, TopologyNext
<1>12. CASE AnswerTopology BY <1>12 DEF AnswerTopology, TopologyNext
<1>13. CASE Operating BY <1>13 DEF Operating
<1>14. QED
  BY <1>1, <1>3, <1>4, <1>5, <1>6, <1>7, <1>8, <1>9, <1>10, <1>11, <1>12, <1>13
     DEF CommandNext

\* The command line with everything that runs beside it is one behaviour of
\* the approval file, one of the validation of files and one of the validation
\* of a document: no command lets two of them interfere (cli.py:235).
THEOREM CommandImplementsParts == CommandSpec => Spec /\ TopologySpec /\ LintSpec
<1>1. CommandInit => Init /\ TopologyInit /\ LintInit BY DEF CommandInit
<1>2. QED
  BY <1>1, StepOfParts, PTL DEF CommandSpec, Spec, TopologySpec, LintSpec

\* Policy commands only read: what is approved, and what is replaced, stays as
\* it is among the operators alone (cli.py:199, operator.py).
THEOREM CommandKeepsApprovals ==
  CommandSpec => []ActiveWasConfirmed /\ ReplacedIsRetained /\ []MixNeverBinds
BY CommandImplementsParts, ConfirmedOnly, Retained, NoMixBinds, PTL

\* An answer with exit status zero is a success, of a verdict that passes.
Earned(e) == e.exit = 0 => e.status = "succeeded" /\ e.verdict \in {"PASS", "null"}

LEMMA VerdictsEarned ==
  \A v \in {"PASS", "FAIL", "INCONCLUSIVE", "INVALID"} : Earned(Verdict(v))
BY DEF Earned, Verdict, Envelope

LEMMA FailuresEarned ==
  /\ Earned(Rejected) /\ Rejected.exit # 0
  /\ Earned(ReadError) /\ ReadError.exit # 0
  /\ Earned(Usage) /\ Earned(Forbidden) /\ Earned(Internal) /\ Earned(Succeeded)
  /\ Usage.exit # 0 /\ Forbidden.exit # 0
BY DEF Earned, Rejected, ReadError, Usage, Forbidden, Internal, Succeeded, Envelope

LEMMA AnswersEarned ==
  /\ \A e \in WorkflowAnswers \cup HostFailures : Earned(e)
  /\ \A e \in ReceiptAnswers \cup HostFailures : Earned(e)
  /\ \A e \in EventAnswers : Earned(e)
  /\ \A j : \A e \in ProbeAnswers(j) \cup HostFailures : Earned(e)
<1>1. \A e \in HostFailures : Earned(e) BY FailuresEarned DEF HostFailures
<1>2. \A e \in ReceiptAnswers : Earned(e) BY VerdictsEarned DEF ReceiptAnswers
<1>3. \A e \in WorkflowAnswers : Earned(e)
  <2>1. \A x \in {20, 22} : Earned(Envelope("succeeded", "null", x)) BY DEF Earned, Envelope
  <2>2. /\ Earned(Raised(12, "INVALID")) /\ Earned(Raised(11, "INCONCLUSIVE"))
        /\ Earned(Raised(21, "null")) /\ Earned(Raised(74, "null"))
    BY DEF Earned, Raised, Envelope
  <2>3. QED BY <2>1, <2>2, VerdictsEarned DEF WorkflowAnswers
<1>4. \A e \in EventAnswers : Earned(e)
  <2>1. /\ Earned(Envelope("succeeded", "INCONCLUSIVE", 11))
        /\ Earned(Envelope("succeeded", "null", 21))
        /\ Earned(Envelope("succeeded", "null", 23))
    BY DEF Earned, Envelope
  <2>2. QED BY <1>3, <2>1, FailuresEarned DEF EventAnswers
<1>5. \A j : \A e \in ProbeAnswers(j) : Earned(e) BY VerdictsEarned DEF ProbeAnswers
<1>6. QED BY <1>1, <1>2, <1>3, <1>4, <1>5

\* What runs, and which of the parts is at work; once a command has answered,
\* nothing is.
CommandOwns ==
  /\ cmd = "none" => ~Done
  /\ lint # "off" => cmd = "lint"
  /\ lint = "visiting" => ~Done
  /\ topo # "off" => cmd \in {"topology.validate", "probe"}

CInv == CommandOwns /\ ZeroIsEarned

LEMMA CommandInitCInv == CommandInit => CInv
BY DEF CommandInit, LintInit, TopologyInit, CInv, CommandOwns, ZeroIsEarned, Done, Silent, Envelope

LEMMA AnsweredStays == CInv /\ Done /\ CommandNext => FALSE
<1> SUFFICES ASSUME CommandOwns, Done, CommandNext PROVE FALSE
  BY DEF CInv
<1>1. cmd # "none" /\ lint # "visiting" BY DEF CommandOwns
<1>2. ~VisitDocument
  BY <1>1 DEF VisitDocument, Visiting, VisitStep, VisitPrerequisite, LeaveStep, CheckClaim
<1>3. QED
  BY <1>1, <1>2 DEF CommandNext, Refuse, LintDocument, AnswerLint, Delegate, LoadManifest,
     InspectApproval, CallTopology, ReadTopology, AnswerTopology, Operating

\* A command that neither asks for the approval nor lints answers as its
\* component does.
LEMMA Answering ==
  ASSUME CommandOwns', Earned(told'), cmd' \notin {"policy", "lint"}
  PROVE  CInv'
BY DEF CInv, ZeroIsEarned, Earned

LEMMA Unanswered == ASSUME CommandOwns', ~Done' PROVE CInv'
BY DEF CInv, ZeroIsEarned

LEMMA CommandNextCInv ==
  IInv /\ LInv /\ CInv /\ [CommandNext]_cliVars => CInv'
<1> SUFFICES ASSUME IInv, LInv, CInv, [CommandNext]_cliVars PROVE CInv'
  OBVIOUS
<1>1. CASE UNCHANGED cliVars
  BY <1>1 DEF cliVars, command, vars, topology, linting, CInv, CommandOwns, ZeroIsEarned, Done
<1> SUFFICES ASSUME CommandNext PROVE CInv'
  BY <1>1
<1>2. ~Done BY AnsweredStays
<1>3. CommandOwns BY DEF CInv
<1>4. CASE Refuse
  <2>1. /\ cmd' \in {"usage", "operator"} /\ told' \in {Usage, Forbidden}
        /\ lint' = "off" /\ topo' = "off"
    BY <1>3, <1>4 DEF Refuse, Untouched, linting, topology, CommandOwns
  <2>2. CommandOwns' BY <2>1 DEF CommandOwns
  <2>3. QED BY <2>1, <2>2, FailuresEarned, Answering
<1>5. CASE LintDocument
  <2>1. cmd' = "lint" /\ lint = "off" /\ topo' = "off"
    BY <1>3, <1>5 DEF LintDocument, topology, CommandOwns
  <2>2. CASE ReadDocument /\ UNCHANGED told
    <3>1. ~Done' BY <1>2, <2>2 DEF Done
    <3>2. QED BY <2>1, <3>1, Unanswered DEF CommandOwns
  <2>3. CASE told' \in {ReadError, Rejected} /\ UNCHANGED linting
    <3>1. lint' = "off" /\ doc' = NoDocument BY <2>1, <2>3 DEF linting, LInv
    <3>2. ~Runnable(doc') BY <3>1 DEF Runnable, NoDocument
    <3>3. CommandOwns' BY <2>1, <3>1 DEF CommandOwns
    <3>4. QED BY <2>1, <2>3, <3>2, <3>3, FailuresEarned DEF CInv, ZeroIsEarned, Earned
  <2>4. QED BY <1>5, <2>2, <2>3 DEF LintDocument
<1>6. CASE VisitDocument
  <2>1. lint = "visiting" /\ cmd' = cmd /\ told' = told /\ topo' = topo
    BY <1>6 DEF VisitDocument, Visiting, VisitStep, VisitPrerequisite, LeaveStep, CheckClaim,
       command, topology
  <2>2. ~Done' BY <1>2, <2>1 DEF Done
  <2>3. QED BY <1>3, <2>1, <2>2, Unanswered DEF CommandOwns
<1>7. CASE AnswerLint
  <2>1. /\ lint \in {"accepted", "refused"} /\ lint' = lint /\ doc' = doc /\ topo' = topo
        /\ cmd' = cmd /\ told' = IF lint = "accepted" THEN Succeeded ELSE Rejected
    BY <1>7 DEF AnswerLint, Untouched, linting, topology
  <2>2. cmd = "lint" /\ CommandOwns' BY <1>3, <2>1 DEF CommandOwns
  <2>3. told'.exit = 0 <=> Runnable(doc')
    BY <2>1 DEF LInv, Succeeded, Rejected, Envelope
  <2>4. Earned(told') BY <2>1, FailuresEarned
  <2>5. QED BY <2>1, <2>2, <2>3, <2>4 DEF CInv, ZeroIsEarned, Earned
<1>8. CASE Delegate
  <2>1. /\ cmd' \in {"verify", "receipt", "events"} /\ lint' = "off" /\ topo' = "off"
    BY <1>3, <1>8 DEF Delegate, Untouched, linting, topology, CommandOwns
  <2>2. Earned(told') BY <1>8, AnswersEarned DEF Delegate
  <2>3. CommandOwns' BY <2>1 DEF CommandOwns
  <2>4. QED BY <2>1, <2>2, <2>3, Answering
<1>9. CASE LoadManifest
  <2>1. cmd' = "policy" /\ lint' = "off" /\ topo' = "off"
    BY <1>3, <1>9 DEF LoadManifest, Untouched, linting, topology, CommandOwns
  <2>2. CommandOwns' BY <2>1 DEF CommandOwns
  <2>3. CASE UNCHANGED told BY <1>2, <2>2, <2>3, Unanswered DEF Done
  <2>4. CASE told' \in {ReadError, Rejected}
    BY <2>1, <2>2, <2>4, FailuresEarned DEF CInv, ZeroIsEarned
  <2>5. QED BY <1>9, <2>3, <2>4 DEF LoadManifest
<1>10. CASE InspectApproval
  <2>1. /\ cmd = "policy" /\ cmd' = cmd /\ loaded' = loaded /\ confirmed' = confirmed
        /\ lint' = lint /\ topo' = topo
    BY <1>10 DEF InspectApproval, Untouched, vars, linting, topology
  <2>2. lint' = "off" /\ topo' = "off" /\ CommandOwns' BY <1>3, <2>1 DEF CommandOwns
  <2>3. CASE told' = Rejected
    BY <2>1, <2>2, <2>3, FailuresEarned DEF CInv, ZeroIsEarned
  <2>4. CASE Status(loaded, now) = "MATCH" /\ told' = Succeeded
    <3>1. active # None /\ active.manifest = loaded BY <2>4 DEF Status
    <3>2. loaded \in confirmed BY <3>1 DEF IInv, WasConfirmed
    <3>3. QED BY <2>1, <2>2, <2>4, <3>2, FailuresEarned DEF CInv, ZeroIsEarned, Earned
  <2>5. QED BY <1>10, <2>3, <2>4 DEF InspectApproval
<1>11. CASE CallTopology
  <2>1. cmd' \in {"topology.validate", "probe"} /\ lint' = "off" /\ told' = told
    BY <1>3, <1>11 DEF CallTopology, linting, CommandOwns
  <2>2. QED BY <1>2, <2>1, Unanswered DEF CommandOwns, Done
<1>12. CASE ReadTopology
  <2>1. /\ topo # "off" /\ cmd' = cmd /\ told' = told /\ lint' = lint
    BY <1>12 DEF ReadTopology, ReadNext, BindUnlocked, Switch, command, linting
  <2>2. QED BY <1>2, <1>3, <2>1, Unanswered DEF CommandOwns, Done
<1>13. CASE AnswerTopology
  <2>1. topo # "off" /\ cmd' = cmd /\ lint' = lint /\ topo' = "off"
    BY <1>13 DEF AnswerTopology, Forget, linting
  <2>2. cmd \in {"topology.validate", "probe"} BY <1>3, <2>1 DEF CommandOwns
  <2>3. CommandOwns' BY <1>3, <2>1, <2>2 DEF CommandOwns
  <2>4. Earned(told')
    BY <1>13, FailuresEarned, VerdictsEarned, AnswersEarned DEF AnswerTopology
  <2>5. QED BY <2>1, <2>2, <2>3, <2>4, Answering
<1>14. CASE Operating
  <2>1. cmd' = cmd /\ told' = told /\ lint' = lint /\ topo' = topo
    BY <1>14 DEF Operating, command, linting, topology
  <2>2. QED BY <1>2, <1>3, <2>1, Unanswered DEF CommandOwns, Done
<1>15. QED
  BY <1>4, <1>5, <1>6, <1>7, <1>8, <1>9, <1>10, <1>11, <1>12, <1>13, <1>14 DEF CommandNext

\* Exit status zero is earned: a policy command gives it only for a manifest
\* whose digest a human typed, however operators and editors interleave with
\* the command; the lint gives it just to a document that can be run; and no
\* component's failure is reported with it (docs/cli-contract.md:98).
THEOREM ZeroEarned == CommandSpec => []ZeroIsEarned
<1>1. CommandSpec => []IInv BY CommandImplementsParts, Invariance, PTL
<1>2. CommandSpec => []LInv
  <2>1. LintSpec => []LInv BY LintInitLInv, LintNextLInv, PTL DEF LintSpec
  <2>2. QED BY <2>1, CommandImplementsParts, PTL
<1>3. CInv => ZeroIsEarned BY DEF CInv
<1>4. QED BY <1>1, <1>2, <1>3, CommandInitCInv, CommandNextCInv, PTL DEF CommandSpec
=============================================================================
