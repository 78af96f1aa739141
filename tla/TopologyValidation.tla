-------------------------- MODULE TopologyValidation --------------------------
(***************************************************************************)
(* The validation of the platform's files before Docker is used: two lock  *)
(* files name digests of the others, the contract is compared with what    *)
(* Compose renders, the render with a frozen one; the probes then bind     *)
(* their images to a third lock.  Every file is opened by itself, some of  *)
(* them several times, and the working tree may change in between.         *)
(*                                                                         *)
(* The tree holds a file of one of two releases, each consistent in        *)
(* itself; it may be a mixture, as when a checkout stopped half way.       *)
(***************************************************************************)
EXTENDS Naturals, Sequences, FiniteSets

CONSTANT MaxSwitches   \* files that change while the validation runs

ASSUME SwitchesAssumption == MaxSwitches \in Nat

VARIABLES
  tree,      \* the release that each file is of
  same,      \* the files that are equal in both releases
  alike,     \* whether Compose renders both releases alike
  read,      \* the releases of the files as they were read, in order
  topo,      \* "off", "reading", "rejected", "valid", "bound" or "unlocked"
  switched   \* the files that changed meanwhile

topology == <<tree, same, alike, read, topo, switched>>

Files == {"lock", "topologyLock", "runtimeLock", "contract", "images", "context",
          "compose", "fixture"}

\* What the content of a file depends on.
Names == [lock         |-> {"compose", "context"},
          topologyLock |-> {"contract", "fixture", "images"},
          runtimeLock  |-> {"contract", "topologyLock", "lock"},
          contract     |-> {"images"},
          fixture      |-> {"contract"},
          context      |-> {"images"},
          images       |-> {}, compose |-> {}]

TopologyInit ==
  /\ tree = [f \in Files |-> 0] /\ same = Files /\ alike = TRUE
  /\ read = <<>> /\ topo = "off" /\ switched = {}

\* The order in which the files are read: by the two locks, the contract, the
\* Dockerfiles, the render, the frozen render and the evidence; then, by a
\* probe, the images and their lock.
Validation ==
  <<"lock", "compose", "context", "topologyLock", "contract", "fixture", "images",
    "contract", "images", "images", "context", "contract", "compose", "contract",
    "fixture", "lock", "compose">>
Reads == Validation \o
  <<"contract", "contract", "runtimeLock", "contract", "topologyLock", "lock">>

\* The file of the n-th read is the one that the file of the m-th calls for.
Bound(r, n, m) == Reads[n] \in same \/ r[n] = r[m]
Renders(r, n, m) == alike \/ r[n] = r[m]

\* What is compared once the n-th file is read, before images are bound.
Consistent(r, n) ==
  CASE n \in {2, 3}    -> Bound(r, n, 1)
    [] n \in {5, 6, 7} -> Bound(r, n, 4)
    [] n = 9           -> Bound(r, n, 8)
    [] n = 11          -> "images" \in same \/ r[11] = r[10]
    [] n = 14          -> Bound(r, 14, 12) /\ Renders(r, 13, 8)
    [] n = 15          -> (Reads[14] \in same \/ r[15] = r[14]) /\ Renders(r, 15, 13)
    [] n = 20          -> "contract" \in same \/ r[20] = r[19]
    [] OTHER           -> TRUE

\* Mutant of Agrees: the runtime lock binds the contract only.
AgreesUnlocked(r, n) == Consistent(r, n)

\* The runtime lock binds the other two locks as well.
Agrees(r, n) == Consistent(r, n) /\ (n \in {22, 23} => Bound(r, n, 20))

\* The call finds any two releases, and any mixture of them.
Validate ==
  /\ topo = "off"
  /\ topo' = "reading"
  /\ same' \in {s \in SUBSET Files : \A f \in s : Names[f] \subseteq s}
  /\ tree' \in {t \in [Files -> {0, 1}] : \A f \in same' : t[f] = 0}
  /\ alike' \in (IF "compose" \in same' THEN {TRUE} ELSE BOOLEAN)
  /\ UNCHANGED <<read, switched>>

ReadNext ==
  /\ topo \in {"reading", "valid"} /\ Len(read) < Len(Reads)
  /\ read' = Append(read, tree[Reads[Len(read) + 1]])
  /\ topo' = IF ~Agrees(read', Len(read')) THEN "rejected"
             ELSE IF Len(read') = Len(Validation) THEN "valid"
             ELSE IF Len(read') = Len(Reads) THEN "bound" ELSE topo
  /\ UNCHANGED <<tree, same, alike, switched>>

\* There is no runtime lock: the images are taken or built as the contract
\* alone names them, and nothing ties them to the other locks.
BindUnlocked ==
  /\ topo = "valid" /\ Len(read) = 19
  /\ topo' = "unlocked"
  /\ UNCHANGED <<tree, same, alike, read, switched>>

\* Another program writes the file of the other release.
Switch ==
  /\ topo \in {"reading", "valid"} /\ Cardinality(switched) < MaxSwitches
  /\ \E f \in Files \ (same \cup switched) :
       tree' = [tree EXCEPT ![f] = 1 - @] /\ switched' = switched \cup {f}
  /\ UNCHANGED <<same, alike, read, topo>>

\* The process that read is over.
Forget ==
  /\ tree' = [f \in Files |-> 0] /\ same' = Files /\ alike' = TRUE
  /\ read' = <<>> /\ topo' = "off" /\ switched' = {}

\* One call after another, by itself.
TopologyNext == Validate \/ ReadNext \/ BindUnlocked \/ Switch \/ Forget
TopologySpec == TopologyInit /\ [][TopologyNext]_topology

-----------------------------------------------------------------------------
\* Images are bound to a runtime lock only if the tree is of one release, as far as the releases
\* differ; and when one file changes meanwhile, the contract that was enforced
\* is the one that is reported and the one that the images belong to
\* (topology.py:527, runtime.py:83).
MixNeverBinds ==
  topo = "bound" =>
    /\ switched = {} =>
         \E v \in {0, 1} : \A f \in Files : f \in same \/ tree[f] = v
    /\ Cardinality(switched) <= 1 =>
         \A n \in {8, 14, 19} : "contract" \in same \/ read[n] = read[20]
=============================================================================
