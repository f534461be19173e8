------------------------- MODULE GitExchange_proofs -------------------------
(***************************************************************************)
(* Theorems about GitExchange, for any clones, workers, changes and bound  *)
(* on the number of commits.                                               *)
(***************************************************************************)
EXTENDS GitExchange, TLAPS

LEMMA IdleIsOpState == Idle \in OpState
BY BoundAssumption DEF Idle, OpState, PC, Tip

\* An operation that goes on with what it has read.
LEMMA GoesOn ==
  ASSUME NEW o \in OpState, NEW label \in PC
  PROVE  /\ [o EXCEPT !.pc = label] \in OpState
         /\ \A x \in BOOLEAN : /\ [o EXCEPT !.pc = label, !.born = x] \in OpState
                                /\ [o EXCEPT !.pc = label, !.merging = x] \in OpState
         /\ \A x \in Tip : /\ [o EXCEPT !.pc = label, !.tip = x] \in OpState
                            /\ [o EXCEPT !.pc = label, !.seen = x] \in OpState
         /\ \A x \in SUBSET CommitId : [o EXCEPT !.pc = label, !.heads = x] \in OpState
<1>1. [o EXCEPT !.pc = label] \in OpState
  BY DEF OpState
<1>2. ASSUME NEW x \in BOOLEAN
      PROVE  /\ [o EXCEPT !.pc = label, !.born = x] \in OpState
             /\ [o EXCEPT !.pc = label, !.merging = x] \in OpState
  BY DEF OpState
<1>3. ASSUME NEW x \in Tip
      PROVE  /\ [o EXCEPT !.pc = label, !.tip = x] \in OpState
             /\ [o EXCEPT !.pc = label, !.seen = x] \in OpState
  BY DEF OpState
<1>4. ASSUME NEW x \in SUBSET CommitId PROVE [o EXCEPT !.pc = label, !.heads = x] \in OpState
  BY DEF OpState
<1>5. QED BY <1>1, <1>2, <1>3, <1>4

LEMMA OperationSet ==
  ASSUME NEW f \in [Worker -> OpState], NEW w \in Worker, NEW o \in OpState
  PROVE  [f EXCEPT ![w] = o] \in [Worker -> OpState]
OBVIOUS

\* What keeps "no commit" out of MERGE_HEAD: a Pull that has decided to merge has
\* something to merge, whatever the workers that share its clone fetch meanwhile,
\* because a remote branch that exists goes on existing.
SomethingFetched ==
  /\ \A c \in Clone : fetchHead[c] # 0 => remote # 0
  /\ \A w \in Worker : At(w, "merge") => fetchHead[Place[w]] # 0
  /\ \A w \in Worker : At(w, "push") => op[w].tip # 0

TypeInv == TypeOK /\ SomethingFetched

LEMMA TypeInit == Init => TypeInv
<1> SUFFICES ASSUME Init PROVE TypeInv
  OBVIOUS
<1>1. 0 \in Tip
  BY BoundAssumption DEF Tip
<1>2. op \in [Worker -> OpState]
  BY IdleIsOpState DEF Init
<1>3. SomethingFetched
  BY DEF Init, SomethingFetched, At, Idle
<1>4. QED BY <1>1, <1>2, <1>3 DEF Init, TypeOK, TypeInv

LEMMA TypeStep == TypeInv /\ [Next]_vars => TypeOK'
<1> SUFFICES ASSUME TypeInv, [Next]_vars PROVE TypeOK'
  OBVIOUS
<1> USE PlaceAssumption, BoundAssumption, IdleIsOpState DEF TypeInv, TypeOK, At, Calls, Return, Goto
<1>1. ASSUME NEW w \in Worker, StageLoad(w) PROVE TypeOK'
  BY <1>1 DEF StageLoad, objects, disk, ghosts, Idle, OpState, PC, Tip
<1>2. ASSUME NEW w \in Worker, StageWrite(w) PROVE TypeOK'
  BY <1>2 DEF StageWrite, objects, ghosts, OpState
<1>3. ASSUME NEW w \in Worker, CreateTree(w) PROVE TypeOK'
  <2>1. [Idle EXCEPT !.pc = "head", !.tree = index[Place[w]]] \in OpState
    BY DEF Idle, OpState, PC, Tip
  <2>2. op' \in [Worker -> OpState]
    <3>1. CASE conflicted[Place[w]]
      BY <1>3, <3>1 DEF CreateTree
    <3>2. CASE ~conflicted[Place[w]]
      BY <1>3, <2>1, <3>2 DEF CreateTree
    <3>3. QED BY <3>1, <3>2
  <2>3. QED BY <1>3, <2>2 DEF CreateTree, objects, disk, ghosts
<1>4. ASSUME NEW w \in Worker, ReadHead(w) PROVE TypeOK'
  <2>1. PICK x \in BOOLEAN : op' = [op EXCEPT ![w] = [@ EXCEPT !.pc = "state", !.born = x]]
    <3>1. (head[Place[w]] # 0) \in BOOLEAN
      OBVIOUS
    <3>2. QED BY <1>4, <3>1, Zenon DEF ReadHead
  <2>2. op' \in [Worker -> OpState]
    <3>1. "state" \in PC
      BY DEF PC
    <3>2. [op[w] EXCEPT !.pc = "state", !.born = x] \in OpState
      BY <3>1, GoesOn
    <3>3. QED BY <2>1, <3>2, OperationSet
  <2>3. QED BY <1>4, <2>2 DEF ReadHead, objects, disk, ghosts
<1>5. ASSUME NEW w \in Worker, ReadState(w) PROVE TypeOK'
  <2>1. PICK x \in BOOLEAN : op' = [op EXCEPT ![w] = [@ EXCEPT !.pc = "resolve", !.merging = x]]
    <3>1. (mergeHead[Place[w]] # {}) \in BOOLEAN
      OBVIOUS
    <3>2. QED BY <1>5, <3>1, Zenon DEF ReadState
  <2>2. op' \in [Worker -> OpState]
    <3>1. "resolve" \in PC
      BY DEF PC
    <3>2. [op[w] EXCEPT !.pc = "resolve", !.merging = x] \in OpState
      BY <3>1, GoesOn
    <3>3. QED BY <2>1, <3>2, OperationSet
  <2>3. QED BY <1>5, <2>2 DEF ReadState, objects, disk, ghosts
<1>6. ASSUME NEW w \in Worker, ResolveHead(w) PROVE TypeOK'
  <2>1. PICK x \in Tip : op' = [op EXCEPT ![w] = [@ EXCEPT !.pc = "heads", !.tip = x]]
    <3>1. (IF op[w].born THEN head[Place[w]] ELSE 0) \in Tip
      BY DEF Tip
    <3>2. QED BY <1>6, <3>1, Zenon DEF ResolveHead
  <2>2. op' \in [Worker -> OpState]
    <3>1. "heads" \in PC
      BY DEF PC
    <3>2. [op[w] EXCEPT !.pc = "heads", !.tip = x] \in OpState
      BY <3>1, GoesOn
    <3>3. QED BY <2>1, <3>2, OperationSet
  <2>3. QED BY <1>6, <2>2 DEF ResolveHead, objects, disk, ghosts
<1>7. ASSUME NEW w \in Worker, ReadMergeHeads(w) PROVE TypeOK'
  <2>1. PICK x \in SUBSET CommitId : op' = [op EXCEPT ![w] = [@ EXCEPT !.pc = "create", !.heads = x]]
    <3>1. (IF op[w].merging THEN mergeHead[Place[w]] ELSE {}) \in SUBSET CommitId
      OBVIOUS
    <3>2. QED BY <1>7, <3>1, Zenon DEF ReadMergeHeads
  <2>2. op' \in [Worker -> OpState]
    <3>1. "create" \in PC
      BY DEF PC
    <3>2. [op[w] EXCEPT !.pc = "create", !.heads = x] \in OpState
      BY <3>1, GoesOn
    <3>3. QED BY <2>1, <3>2, OperationSet
  <2>3. QED BY <1>7, <2>2 DEF ReadMergeHeads, objects, disk, ghosts
<1>8. ASSUME NEW w \in Worker, CreateCommit(w) PROVE TypeOK'
  <2> DEFINE k == count + 1
  <2>1. /\ k \in CommitId
        /\ k \in Tip
    BY <1>8 DEF CreateCommit, Tip, CommitId
  <2>2. op[w] \in OpState
    OBVIOUS
  <2>3. CommitParents(w) \subseteq CommitId
    BY <2>2 DEF CommitParents, OpState, Tip, CommitId
  <2>4. AncestorsOf(CommitParents(w)) \subseteq CommitId
    BY <2>3 DEF AncestorsOf, Tip, CommitId
  <2>5. op' \in [Worker -> OpState]
    <3>1. AfterCreate(w) \in PC
      BY DEF AfterCreate, PC
    <3>2. [Idle EXCEPT !.pc = AfterCreate(w)] \in OpState
      BY <3>1 DEF Idle, OpState, Tip
    <3>3. QED BY <1>8, <3>2 DEF CreateCommit
  <2>6. /\ count' \in Tip
        /\ parents' \in [Tip -> SUBSET CommitId]
        /\ anc' \in [Tip -> SUBSET CommitId]
        /\ head' \in [Clone -> Tip]
    BY <1>8, <2>1, <2>3, <2>4 DEF CreateCommit
  <2>7. tree' \in [Tip -> SUBSET Change]
    BY <1>8, <2>2 DEF CreateCommit, OpState
  <2>8. torn' \subseteq Clone /\ spoilt' \in BOOLEAN
    BY <1>8 DEF CreateCommit
  <2>9. QED BY <1>8, <2>5, <2>6, <2>7, <2>8 DEF CreateCommit
<1>9. ASSUME NEW w \in Worker, CreateRefused(w) PROVE TypeOK'
  BY <1>9 DEF CreateRefused, objects, disk, ghosts
<1>10. ASSUME NEW w \in Worker, Cleanup(w) PROVE TypeOK'
  BY <1>10 DEF Cleanup, objects, ghosts
<1>11. ASSUME NEW w \in Worker, PullLocate(w) PROVE TypeOK'
  BY <1>11 DEF PullLocate, IsEmpty, objects, disk, ghosts, Idle, OpState, PC, Tip
<1>12. ASSUME NEW w \in Worker, PullFetch(w) PROVE TypeOK'
  <2>1. op' = [op EXCEPT ![w] = [op[w] EXCEPT !.pc = "analyse", !.seen = remote]]
    BY <1>12 DEF PullFetch
  <2>2. op' \in [Worker -> OpState]
    <3>1. "analyse" \in PC
      BY DEF PC
    <3>2. [op[w] EXCEPT !.pc = "analyse", !.seen = remote] \in OpState
      BY <3>1, GoesOn
    <3>3. QED BY <2>1, <3>2, OperationSet
  <2>3. QED BY <1>12, <2>2 DEF PullFetch, objects, ghosts
<1>13. ASSUME NEW w \in Worker, PullAnalyse(w) PROVE TypeOK'
  <2>1. AfterAnalysis(w) \in PC
    BY DEF AfterAnalysis, PC
  <2>2. op' \in [Worker -> OpState]
    <3>1. [op EXCEPT ![w].pc = AfterAnalysis(w)] \in [Worker -> OpState]
      BY <2>1 DEF OpState
    <3>2. QED BY <1>13, <3>1 DEF PullAnalyse
  <2>3. QED BY <1>13, <2>2 DEF PullAnalyse, objects, disk, ghosts
<1>14. ASSUME NEW w \in Worker, PullMerge(w) PROVE TypeOK'
  <2>1. Place[w] \in Clone
    OBVIOUS
  <2>2. PICK b \in MergeBases(head[Place[w]], fetchHead[Place[w]]),
             clash \in BOOLEAN, commit \in BOOLEAN :
          /\ index' = [index EXCEPT ![Place[w]] =
                          MergedTree(head[Place[w]], fetchHead[Place[w]], b)]
          /\ conflicted' = [conflicted EXCEPT ![Place[w]] = clash]
          /\ IF commit /\ ~clash THEN Goto(w, "tree") ELSE Return(w)
    BY <1>14 DEF PullMerge
  <2>3. MergedTree(head[Place[w]], fetchHead[Place[w]], b) \subseteq Change
    BY <2>1 DEF MergedTree
  <2>4. index' \in [Clone -> SUBSET Change]
    BY <2>1, <2>2, <2>3
  <2>5. conflicted' \in [Clone -> BOOLEAN]
    BY <2>1, <2>2
  <2>6. op' \in [Worker -> OpState]
    <3>1. [op EXCEPT ![w].pc = "tree"] \in [Worker -> OpState]
      <4>1. "tree" \in PC
        BY DEF PC
      <4>2. [op[w] EXCEPT !.pc = "tree"] \in OpState
        BY <4>1, GoesOn
      <4>3. QED BY <4>2, OperationSet
    <3>2. QED BY <2>2, <3>1
  <2>7. mergeHead' \in [Clone -> SUBSET CommitId]
    <3>1. fetchHead[Place[w]] \in CommitId
      BY <1>14, <2>1 DEF PullMerge, SomethingFetched, Tip, CommitId
    <3>2. QED BY <1>14, <2>1, <3>1 DEF PullMerge
  <2>8. QED BY <1>14, <2>4, <2>5, <2>6, <2>7 DEF PullMerge, objects, ghosts
<1>15. ASSUME NEW w \in Worker, PullMergeRefused(w) PROVE TypeOK'
  BY <1>15 DEF PullMergeRefused, objects, ghosts
<1>16. ASSUME NEW w \in Worker, PullBranch(w) PROVE TypeOK'
  <2>1. [op EXCEPT ![w].pc = "checkout"] \in [Worker -> OpState]
    <3>1. "checkout" \in PC
      BY DEF PC
    <3>2. [op[w] EXCEPT !.pc = "checkout"] \in OpState
      BY <3>1, GoesOn
    <3>3. QED BY <3>2, OperationSet
  <2>2. op[w].seen \in Tip
    BY DEF OpState
  <2>3. CASE head[Place[w]] = 0 /\ op[w].seen # 0
    BY <1>16, <2>1, <2>2, <2>3 DEF PullBranch, objects
  <2>4. CASE ~(head[Place[w]] = 0 /\ op[w].seen # 0)
    BY <1>16, <2>4 DEF PullBranch, objects
  <2>5. QED BY <2>3, <2>4
<1>17. ASSUME NEW w \in Worker, PullCheckout(w) PROVE TypeOK'
  BY <1>17 DEF PullCheckout, objects, ghosts
<1>18. ASSUME NEW w \in Worker, PushAdvertise(w) PROVE TypeOK'
  BY <1>18 DEF PushAdvertise, objects, disk, ghosts, Idle, OpState, PC
<1>19. ASSUME NEW w \in Worker, PushUpdate(w) PROVE TypeOK'
  BY <1>19 DEF PushUpdate, objects, disk, ghosts, OpState
<1>20. ASSUME NEW w \in Worker, ResetRead(w) PROVE TypeOK'
  BY <1>20 DEF ResetRead, objects, disk, ghosts, Idle, OpState, PC
<1>21. ASSUME NEW w \in Worker, ResetSoft(w) PROVE TypeOK'
  BY <1>21 DEF ResetSoft, objects, ghosts, OpState
<1>22. ASSUME NEW w \in Worker, ResetFull(w) PROVE TypeOK'
  BY <1>22 DEF ResetFull, objects, ghosts, OpState
<1>23. ASSUME NEW w \in Worker, Abort(w) PROVE TypeOK'
  BY <1>23 DEF Abort, objects, disk, ghosts
<1>24. CASE UNCHANGED vars
  BY <1>24 DEF vars, objects, disk, ghosts
<1>25. QED
  BY <1>1, <1>2, <1>3, <1>4, <1>5, <1>6, <1>7, <1>8, <1>9, <1>10, <1>11, <1>12,
     <1>13, <1>14, <1>15, <1>16, <1>17, <1>18, <1>19, <1>20, <1>21, <1>22, <1>23,
     <1>24 DEF Next, Stage, Commit, Pull, Push, Reset

LEMMA FetchedStep == TypeInv /\ [Next]_vars => SomethingFetched'
<1> SUFFICES ASSUME TypeInv, [Next]_vars PROVE SomethingFetched'
  OBVIOUS
<1> USE PlaceAssumption DEF TypeInv, TypeOK, OpState, SomethingFetched, At, Calls, Return, Goto
<1>1. ASSUME NEW w \in Worker, StageLoad(w) PROVE SomethingFetched'
  BY <1>1 DEF StageLoad, objects, disk, ghosts, Idle
<1>2. ASSUME NEW w \in Worker, StageWrite(w) PROVE SomethingFetched'
  BY <1>2 DEF StageWrite, objects, ghosts, Idle
<1>3. ASSUME NEW w \in Worker, CreateTree(w) PROVE SomethingFetched'
  <2>1. UNCHANGED <<fetchHead, remote>>
    BY <1>3 DEF CreateTree, disk
  <2>2. CASE conflicted[Place[w]]
    <3>1. op' = [op EXCEPT ![w] = Idle]
      BY <1>3, <2>2 DEF CreateTree
    <3>2. QED BY <2>1, <3>1 DEF Idle
  <2>3. CASE ~conflicted[Place[w]]
    <3>1. op' = [op EXCEPT ![w] = [Idle EXCEPT !.pc = "head", !.tree = index[Place[w]]]]
      BY <1>3, <2>3 DEF CreateTree
    <3>2. QED BY <2>1, <3>1 DEF Idle
  <2>4. QED BY <2>2, <2>3
<1>4. ASSUME NEW w \in Worker, ReadHead(w) PROVE SomethingFetched'
  BY <1>4 DEF ReadHead, objects, disk, ghosts
<1>5. ASSUME NEW w \in Worker, ReadState(w) PROVE SomethingFetched'
  BY <1>5 DEF ReadState, objects, disk, ghosts
<1>6. ASSUME NEW w \in Worker, ResolveHead(w) PROVE SomethingFetched'
  BY <1>6 DEF ResolveHead, objects, disk, ghosts
<1>7. ASSUME NEW w \in Worker, ReadMergeHeads(w) PROVE SomethingFetched'
  BY <1>7 DEF ReadMergeHeads, objects, disk, ghosts
<1>8. ASSUME NEW w \in Worker, CreateCommit(w) PROVE SomethingFetched'
  <2>1. PICK l \in {"cleanup", "idle"} : op' = [op EXCEPT ![w] = [Idle EXCEPT !.pc = l]]
    BY <1>8 DEF CreateCommit, AfterCreate
  <2>2. UNCHANGED <<fetchHead, remote>>
    BY <1>8 DEF CreateCommit
  <2>3. QED BY <2>1, <2>2 DEF Idle
<1>9. ASSUME NEW w \in Worker, CreateRefused(w) PROVE SomethingFetched'
  BY <1>9 DEF CreateRefused, objects, disk, ghosts, Idle
<1>10. ASSUME NEW w \in Worker, Cleanup(w) PROVE SomethingFetched'
  BY <1>10 DEF Cleanup, objects, ghosts, Idle
<1>11. ASSUME NEW w \in Worker, PullLocate(w) PROVE SomethingFetched'
  BY <1>11 DEF PullLocate, objects, disk, ghosts, Idle
<1>12. ASSUME NEW w \in Worker, PullFetch(w) PROVE SomethingFetched'
  BY <1>12 DEF PullFetch, objects, ghosts
<1>13. ASSUME NEW w \in Worker, PullAnalyse(w) PROVE SomethingFetched'
  <2>1. PICK o \in {Idle, [op[w] EXCEPT !.pc = AfterAnalysis(w)]} :
          op' = [op EXCEPT ![w] = o]
    BY <1>13 DEF PullAnalyse
  <2>2. o.pc \in {"idle", "branch", "merge"}
    BY DEF Idle, AfterAnalysis
  <2>3. o.pc = "merge" => fetchHead[Place[w]] # 0
    BY DEF Idle, AfterAnalysis
  <2>4. UNCHANGED <<fetchHead, remote>>
    BY <1>13 DEF PullAnalyse, disk
  <2>5. QED BY <2>1, <2>2, <2>3, <2>4
<1>14. ASSUME NEW w \in Worker, PullMerge(w) PROVE SomethingFetched'
  <2>1. PICK o \in {Idle, [op[w] EXCEPT !.pc = "tree"]} : op' = [op EXCEPT ![w] = o]
    BY <1>14 DEF PullMerge
  <2>2. o.pc \in {"idle", "tree"}
    BY DEF Idle
  <2>3. UNCHANGED <<fetchHead, remote>>
    BY <1>14 DEF PullMerge
  <2>4. QED BY <2>1, <2>2, <2>3
<1>15. ASSUME NEW w \in Worker, PullMergeRefused(w) PROVE SomethingFetched'
  BY <1>15 DEF PullMergeRefused, objects, ghosts, Idle
<1>16. ASSUME NEW w \in Worker, PullBranch(w) PROVE SomethingFetched'
  <2>1. PICK o \in {Idle, [op[w] EXCEPT !.pc = "checkout"]} : op' = [op EXCEPT ![w] = o]
    BY <1>16 DEF PullBranch
  <2>2. o.pc \in {"idle", "checkout"}
    BY DEF Idle
  <2>3. UNCHANGED <<fetchHead, remote>>
    BY <1>16 DEF PullBranch
  <2>4. QED BY <2>1, <2>2, <2>3
<1>17. ASSUME NEW w \in Worker, PullCheckout(w) PROVE SomethingFetched'
  BY <1>17 DEF PullCheckout, objects, Idle
<1>18. ASSUME NEW w \in Worker, PushAdvertise(w) PROVE SomethingFetched'
  BY <1>18 DEF PushAdvertise, objects, disk, ghosts, Idle, CanPush
<1>19. ASSUME NEW w \in Worker, PushUpdate(w) PROVE SomethingFetched'
  BY <1>19 DEF PushUpdate, objects, disk, ghosts, Idle
<1>20. ASSUME NEW w \in Worker, ResetRead(w) PROVE SomethingFetched'
  BY <1>20 DEF ResetRead, objects, disk, ghosts, Idle
<1>21. ASSUME NEW w \in Worker, ResetSoft(w) PROVE SomethingFetched'
  BY <1>21 DEF ResetSoft, objects, ghosts, Idle
<1>22. ASSUME NEW w \in Worker, ResetFull(w) PROVE SomethingFetched'
  BY <1>22 DEF ResetFull, objects, Idle
<1>23. ASSUME NEW w \in Worker, Abort(w) PROVE SomethingFetched'
  BY <1>23 DEF Abort, objects, disk, ghosts, Idle
<1>24. CASE UNCHANGED vars
  BY <1>24 DEF vars, objects, disk, ghosts
<1>25. QED
  BY <1>1, <1>2, <1>3, <1>4, <1>5, <1>6, <1>7, <1>8, <1>9, <1>10, <1>11, <1>12,
     <1>13, <1>14, <1>15, <1>16, <1>17, <1>18, <1>19, <1>20, <1>21, <1>22, <1>23,
     <1>24 DEF Next, Stage, Commit, Pull, Push, Reset

\* Every variable keeps its type: in particular no commit ever has "no commit"
\* for a parent or for a merged node.
THEOREM TypeCorrect == Spec => []TypeOK
<1>1. Spec => []TypeInv
  <2>1. TypeInv /\ [Next]_vars => TypeInv'
    BY TypeStep, FetchedStep DEF TypeInv
  <2>2. QED BY TypeInit, <2>1, PTL DEF Spec
<1>2. TypeInv => TypeOK
  BY DEF TypeInv
<1>3. QED BY <1>1, <1>2, PTL

-----------------------------------------------------------------------------
(***************************************************************************)
(* What a clone has fetched stays part of the remote branch, for any       *)
(* number of workers on any number of clones.                              *)
(***************************************************************************)

\* Every commit that is named anywhere has been created.
Known ==
  /\ \A c \in Clone : /\ head[c] \in 0..count
                      /\ fetchHead[c] \in 0..count
                      /\ mergeHead[c] \subseteq 1..count
  /\ remote \in 0..count
  /\ \A w \in Worker : /\ op[w].tip \in 0..count
                       /\ op[w].seen \in 0..count
                       /\ op[w].heads \subseteq 1..count

\* The ancestors of a commit are created before it, and theirs are its own.
Descent ==
  /\ anc[0] = {}
  /\ \A k \in Tip : anc[k] \subseteq 1..count
  /\ \A a, b, d \in Tip : a \in anc[b] /\ b \in anc[d] => a \in anc[d]

\* A push in flight moves the remote branch forward from where it saw it.
PushForward == \A w \in Worker : At(w, "push") => Contains(op[w].tip, op[w].seen)

RemoteInv == TypeInv /\ Known /\ Descent /\ PushForward /\ FetchedOnRemote

LEMMA RemoteInit == Init => RemoteInv
<1> SUFFICES ASSUME Init PROVE RemoteInv
  OBVIOUS
<1>1. TypeInv
  BY TypeInit
<1>2. Known
  BY DEF Init, Known, Idle
<1>3. Descent
  BY BoundAssumption DEF Init, Descent, Tip
<1>4. PushForward /\ FetchedOnRemote
  BY DEF Init, PushForward, FetchedOnRemote, Contains, At, Idle
<1>5. QED BY <1>1, <1>2, <1>3, <1>4 DEF RemoteInv

LEMMA KnownStep == TypeInv /\ Known /\ [Next]_vars => Known'
<1> SUFFICES ASSUME TypeInv, Known, [Next]_vars PROVE Known'
  OBVIOUS
<1> USE PlaceAssumption DEF TypeInv, TypeOK, OpState, Tip, Known, At, Calls, Return, Goto
<1>1. ASSUME NEW w \in Worker, StageLoad(w) PROVE Known'
  BY <1>1 DEF StageLoad, objects, disk, ghosts, Idle
<1>2. ASSUME NEW w \in Worker, StageWrite(w) PROVE Known'
  BY <1>2 DEF StageWrite, objects, ghosts, Idle
<1>3. ASSUME NEW w \in Worker, CreateTree(w) PROVE Known'
  <2>1. UNCHANGED <<count, head, fetchHead, mergeHead, remote>>
    BY <1>3 DEF CreateTree, disk, objects
  <2>2. CASE conflicted[Place[w]]
    <3>1. op' = [op EXCEPT ![w] = Idle]
      BY <1>3, <2>2 DEF CreateTree
    <3>2. QED BY <2>1, <3>1 DEF Idle
  <2>3. CASE ~conflicted[Place[w]]
    <3>1. op' = [op EXCEPT ![w] = [Idle EXCEPT !.pc = "head", !.tree = index[Place[w]]]]
      BY <1>3, <2>3 DEF CreateTree
    <3>2. QED BY <2>1, <3>1 DEF Idle
  <2>4. QED BY <2>2, <2>3
<1>4. ASSUME NEW w \in Worker, ReadHead(w) PROVE Known'
  BY <1>4 DEF ReadHead, objects, disk, ghosts
<1>5. ASSUME NEW w \in Worker, ReadState(w) PROVE Known'
  BY <1>5 DEF ReadState, objects, disk, ghosts
<1>6. ASSUME NEW w \in Worker, ResolveHead(w) PROVE Known'
  BY <1>6 DEF ResolveHead, objects, disk, ghosts
<1>7. ASSUME NEW w \in Worker, ReadMergeHeads(w) PROVE Known'
  BY <1>7 DEF ReadMergeHeads, objects, disk, ghosts
<1>8. ASSUME NEW w \in Worker, CreateCommit(w) PROVE Known'
  <2>1. PICK l \in {"cleanup", "idle"} : op' = [op EXCEPT ![w] = [Idle EXCEPT !.pc = l]]
    BY <1>8 DEF CreateCommit, AfterCreate
  <2>2. /\ count' = count + 1
        /\ head' = [head EXCEPT ![Place[w]] = count + 1]
        /\ UNCHANGED <<fetchHead, mergeHead, remote>>
    BY <1>8 DEF CreateCommit
  <2>3. QED BY <2>1, <2>2 DEF Idle
<1>9. ASSUME NEW w \in Worker, CreateRefused(w) PROVE Known'
  BY <1>9 DEF CreateRefused, objects, disk, ghosts, Idle
<1>10. ASSUME NEW w \in Worker, Cleanup(w) PROVE Known'
  BY <1>10 DEF Cleanup, objects, ghosts, Idle
<1>11. ASSUME NEW w \in Worker, PullLocate(w) PROVE Known'
  BY <1>11 DEF PullLocate, objects, disk, ghosts, Idle
<1>12. ASSUME NEW w \in Worker, PullFetch(w) PROVE Known'
  BY <1>12 DEF PullFetch, objects, ghosts
<1>13. ASSUME NEW w \in Worker, PullAnalyse(w) PROVE Known'
  <2>1. UNCHANGED <<count, head, fetchHead, mergeHead, remote>>
    BY <1>13 DEF PullAnalyse, disk, objects
  <2>2. PICK o \in {Idle, [op[w] EXCEPT !.pc = AfterAnalysis(w)]} :
          op' = [op EXCEPT ![w] = o]
    BY <1>13 DEF PullAnalyse
  <2>3. o.tip \in 0..count /\ o.seen \in 0..count /\ o.heads \subseteq 1..count
    <3>1. CASE o = Idle
      BY <3>1 DEF Idle
    <3>2. CASE o = [op[w] EXCEPT !.pc = AfterAnalysis(w)]
      BY <3>2
    <3>3. QED BY <3>1, <3>2
  <2>4. QED BY <2>1, <2>2, <2>3
<1>14. ASSUME NEW w \in Worker, PullMerge(w) PROVE Known'
  <2>1. UNCHANGED <<count, head, fetchHead, remote>>
    BY <1>14 DEF PullMerge, objects
  <2>2. mergeHead' = [mergeHead EXCEPT ![Place[w]] = {fetchHead[Place[w]]}]
    BY <1>14 DEF PullMerge
  <2>3. fetchHead[Place[w]] \in 1..count
    BY <1>14 DEF PullMerge, SomethingFetched
  <2>4. PICK o \in {Idle, [op[w] EXCEPT !.pc = "tree"]} : op' = [op EXCEPT ![w] = o]
    BY <1>14 DEF PullMerge
  <2>5. o.tip \in 0..count /\ o.seen \in 0..count /\ o.heads \subseteq 1..count
    <3>1. CASE o = Idle
      BY <3>1 DEF Idle
    <3>2. CASE o = [op[w] EXCEPT !.pc = "tree"]
      BY <3>2
    <3>3. QED BY <3>1, <3>2
  <2>6. QED BY <2>1, <2>2, <2>3, <2>4, <2>5
<1>15. ASSUME NEW w \in Worker, PullMergeRefused(w) PROVE Known'
  BY <1>15 DEF PullMergeRefused, objects, ghosts, Idle
<1>16. ASSUME NEW w \in Worker, PullBranch(w) PROVE Known'
  <2>1. UNCHANGED <<count, fetchHead, mergeHead, remote>>
    BY <1>16 DEF PullBranch, objects
  <2>2. \/ head' = head
        \/ head' = [head EXCEPT ![Place[w]] = op[w].seen]
    BY <1>16 DEF PullBranch
  <2>3. PICK o \in {Idle, [op[w] EXCEPT !.pc = "checkout"]} : op' = [op EXCEPT ![w] = o]
    BY <1>16 DEF PullBranch
  <2>4. o.tip \in 0..count /\ o.seen \in 0..count /\ o.heads \subseteq 1..count
    <3>1. CASE o = Idle
      BY <3>1 DEF Idle
    <3>2. CASE o = [op[w] EXCEPT !.pc = "checkout"]
      BY <3>2
    <3>3. QED BY <3>1, <3>2
  <2>5. \A c \in Clone : head'[c] \in 0..count
    <3>1. CASE head' = head
      BY <3>1
    <3>2. CASE head' = [head EXCEPT ![Place[w]] = op[w].seen]
      BY <3>2
    <3>3. QED BY <2>2, <3>1, <3>2
  <2>6. \A v \in Worker : /\ op'[v].tip \in 0..count
                          /\ op'[v].seen \in 0..count
                          /\ op'[v].heads \subseteq 1..count
    BY <2>3, <2>4
  <2>7. QED BY <2>1, <2>5, <2>6
<1>17. ASSUME NEW w \in Worker, PullCheckout(w) PROVE Known'
  BY <1>17 DEF PullCheckout, objects, Idle
<1>18. ASSUME NEW w \in Worker, PushAdvertise(w) PROVE Known'
  BY <1>18 DEF PushAdvertise, objects, disk, ghosts, Idle
<1>19. ASSUME NEW w \in Worker, PushUpdate(w) PROVE Known'
  BY <1>19 DEF PushUpdate, objects, disk, ghosts, Idle
<1>20. ASSUME NEW w \in Worker, ResetRead(w) PROVE Known'
  BY <1>20 DEF ResetRead, objects, disk, ghosts, Idle
<1>21. ASSUME NEW w \in Worker, ResetSoft(w) PROVE Known'
  BY <1>21 DEF ResetSoft, objects, ghosts, Idle
<1>22. ASSUME NEW w \in Worker, ResetFull(w) PROVE Known'
  BY <1>22 DEF ResetFull, objects, Idle
<1>23. ASSUME NEW w \in Worker, Abort(w) PROVE Known'
  BY <1>23 DEF Abort, objects, disk, ghosts, Idle
<1>24. CASE UNCHANGED vars
  BY <1>24 DEF vars, objects, disk, ghosts
<1>25. QED
  BY <1>1, <1>2, <1>3, <1>4, <1>5, <1>6, <1>7, <1>8, <1>9, <1>10, <1>11, <1>12,
     <1>13, <1>14, <1>15, <1>16, <1>17, <1>18, <1>19, <1>20, <1>21, <1>22, <1>23,
     <1>24 DEF Next, Stage, Commit, Pull, Push, Reset

\* Commits only get ancestors when they are created.
LEMMA OneCommit ==
  ASSUME TypeInv, Known, [Next]_vars
  PROVE  \/ UNCHANGED <<count, anc>>
         \/ \E P \in SUBSET (1..count) :
              /\ count < MaxCommits
              /\ count' = count + 1
              /\ anc' = [anc EXCEPT ![count + 1] = AncestorsOf(P)]
<1>1. ASSUME NEW w \in Worker, CreateCommit(w)
      PROVE  \E P \in SUBSET (1..count) :
              /\ count < MaxCommits
              /\ count' = count + 1
              /\ anc' = [anc EXCEPT ![count + 1] = AncestorsOf(P)]
  <2>1. CommitParents(w) \in SUBSET (1..count)
    BY DEF CommitParents, Known, TypeInv, TypeOK, Tip
  <2>2. QED BY <1>1, <2>1 DEF CreateCommit
<1>2. ASSUME NEW w \in Worker, ~CreateCommit(w),
             Stage(w) \/ Commit(w) \/ Pull(w) \/ Push(w) \/ Reset(w) \/ Abort(w)
      PROVE  UNCHANGED <<count, anc>>
  BY <1>2 DEF Stage, Commit, Pull, Push, Reset, StageLoad, StageWrite, CreateTree,
     ReadHead, ReadState, ResolveHead, ReadMergeHeads, CreateRefused, Cleanup,
     PullLocate, PullFetch, PullAnalyse, PullMerge, PullMergeRefused, PullBranch,
     PullCheckout, PushAdvertise, PushUpdate, ResetRead, ResetSoft, ResetFull,
     Abort, objects
<1>3. CASE UNCHANGED vars
  BY <1>3 DEF vars, objects
<1>4. QED BY <1>1, <1>2, <1>3 DEF Next

LEMMA DescentStep == TypeInv /\ Known /\ Descent /\ [Next]_vars => Descent'
<1> SUFFICES ASSUME TypeInv, Known, Descent, [Next]_vars PROVE Descent'
  OBVIOUS
<1>1. CASE UNCHANGED <<count, anc>>
  BY <1>1 DEF Descent
<1>2. CASE \E P \in SUBSET (1..count) :
             /\ count < MaxCommits
             /\ count' = count + 1
             /\ anc' = [anc EXCEPT ![count + 1] = AncestorsOf(P)]
  <2>1. PICK P \in SUBSET (1..count) :
             /\ count < MaxCommits
             /\ count' = count + 1
             /\ anc' = [anc EXCEPT ![count + 1] = AncestorsOf(P)]
    BY <1>2
  <2>2. /\ count + 1 \in Tip
        /\ count + 1 # 0
        /\ P \subseteq Tip
        /\ anc \in [Tip -> SUBSET CommitId]
    BY <2>1, BoundAssumption DEF TypeInv, TypeOK, Tip
  <2>3. AncestorsOf(P) \subseteq 1..count
    <3>1. \A p \in P : anc[p] \subseteq 1..count
      BY <2>2 DEF Descent
    <3>2. QED BY <3>1 DEF AncestorsOf
  <2>4. \A d \in Tip : anc'[d] = IF d = count + 1 THEN AncestorsOf(P) ELSE anc[d]
    BY <2>1, <2>2
  <2>5. anc'[0] = {}
    BY <2>2, <2>4, BoundAssumption DEF Descent, Tip
  <2>6. \A k \in Tip : anc'[k] \subseteq 1..count'
    BY <2>1, <2>3, <2>4, BoundAssumption DEF Descent, TypeInv, TypeOK, Tip
  <2>7. ASSUME NEW a \in Tip, NEW b \in Tip, NEW d \in Tip, a \in anc'[b], b \in anc'[d]
        PROVE  a \in anc'[d]
    <3>1. b \in 1..count
      <4>1. anc'[d] \subseteq 1..count
        BY <2>3, <2>4 DEF Descent
      <4>2. QED BY <2>7, <4>1
    <3>2. b # count + 1
      BY <3>1 DEF TypeInv, TypeOK, Tip
    <3>3. a \in anc[b]
      BY <2>4, <2>7, <3>2
    <3>4. CASE d = count + 1
      <4>1. b \in AncestorsOf(P)
        BY <2>4, <2>7, <3>4
      <4>2. a \in AncestorsOf(P)
        BY <2>2, <3>3, <4>1 DEF AncestorsOf, Descent
      <4>3. QED BY <2>4, <3>4, <4>2
    <3>5. CASE d # count + 1
      BY <2>4, <2>7, <3>3, <3>5 DEF Descent
    <3>6. QED BY <3>4, <3>5
  <2>8. QED BY <2>5, <2>6, <2>7 DEF Descent
<1>3. QED BY <1>1, <1>2, OneCommit

\* The history of a commit that exists never changes.
LEMMA HistoryKept ==
  ASSUME TypeInv, Known, [Next]_vars
  PROVE  \A d \in 0..count : anc'[d] = anc[d]
<1>1. CASE UNCHANGED <<count, anc>>
  BY <1>1
<1>2. ASSUME NEW P \in SUBSET (1..count),
             count < MaxCommits,
             anc' = [anc EXCEPT ![count + 1] = AncestorsOf(P)]
      PROVE  \A d \in 0..count : anc'[d] = anc[d]
  BY <1>2, BoundAssumption DEF TypeInv, TypeOK, Tip
<1>3. QED BY <1>1, <1>2, OneCommit

\* A commit that contains one that contains a third contains that too.
LEMMA ContainsTransitive ==
  ASSUME TypeInv, Descent, NEW a \in Tip, NEW b \in Tip, NEW d \in Tip,
         Contains(d, b), Contains(b, a)
  PROVE  Contains(d, a)
BY DEF Contains, Descent

LEMMA RemoteStep == RemoteInv /\ [Next]_vars => PushForward' /\ FetchedOnRemote'
<1> SUFFICES ASSUME RemoteInv, [Next]_vars PROVE PushForward' /\ FetchedOnRemote'
  OBVIOUS
<1>0. /\ \A d \in 0..count : anc'[d] = anc[d]
      /\ anc[0] = {}
      /\ \A a, b, d \in Tip : Contains(d, b) /\ Contains(b, a) => Contains(d, a)
  BY HistoryKept, ContainsTransitive DEF RemoteInv, Descent
<1> USE <1>0, PlaceAssumption DEF RemoteInv, TypeInv, TypeOK, OpState, Tip, Known,
        PushForward, FetchedOnRemote, Contains, At, Calls, Return, Goto
<1>1. ASSUME NEW w \in Worker, StageLoad(w) PROVE PushForward' /\ FetchedOnRemote'
  BY <1>1 DEF StageLoad, objects, disk, ghosts, Idle
<1>2. ASSUME NEW w \in Worker, StageWrite(w) PROVE PushForward' /\ FetchedOnRemote'
  BY <1>2 DEF StageWrite, objects, ghosts, Idle
<1>3. ASSUME NEW w \in Worker, CreateTree(w) PROVE PushForward' /\ FetchedOnRemote'
  <2>1. UNCHANGED <<count, anc, fetchHead, mergeHead, remote>>
    BY <1>3 DEF CreateTree, disk, objects
  <2>2. CASE conflicted[Place[w]]
    <3>1. op' = [op EXCEPT ![w] = Idle]
      BY <1>3, <2>2 DEF CreateTree
    <3>2. QED BY <2>1, <3>1 DEF Idle
  <2>3. CASE ~conflicted[Place[w]]
    <3>1. op' = [op EXCEPT ![w] = [Idle EXCEPT !.pc = "head", !.tree = index[Place[w]]]]
      BY <1>3, <2>3 DEF CreateTree
    <3>2. QED BY <2>1, <3>1 DEF Idle
  <2>4. QED BY <2>2, <2>3
<1>4. ASSUME NEW w \in Worker, ReadHead(w) PROVE PushForward' /\ FetchedOnRemote'
  BY <1>4 DEF ReadHead, objects, disk, ghosts
<1>5. ASSUME NEW w \in Worker, ReadState(w) PROVE PushForward' /\ FetchedOnRemote'
  BY <1>5 DEF ReadState, objects, disk, ghosts
<1>6. ASSUME NEW w \in Worker, ResolveHead(w) PROVE PushForward' /\ FetchedOnRemote'
  BY <1>6 DEF ResolveHead, objects, disk, ghosts
<1>7. ASSUME NEW w \in Worker, ReadMergeHeads(w) PROVE PushForward' /\ FetchedOnRemote'
  BY <1>7 DEF ReadMergeHeads, objects, disk, ghosts
<1>8. ASSUME NEW w \in Worker, CreateCommit(w) PROVE PushForward' /\ FetchedOnRemote'
  BY <1>8 DEF CreateCommit, Idle
<1>9. ASSUME NEW w \in Worker, CreateRefused(w) PROVE PushForward' /\ FetchedOnRemote'
  BY <1>9 DEF CreateRefused, objects, disk, ghosts, Idle
<1>10. ASSUME NEW w \in Worker, Cleanup(w) PROVE PushForward' /\ FetchedOnRemote'
  BY <1>10 DEF Cleanup, objects, ghosts, Idle
<1>11. ASSUME NEW w \in Worker, PullLocate(w) PROVE PushForward' /\ FetchedOnRemote'
  BY <1>11 DEF PullLocate, objects, disk, ghosts, Idle
<1>12. ASSUME NEW w \in Worker, PullFetch(w) PROVE PushForward' /\ FetchedOnRemote'
  <2>1. /\ UNCHANGED <<count, anc, mergeHead, remote>>
        /\ fetchHead' = [fetchHead EXCEPT ![Place[w]] = remote]
        /\ op' = [op EXCEPT ![w] = [@ EXCEPT !.pc = "analyse", !.seen = remote]]
    BY <1>12 DEF PullFetch, objects
  <2>2. PushForward'
    BY <2>1
  <2>3. ASSUME NEW c \in Clone PROVE Contains(remote, fetchHead[c])'
    BY <2>1, <2>3
  <2>4. ASSUME NEW c \in Clone, NEW m \in mergeHead'[c]
        PROVE  Contains(fetchHead[c], m)'
    <3>1. m \in Tip /\ fetchHead[c] \in Tip /\ remote \in Tip
      BY <2>1, <2>4 DEF CommitId
    <3>2. Contains(remote, fetchHead[c]) /\ Contains(fetchHead[c], m)
      BY <2>1, <2>4
    <3>3. Contains(remote, m)
      BY <1>0, <3>1, <3>2
    <3>4. fetchHead'[c] \in {remote, fetchHead[c]}
      BY <2>1
    <3>5. QED BY <2>1, <3>2, <3>3, <3>4
  <2>5. QED BY <2>2, <2>3, <2>4
<1>13. ASSUME NEW w \in Worker, PullAnalyse(w) PROVE PushForward' /\ FetchedOnRemote'
  <2>1. UNCHANGED <<count, anc, fetchHead, mergeHead, remote>>
    BY <1>13 DEF PullAnalyse, disk, objects
  <2>2. PICK o \in {Idle, [op[w] EXCEPT !.pc = AfterAnalysis(w)]} :
          op' = [op EXCEPT ![w] = o]
    BY <1>13 DEF PullAnalyse
  <2>3. o.pc # "push"
    BY DEF Idle, AfterAnalysis
  <2>4. QED BY <2>1, <2>2, <2>3
<1>14. ASSUME NEW w \in Worker, PullMerge(w) PROVE PushForward' /\ FetchedOnRemote'
  <2>1. /\ UNCHANGED <<count, anc, fetchHead, remote>>
        /\ mergeHead' = [mergeHead EXCEPT ![Place[w]] = {fetchHead[Place[w]]}]
    BY <1>14 DEF PullMerge, objects
  <2>2. PICK o \in {Idle, [op[w] EXCEPT !.pc = "tree"]} : op' = [op EXCEPT ![w] = o]
    BY <1>14 DEF PullMerge
  <2>3. o.pc # "push"
    BY DEF Idle
  <2>4. PushForward'
    BY <2>1, <2>2, <2>3
  <2>5. FetchedOnRemote'
    BY <2>1
  <2>6. QED BY <2>4, <2>5
<1>15. ASSUME NEW w \in Worker, PullMergeRefused(w) PROVE PushForward' /\ FetchedOnRemote'
  BY <1>15 DEF PullMergeRefused, objects, ghosts, Idle
<1>16. ASSUME NEW w \in Worker, PullBranch(w) PROVE PushForward' /\ FetchedOnRemote'
  <2>1. UNCHANGED <<count, anc, fetchHead, mergeHead, remote>>
    BY <1>16 DEF PullBranch, objects
  <2>2. PICK o \in {Idle, [op[w] EXCEPT !.pc = "checkout"]} : op' = [op EXCEPT ![w] = o]
    BY <1>16 DEF PullBranch
  <2>3. o.pc # "push"
    BY DEF Idle
  <2>4. QED BY <2>1, <2>2, <2>3
<1>17. ASSUME NEW w \in Worker, PullCheckout(w) PROVE PushForward' /\ FetchedOnRemote'
  BY <1>17 DEF PullCheckout, objects, Idle
<1>18. ASSUME NEW w \in Worker, PushAdvertise(w) PROVE PushForward' /\ FetchedOnRemote'
  BY <1>18 DEF PushAdvertise, objects, disk, ghosts, Idle, CanPush
<1>19. ASSUME NEW w \in Worker, PushUpdate(w) PROVE PushForward' /\ FetchedOnRemote'
  <2>1. /\ UNCHANGED <<count, anc, fetchHead, mergeHead>>
        /\ op' = [op EXCEPT ![w] = Idle]
    BY <1>19 DEF PushUpdate, disk, objects
  <2>2. \/ remote' = remote
        \/ remote' = op[w].tip /\ Contains(op[w].tip, remote)
    <3>1. Contains(op[w].tip, op[w].seen)
      BY <1>19 DEF PushUpdate
    <3>2. CASE remote = op[w].seen
      <4>1. remote' = op[w].tip
        BY <1>19, <3>2 DEF PushUpdate
      <4>2. QED BY <3>1, <3>2, <4>1
    <3>3. CASE remote # op[w].seen
      BY <1>19, <3>3 DEF PushUpdate
    <3>4. QED BY <3>2, <3>3
  <2>3. remote' \in Tip /\ op[w].tip \in Tip
    BY <2>2
  <2>4. PushForward'
    BY <2>1 DEF Idle
  <2>5. ASSUME NEW c \in Clone PROVE Contains(remote', fetchHead[c])
    <3>1. Contains(remote, fetchHead[c]) /\ fetchHead[c] \in Tip /\ remote \in Tip
      OBVIOUS
    <3>2. QED BY <1>0, <2>2, <2>3, <3>1
  <2>6. ASSUME NEW c \in Clone PROVE Contains(remote, fetchHead[c])'
    BY <2>1, <2>2, <2>3, <2>5
  <2>7. QED BY <2>1, <2>4, <2>6
<1>20. ASSUME NEW w \in Worker, ResetRead(w) PROVE PushForward' /\ FetchedOnRemote'
  BY <1>20 DEF ResetRead, objects, disk, ghosts, Idle
<1>21. ASSUME NEW w \in Worker, ResetSoft(w) PROVE PushForward' /\ FetchedOnRemote'
  BY <1>21 DEF ResetSoft, objects, ghosts, Idle
<1>22. ASSUME NEW w \in Worker, ResetFull(w) PROVE PushForward' /\ FetchedOnRemote'
  BY <1>22 DEF ResetFull, objects, Idle
<1>23. ASSUME NEW w \in Worker, Abort(w) PROVE PushForward' /\ FetchedOnRemote'
  BY <1>23 DEF Abort, objects, disk, ghosts, Idle
<1>24. CASE UNCHANGED vars
  BY <1>24 DEF vars, objects, disk, ghosts
<1>25. QED
  BY <1>1, <1>2, <1>3, <1>4, <1>5, <1>6, <1>7, <1>8, <1>9, <1>10, <1>11, <1>12,
     <1>13, <1>14, <1>15, <1>16, <1>17, <1>18, <1>19, <1>20, <1>21, <1>22, <1>23,
     <1>24 DEF Next, Stage, Commit, Pull, Push, Reset

\* Everything a clone has fetched, and every merge it has under way, is in the
\* history of the remote branch: a push only ever moves that branch forward, however
\* many workers share a clone and wherever their operations are cut short.
THEOREM FetchedStaysOnRemote == Spec => []FetchedOnRemote
<1>1. RemoteInv /\ [Next]_vars => RemoteInv'
  BY TypeStep, FetchedStep, KnownStep, DescentStep, RemoteStep DEF RemoteInv, TypeInv
<1>2. RemoteInv => FetchedOnRemote
  BY DEF RemoteInv
<1>3. QED BY RemoteInit, <1>1, <1>2, PTL DEF Spec

-----------------------------------------------------------------------------
(***************************************************************************)
(* GitExchange implements GitHistory: no branch loses a commit, unless two *)
(* workers share a clone and one of them resets it.                        *)
(***************************************************************************)

\* What the operations have read stays true enough until they act on it: what the
\* remote advertised is still part of it, what is being pushed is still part of the
\* local branch, and what the branch is being reset to is still its tip.
Steady ==
  \A w \in Worker :
    /\ Contains(remote, op[w].seen)
    /\ At(w, "push") => Contains(head[Place[w]], op[w].tip)
    /\ At(w, "reset") => "reset" \in Ops /\ op[w].tip = head[Place[w]]

HistoryInv == RemoteInv /\ Steady

\* Either nobody resets, or no clone has two workers.
NoResetRace == "reset" \notin Ops \/ Solo

LEMMA SteadyInit == Init => Steady
BY DEF Init, Steady, Contains, At, Idle

LEMMA RemoteInvStep == RemoteInv /\ [Next]_vars => RemoteInv'
BY TypeStep, FetchedStep, KnownStep, DescentStep, RemoteStep DEF RemoteInv, TypeInv

\* A branch of a clone is left alone by those who work elsewhere.
LEMMA SteadyStep == NoResetRace /\ HistoryInv /\ [Next]_vars => Steady'
<1> SUFFICES ASSUME NoResetRace, HistoryInv, [Next]_vars PROVE Steady'
  OBVIOUS
<1>0. /\ \A d \in 0..count : anc'[d] = anc[d]
      /\ anc[0] = {}
      /\ \A a, b, d \in Tip : Contains(d, b) /\ Contains(b, a) => Contains(d, a)
  BY HistoryKept, ContainsTransitive DEF HistoryInv, RemoteInv, Descent
<1> USE <1>0, PlaceAssumption DEF NoResetRace, Solo, HistoryInv, RemoteInv, TypeInv,
        TypeOK, OpState, Tip, Known, Steady, Contains, At, Calls, Return, Goto
<1>1. ASSUME NEW w \in Worker, StageLoad(w) PROVE Steady'
  BY <1>1 DEF StageLoad, objects, disk, ghosts, Idle
<1>2. ASSUME NEW w \in Worker, StageWrite(w) PROVE Steady'
  BY <1>2 DEF StageWrite, objects, ghosts, Idle
<1>3. ASSUME NEW w \in Worker, CreateTree(w) PROVE Steady'
  <2>1. UNCHANGED <<count, anc, head, remote>>
    BY <1>3 DEF CreateTree, disk, objects
  <2>2. CASE conflicted[Place[w]]
    <3>1. op' = [op EXCEPT ![w] = Idle]
      BY <1>3, <2>2 DEF CreateTree
    <3>2. QED BY <2>1, <3>1 DEF Idle
  <2>3. CASE ~conflicted[Place[w]]
    <3>1. op' = [op EXCEPT ![w] = [Idle EXCEPT !.pc = "head", !.tree = index[Place[w]]]]
      BY <1>3, <2>3 DEF CreateTree
    <3>2. QED BY <2>1, <3>1 DEF Idle
  <2>4. QED BY <2>2, <2>3
<1>4. ASSUME NEW w \in Worker, ReadHead(w) PROVE Steady'
  BY <1>4 DEF ReadHead, objects, disk, ghosts
<1>5. ASSUME NEW w \in Worker, ReadState(w) PROVE Steady'
  BY <1>5 DEF ReadState, objects, disk, ghosts
<1>6. ASSUME NEW w \in Worker, ResolveHead(w) PROVE Steady'
  BY <1>6 DEF ResolveHead, objects, disk, ghosts
<1>7. ASSUME NEW w \in Worker, ReadMergeHeads(w) PROVE Steady'
  BY <1>7 DEF ReadMergeHeads, objects, disk, ghosts
<1>8. ASSUME NEW w \in Worker, CreateCommit(w) PROVE Steady'
  <2> DEFINE c == Place[w]
             P == CommitParents(w)
  <2>1. /\ count + 1 \in Tip
        /\ count' = count + 1
        /\ anc' = [anc EXCEPT ![count + 1] = AncestorsOf(P)]
        /\ head' = [head EXCEPT ![c] = count + 1]
        /\ head[c] = op[w].tip
        /\ UNCHANGED remote
    BY <1>8, BoundAssumption DEF CreateCommit, CanCreate
  <2>2. PICK l \in {"cleanup", "idle"} : op' = [op EXCEPT ![w] = [Idle EXCEPT !.pc = l]]
    BY <1>8 DEF CreateCommit, AfterCreate
  <2>3. anc'[count + 1] = AncestorsOf(P)
    BY <2>1
  <2>4. ASSUME NEW a \in Tip, Contains(head[c], a) PROVE a = 0 \/ a \in AncestorsOf(P)
    BY <2>1, <2>4 DEF CommitParents, AncestorsOf
  <2>5. ASSUME NEW v \in Worker PROVE Contains(remote, op[v].seen)'
    BY <2>1, <2>2 DEF Idle
  <2>6. ASSUME NEW v \in Worker, At(v, "push")'
        PROVE  Contains(head[Place[v]], op[v].tip)'
    <3>1. v # w /\ op'[v] = op[v]
      BY <2>2, <2>6 DEF Idle
    <3>2. Contains(head[Place[v]], op[v].tip) /\ op[v].tip \in Tip
      BY <2>6, <3>1
    <3>3. CASE Place[v] = c
      BY <2>1, <2>3, <2>4, <3>1, <3>2, <3>3
    <3>4. CASE Place[v] # c
      BY <2>1, <3>1, <3>2, <3>4
    <3>5. QED BY <3>3, <3>4
  <2>7. ASSUME NEW v \in Worker, At(v, "reset")'
        PROVE  ("reset" \in Ops /\ op[v].tip = head[Place[v]])'
    <3>1. v # w /\ op'[v] = op[v]
      BY <2>2, <2>7 DEF Idle
    <3>2. "reset" \in Ops /\ op[v].tip = head[Place[v]]
      BY <2>7, <3>1
    <3>3. Place[v] # c
      BY <3>1, <3>2
    <3>4. QED BY <2>1, <3>1, <3>2, <3>3
  <2>8. QED BY <2>5, <2>6, <2>7
<1>9. ASSUME NEW w \in Worker, CreateRefused(w) PROVE Steady'
  BY <1>9 DEF CreateRefused, objects, disk, ghosts, Idle, CanCreate
<1>10. ASSUME NEW w \in Worker, Cleanup(w) PROVE Steady'
  BY <1>10 DEF Cleanup, objects, ghosts, Idle
<1>11. ASSUME NEW w \in Worker, PullLocate(w) PROVE Steady'
  BY <1>11 DEF PullLocate, objects, disk, ghosts, Idle
<1>12. ASSUME NEW w \in Worker, PullFetch(w) PROVE Steady'
  BY <1>12 DEF PullFetch, objects, ghosts
<1>13. ASSUME NEW w \in Worker, PullAnalyse(w) PROVE Steady'
  <2>1. UNCHANGED <<count, anc, head, remote>>
    BY <1>13 DEF PullAnalyse, disk, objects
  <2>2. PICK o \in {Idle, [op[w] EXCEPT !.pc = AfterAnalysis(w)]} : op' = [op EXCEPT ![w] = o]
    BY <1>13 DEF PullAnalyse
  <2>3. o.pc \notin {"push", "reset"} /\ o.seen \in {0, op[w].seen}
    <3>1. CASE o = Idle
      BY <3>1 DEF Idle
    <3>2. CASE o = [op[w] EXCEPT !.pc = AfterAnalysis(w)]
      BY <3>2 DEF AfterAnalysis
    <3>3. QED BY <3>1, <3>2
  <2>4. QED BY <2>1, <2>2, <2>3
<1>14. ASSUME NEW w \in Worker, PullMerge(w) PROVE Steady'
  <2>1. UNCHANGED <<count, anc, head, remote>>
    BY <1>14 DEF PullMerge, disk, objects
  <2>2. PICK o \in {Idle, [op[w] EXCEPT !.pc = "tree"]} : op' = [op EXCEPT ![w] = o]
    BY <1>14 DEF PullMerge
  <2>3. o.pc \notin {"push", "reset"} /\ o.seen \in {0, op[w].seen}
    <3>1. CASE o = Idle
      BY <3>1 DEF Idle
    <3>2. CASE o = [op[w] EXCEPT !.pc = "tree"]
      BY <3>2
    <3>3. QED BY <3>1, <3>2
  <2>4. QED BY <2>1, <2>2, <2>3
<1>15. ASSUME NEW w \in Worker, PullMergeRefused(w) PROVE Steady'
  BY <1>15 DEF PullMergeRefused, objects, ghosts, Idle
<1>16. ASSUME NEW w \in Worker, PullBranch(w) PROVE Steady'
  <2>1. UNCHANGED <<count, anc, remote>>
    BY <1>16 DEF PullBranch, objects
  <2>2. PICK o \in {Idle, [op[w] EXCEPT !.pc = "checkout"]} : op' = [op EXCEPT ![w] = o]
    BY <1>16 DEF PullBranch
  <2>3. o.pc \notin {"push", "reset"} /\ o.seen \in {0, op[w].seen}
    <3>1. CASE o = Idle
      BY <3>1 DEF Idle
    <3>2. CASE o = [op[w] EXCEPT !.pc = "checkout"]
      BY <3>2
    <3>3. QED BY <3>1, <3>2
  <2>4. CASE head' = head
    BY <2>1, <2>2, <2>3, <2>4
  <2>5. CASE head[Place[w]] = 0 /\ head' = [head EXCEPT ![Place[w]] = op[w].seen]
    <3>1. ASSUME NEW v \in Worker PROVE Contains(remote, op[v].seen)'
      BY <2>1, <2>2, <2>3
    <3>2. ASSUME NEW v \in Worker, v # w, At(v, "push"), Place[v] = Place[w]
          PROVE  op[v].tip = 0
      <4>1. Contains(head[Place[v]], op[v].tip)
        BY <3>2
      <4>2. head[Place[v]] = 0
        BY <2>5, <3>2
      <4>3. QED BY <1>0, <4>1, <4>2 DEF Contains
    <3>3. ASSUME NEW v \in Worker, At(v, "push")'
          PROVE  Contains(head[Place[v]], op[v].tip)'
      <4>1. v # w /\ op'[v] = op[v] /\ At(v, "push")
        BY <2>2, <2>3, <3>3
      <4>2. CASE Place[v] = Place[w]
        BY <3>2, <4>1, <4>2 DEF Contains
      <4>3. CASE Place[v] # Place[w]
        <5>1. head'[Place[v]] = head[Place[v]] /\ Contains(head[Place[v]], op[v].tip)
          BY <2>5, <4>1, <4>3
        <5>2. QED BY <2>1, <4>1, <5>1 DEF Contains
      <4>4. QED BY <4>2, <4>3
    <3>4. ASSUME NEW v \in Worker, At(v, "reset")'
          PROVE  ("reset" \in Ops /\ op[v].tip = head[Place[v]])'
      BY <2>1, <2>2, <2>3, <2>5, <3>4
    <3>5. QED BY <3>1, <3>3, <3>4
  <2>6. QED BY <1>16, <2>4, <2>5 DEF PullBranch
<1>17. ASSUME NEW w \in Worker, PullCheckout(w) PROVE Steady'
  BY <1>17 DEF PullCheckout, objects, Idle
<1>18. ASSUME NEW w \in Worker, PushAdvertise(w) PROVE Steady'
  BY <1>18 DEF PushAdvertise, objects, disk, ghosts, Idle, CanPush
<1>19. ASSUME NEW w \in Worker, PushUpdate(w) PROVE Steady'
  <2>1. /\ UNCHANGED <<count, anc, head>>
        /\ op' = [op EXCEPT ![w] = Idle]
    BY <1>19 DEF PushUpdate, disk, objects
  <2>2. \/ remote' = remote
        \/ remote' = op[w].tip /\ Contains(op[w].tip, remote)
    <3>1. CASE remote = op[w].seen
      <4>1. remote' = op[w].tip
        BY <1>19, <3>1 DEF PushUpdate
      <4>2. Contains(op[w].tip, op[w].seen)
        BY <1>19 DEF PushUpdate, PushForward
      <4>3. QED BY <3>1, <4>1, <4>2
    <3>2. CASE remote # op[w].seen
      BY <1>19, <3>2 DEF PushUpdate
    <3>3. QED BY <3>1, <3>2
  <2>3. remote \in Tip /\ remote' \in Tip /\ op[w].tip \in Tip
    BY <2>2
  <2>4. ASSUME NEW v \in Worker PROVE Contains(remote', op[v].seen)
    <3>1. Contains(remote, op[v].seen) /\ op[v].seen \in Tip
      OBVIOUS
    <3>2. QED BY <1>0, <2>2, <2>3, <3>1
  <2>5. ASSUME NEW v \in Worker PROVE Contains(remote, op[v].seen)'
    BY <2>1, <2>2, <2>3, <2>4 DEF Idle
  <2>6. QED BY <2>1, <2>5 DEF Idle
<1>20. ASSUME NEW w \in Worker, ResetRead(w) PROVE Steady'
  BY <1>20 DEF ResetRead, objects, disk, ghosts, Idle
<1>21. ASSUME NEW w \in Worker, ResetSoft(w) PROVE Steady'
  BY <1>21 DEF ResetSoft, objects, ghosts, Idle
<1>22. ASSUME NEW w \in Worker, ResetFull(w) PROVE Steady'
  BY <1>22 DEF ResetFull, objects, Idle
<1>23. ASSUME NEW w \in Worker, Abort(w) PROVE Steady'
  BY <1>23 DEF Abort, objects, disk, ghosts, Idle
<1>24. CASE UNCHANGED vars
  BY <1>24 DEF vars, objects, disk, ghosts
<1>25. QED
  BY <1>1, <1>2, <1>3, <1>4, <1>5, <1>6, <1>7, <1>8, <1>9, <1>10, <1>11, <1>12,
     <1>13, <1>14, <1>15, <1>16, <1>17, <1>18, <1>19, <1>20, <1>21, <1>22, <1>23,
     <1>24 DEF Next, Stage, Commit, Pull, Push, Reset

LEMMA HistoryInit == Init => History!HInit
BY DEF Init, History!HInit, History!Tip, Tip

\* Every step makes one step of GitHistory, or leaves the branches alone.
LEMMA HistoryStep ==
  NoResetRace /\ HistoryInv /\ [Next]_vars => [History!HNext]_(History!hvars)
<1> SUFFICES ASSUME NoResetRace, HistoryInv, [Next]_vars
             PROVE  History!HNext \/ UNCHANGED <<count, parents, anc, head, remote>>
  BY DEF History!hvars
<1> USE PlaceAssumption DEF HistoryInv, RemoteInv, TypeInv, TypeOK, OpState, Tip, Known,
        Steady, At, Return
<1>1. ASSUME NEW w \in Worker, CreateCommit(w) PROVE History!HNext
  <2>1. CommitParents(w) \in SUBSET (1..count)
    BY DEF CommitParents
  <2>2. head[Place[w]] # 0 => head[Place[w]] \in CommitParents(w)
    BY <1>1 DEF CreateCommit, CanCreate, CommitParents
  <2>3. History!AncestorsOf(CommitParents(w)) = AncestorsOf(CommitParents(w))
    BY DEF AncestorsOf, History!AncestorsOf
  <2>4. History!Grow(Place[w])
    BY <1>1, <2>1, <2>2, <2>3 DEF CreateCommit, History!Grow
  <2>5. QED BY <2>4 DEF History!HNext
<1>2. ASSUME NEW w \in Worker, PullBranch(w)
      PROVE  History!HNext \/ UNCHANGED <<count, parents, anc, head, remote>>
  <2>1. UNCHANGED <<count, parents, anc, remote>>
    BY <1>2 DEF PullBranch, objects
  <2>2. CASE head[Place[w]] = 0 /\ op[w].seen # 0
    <3>1. head' = [head EXCEPT ![Place[w]] = op[w].seen]
      BY <1>2, <2>2 DEF PullBranch
    <3>2. op[w].seen \in 1..count /\ History!Contains(remote, op[w].seen)
      BY <2>2 DEF Contains, History!Contains
    <3>3. History!Adopt(Place[w])
      BY <2>1, <2>2, <3>1, <3>2 DEF History!Adopt
    <3>4. QED BY <3>3 DEF History!HNext
  <2>3. CASE ~(head[Place[w]] = 0 /\ op[w].seen # 0)
    BY <1>2, <2>1, <2>3 DEF PullBranch
  <2>4. QED BY <2>2, <2>3
<1>3. ASSUME NEW w \in Worker, PushUpdate(w)
      PROVE  History!HNext \/ UNCHANGED <<count, parents, anc, head, remote>>
  <2>1. UNCHANGED <<count, parents, anc, head>>
    BY <1>3 DEF PushUpdate, objects, disk
  <2>2. CASE remote = op[w].seen
    <3>1. remote' = op[w].tip
      BY <1>3, <2>2 DEF PushUpdate
    <3>2. op[w].tip \in 1..count
      BY <1>3 DEF PushUpdate, SomethingFetched
    <3>3. /\ History!Contains(head[Place[w]], op[w].tip)
          /\ History!Contains(op[w].tip, remote)
      BY <1>3, <2>2 DEF PushUpdate, PushForward, Contains, History!Contains
    <3>4. History!Publish(Place[w])
      BY <2>1, <3>1, <3>2, <3>3 DEF History!Publish
    <3>5. QED BY <3>4 DEF History!HNext
  <2>3. CASE remote # op[w].seen
    BY <1>3, <2>1, <2>3 DEF PushUpdate
  <2>4. QED BY <2>2, <2>3
<1>4. ASSUME NEW w \in Worker, ResetSoft(w) \/ ResetFull(w)
      PROVE  UNCHANGED <<count, parents, anc, head, remote>>
  <2>1. UNCHANGED <<count, parents, anc, remote>>
    BY <1>4 DEF ResetSoft, ResetFull, objects
  <2>2. head' = [head EXCEPT ![Place[w]] = op[w].tip]
    BY <1>4 DEF ResetSoft, ResetFull
  <2>3. op[w].tip = head[Place[w]]
    BY <1>4 DEF ResetSoft, ResetFull
  <2>4. QED BY <2>1, <2>2, <2>3
<1>5. ASSUME NEW w \in Worker,
             \/ StageLoad(w) \/ StageWrite(w) \/ CreateTree(w) \/ ReadHead(w)
             \/ ReadState(w) \/ ResolveHead(w) \/ ReadMergeHeads(w)
             \/ CreateRefused(w) \/ Cleanup(w) \/ PullLocate(w) \/ PullFetch(w)
             \/ PullAnalyse(w) \/ PullMerge(w) \/ PullMergeRefused(w)
             \/ PullCheckout(w) \/ PushAdvertise(w) \/ ResetRead(w) \/ Abort(w)
      PROVE  UNCHANGED <<count, parents, anc, head, remote>>
  BY <1>5 DEF StageLoad, StageWrite, CreateTree, ReadHead, ReadState, ResolveHead,
     ReadMergeHeads, CreateRefused, Cleanup, PullLocate, PullFetch, PullAnalyse,
     PullMerge, PullMergeRefused, PullCheckout, PushAdvertise, ResetRead, Abort,
     objects, disk
<1>6. CASE UNCHANGED vars
  BY <1>6 DEF vars, objects, disk
<1>7. QED
  BY <1>1, <1>2, <1>3, <1>4, <1>5, <1>6 DEF Next, Stage, Commit, Pull, Push, Reset

\* No branch, local or remote, ever loses a commit, for any number of clones,
\* workers and commits, as long as nobody resets a clone that another worker is
\* using: GitClient's steps implement GitHistory.
THEOREM BranchesKeepHistory == ASSUME NoResetRace PROVE Spec => KeepsHistory
<1>1. HistoryInv /\ [Next]_vars => HistoryInv'
  BY RemoteInvStep, SteadyStep DEF HistoryInv
<1>2. Init => HistoryInv
  BY RemoteInit, SteadyInit DEF HistoryInv
<1>3. HistoryInv /\ [Next]_vars => [History!HNext]_(History!hvars)
  BY HistoryStep
<1>4. QED BY HistoryInit, <1>1, <1>2, <1>3, PTL DEF Spec, KeepsHistory, History!HSpec

-----------------------------------------------------------------------------
(***************************************************************************)
(* Finishing a merge, for any number of clones with one worker each.       *)
(***************************************************************************)

\* What a Commit in progress has read of its clone's merge state is still so, and
\* what it removes MERGE_HEAD for is part of the branch.
MergeRead ==
  \A w \in Worker :
    /\ op[w].pc \in {"resolve", "heads", "create"} =>
         (op[w].merging <=> mergeHead[Place[w]] # {})
    /\ At(w, "create") /\ op[w].merging => op[w].heads = mergeHead[Place[w]]
    /\ At(w, "cleanup") => \A m \in mergeHead[Place[w]] : Contains(head[Place[w]], m)

MergeInv == RemoteInv /\ MergeRead

LEMMA MergeReadInit == Init => MergeRead
BY DEF Init, MergeRead, At, Idle

LEMMA MergeReadStep == Solo /\ MergeInv /\ [Next]_vars => MergeRead'
<1> SUFFICES ASSUME Solo, MergeInv, [Next]_vars PROVE MergeRead'
  OBVIOUS
<1>0. /\ \A d \in 0..count : anc'[d] = anc[d]
      /\ anc[0] = {}
  BY HistoryKept DEF MergeInv, RemoteInv, Descent
<1> USE <1>0, PlaceAssumption DEF Solo, MergeInv, RemoteInv, TypeInv,
        TypeOK, OpState, Tip, Known, MergeRead, Contains, At, Calls, Return, Goto
<1>1. ASSUME NEW w \in Worker, StageLoad(w) PROVE MergeRead'
  BY <1>1 DEF StageLoad, objects, disk, ghosts, Idle
<1>2. ASSUME NEW w \in Worker, StageWrite(w) PROVE MergeRead'
  BY <1>2 DEF StageWrite, objects, ghosts, Idle
<1>3. ASSUME NEW w \in Worker, CreateTree(w) PROVE MergeRead'
  <2>1. UNCHANGED <<count, anc, head, mergeHead>>
    BY <1>3 DEF CreateTree, disk, objects
  <2>2. CASE conflicted[Place[w]]
    <3>1. op' = [op EXCEPT ![w] = Idle]
      BY <1>3, <2>2 DEF CreateTree
    <3>2. QED BY <2>1, <3>1 DEF Idle
  <2>3. CASE ~conflicted[Place[w]]
    <3>1. op' = [op EXCEPT ![w] = [Idle EXCEPT !.pc = "head", !.tree = index[Place[w]]]]
      BY <1>3, <2>3 DEF CreateTree
    <3>2. QED BY <2>1, <3>1 DEF Idle
  <2>4. QED BY <2>2, <2>3
<1>4. ASSUME NEW w \in Worker, ReadHead(w) PROVE MergeRead'
  BY <1>4 DEF ReadHead, objects, disk, ghosts
<1>5. ASSUME NEW w \in Worker, ReadState(w) PROVE MergeRead'
  <2>1. PICK x \in BOOLEAN :
          /\ x <=> mergeHead[Place[w]] # {}
          /\ op' = [op EXCEPT ![w] = [@ EXCEPT !.pc = "resolve", !.merging = x]]
    <3>1. (mergeHead[Place[w]] # {}) \in BOOLEAN
      OBVIOUS
    <3>2. QED BY <1>5, <3>1, Zenon DEF ReadState
  <2>2. UNCHANGED <<count, anc, head, mergeHead>>
    BY <1>5 DEF ReadState, disk, objects
  <2>3. QED BY <2>1, <2>2
<1>6. ASSUME NEW w \in Worker, ResolveHead(w) PROVE MergeRead'
  BY <1>6 DEF ResolveHead, objects, disk, ghosts
<1>7. ASSUME NEW w \in Worker, ReadMergeHeads(w) PROVE MergeRead'
  BY <1>7 DEF ReadMergeHeads, objects, disk, ghosts
<1>8. ASSUME NEW w \in Worker, CreateCommit(w) PROVE MergeRead'
  <2> DEFINE c == Place[w]
             P == CommitParents(w)
  <2>1. /\ count + 1 \in Tip
        /\ anc' = [anc EXCEPT ![count + 1] = AncestorsOf(P)]
        /\ head' = [head EXCEPT ![c] = count + 1]
        /\ UNCHANGED mergeHead
    BY <1>8, BoundAssumption DEF CreateCommit
  <2>2. op' = [op EXCEPT ![w] = [Idle EXCEPT !.pc = AfterCreate(w)]]
    BY <1>8 DEF CreateCommit
  <2>3. AfterCreate(w) \in {"cleanup", "idle"}
    BY DEF AfterCreate
  <2>4. ASSUME NEW v \in Worker, v # w
        PROVE  /\ op'[v] = op[v]
               /\ head'[Place[v]] = head[Place[v]]
               /\ head[Place[v]] \in 0..count
    BY <2>1, <2>2, <2>4
  <2>5. ASSUME AfterCreate(w) = "cleanup", NEW m \in mergeHead[c]
        PROVE  Contains(head[c], m)'
    <3>1. op[w].heads = mergeHead[c]
      BY <1>8, <2>5 DEF CreateCommit, AfterCreate
    <3>2. m \in AncestorsOf(P)
      BY <2>5, <3>1 DEF CommitParents, AncestorsOf
    <3>3. QED BY <2>1, <3>2
  <2>6. ASSUME NEW v \in Worker
        PROVE  (/\ op[v].pc \in {"resolve", "heads", "create"} =>
                     (op[v].merging <=> mergeHead[Place[v]] # {})
                /\ At(v, "create") /\ op[v].merging => op[v].heads = mergeHead[Place[v]]
                /\ At(v, "cleanup") =>
                     \A m \in mergeHead[Place[v]] : Contains(head[Place[v]], m))'
    <3>1. CASE v = w
      BY <2>1, <2>2, <2>3, <2>5, <3>1 DEF Idle
    <3>2. CASE v # w
      BY <2>1, <2>4, <3>2
    <3>3. QED BY <3>1, <3>2
  <2>7. QED BY <2>6
<1>9. ASSUME NEW w \in Worker, CreateRefused(w) PROVE MergeRead'
  BY <1>9 DEF CreateRefused, objects, disk, ghosts, Idle, CanCreate
<1>10. ASSUME NEW w \in Worker, Cleanup(w) PROVE MergeRead'
  BY <1>10 DEF Cleanup, objects, ghosts, Idle
<1>11. ASSUME NEW w \in Worker, PullLocate(w) PROVE MergeRead'
  BY <1>11 DEF PullLocate, objects, disk, ghosts, Idle
<1>12. ASSUME NEW w \in Worker, PullFetch(w) PROVE MergeRead'
  BY <1>12 DEF PullFetch, objects, ghosts
<1>13. ASSUME NEW w \in Worker, PullAnalyse(w) PROVE MergeRead'
  <2>1. UNCHANGED <<count, anc, head, mergeHead>>
    BY <1>13 DEF PullAnalyse, disk, objects
  <2>2. PICK o \in {Idle, [op[w] EXCEPT !.pc = AfterAnalysis(w)]} : op' = [op EXCEPT ![w] = o]
    BY <1>13 DEF PullAnalyse
  <2>3. o.pc \in {"idle", "branch", "merge"}
    BY DEF Idle, AfterAnalysis
  <2>4. QED BY <2>1, <2>2, <2>3
<1>14. ASSUME NEW w \in Worker, PullMerge(w) PROVE MergeRead'
  BY <1>14 DEF PullMerge, objects, ghosts, Idle
<1>15. ASSUME NEW w \in Worker, PullMergeRefused(w) PROVE MergeRead'
  BY <1>15 DEF PullMergeRefused, objects, ghosts, Idle
<1>16. ASSUME NEW w \in Worker, PullBranch(w) PROVE MergeRead'
  <2>1. UNCHANGED <<count, anc, mergeHead>>
    BY <1>16 DEF PullBranch, objects
  <2>2. PICK o \in {Idle, [op[w] EXCEPT !.pc = "checkout"]} : op' = [op EXCEPT ![w] = o]
    BY <1>16 DEF PullBranch
  <2>3. o.pc \in {"idle", "checkout"}
    BY DEF Idle
  <2>4. \A v \in Worker \ {w} : head'[Place[v]] = head[Place[v]]
    BY <1>16 DEF PullBranch
  <2>5. QED BY <2>1, <2>2, <2>3, <2>4
<1>17. ASSUME NEW w \in Worker, PullCheckout(w) PROVE MergeRead'
  BY <1>17 DEF PullCheckout, objects, Idle
<1>18. ASSUME NEW w \in Worker, PushAdvertise(w) PROVE MergeRead'
  BY <1>18 DEF PushAdvertise, objects, disk, ghosts, Idle, CanPush
<1>19. ASSUME NEW w \in Worker, PushUpdate(w) PROVE MergeRead'
  BY <1>19 DEF PushUpdate, objects, disk, ghosts, Idle
<1>20. ASSUME NEW w \in Worker, ResetRead(w) PROVE MergeRead'
  BY <1>20 DEF ResetRead, objects, disk, ghosts, Idle
<1>21. ASSUME NEW w \in Worker, ResetSoft(w) PROVE MergeRead'
  BY <1>21 DEF ResetSoft, objects, ghosts, Idle
<1>22. ASSUME NEW w \in Worker, ResetFull(w) PROVE MergeRead'
  BY <1>22 DEF ResetFull, objects, Idle
<1>23. ASSUME NEW w \in Worker, Abort(w) PROVE MergeRead'
  BY <1>23 DEF Abort, objects, disk, ghosts, Idle
<1>24. CASE UNCHANGED vars
  BY <1>24 DEF vars, objects, disk, ghosts
<1>25. QED
  BY <1>1, <1>2, <1>3, <1>4, <1>5, <1>6, <1>7, <1>8, <1>9, <1>10, <1>11, <1>12,
     <1>13, <1>14, <1>15, <1>16, <1>17, <1>18, <1>19, <1>20, <1>21, <1>22, <1>23,
     <1>24 DEF Next, Stage, Commit, Pull, Push, Reset

\* With a working copy to itself, Commit removes MERGE_HEAD only after the commits
\* it lists have become part of the branch, so a crash anywhere in Commit loses no
\* merge.
THEOREM SoloCleanupSafe == ASSUME Solo PROVE Spec => []CleanupSafe
<1>1. Init => MergeInv
  BY RemoteInit, MergeReadInit DEF MergeInv
<1>2. MergeInv /\ [Next]_vars => MergeInv'
  <2>1. RemoteInv /\ [Next]_vars => RemoteInv'
    BY TypeStep, FetchedStep, KnownStep, DescentStep, RemoteStep DEF RemoteInv, TypeInv
  <2>2. QED BY <2>1, MergeReadStep DEF MergeInv
<1>3. MergeInv => CleanupSafe
  BY DEF MergeInv, MergeRead, CleanupSafe
<1>4. QED BY <1>1, <1>2, <1>3, PTL DEF Spec

\* A worker's step leaves alone what the other workers have read.
LEMMA OnlyOwnOp ==
  ASSUME TypeOK, NEW v \in Worker, NEW w \in Worker, v # w,
         Stage(v) \/ Commit(v) \/ Pull(v) \/ Push(v) \/ Reset(v) \/ Abort(v)
  PROVE  op'[w] = op[w]
<1> USE DEF TypeOK, Return, Goto
<1>1. CASE Stage(v)
  BY <1>1 DEF Stage, StageLoad, StageWrite
<1>2. CASE Commit(v)
  BY <1>2 DEF Commit, CreateTree, ReadHead, ReadState, ResolveHead, ReadMergeHeads,
     CreateCommit, CreateRefused, Cleanup
<1>3. CASE Pull(v)
  BY <1>3 DEF Pull, PullLocate, PullFetch, PullAnalyse, PullMerge, PullMergeRefused,
     PullBranch, PullCheckout
<1>4. CASE Push(v)
  BY <1>4 DEF Push, PushAdvertise, PushUpdate
<1>5. CASE Reset(v)
  BY <1>5 DEF Reset, ResetRead, ResetSoft, ResetFull
<1>6. CASE Abort(v)
  BY <1>6 DEF Abort
<1>7. QED BY <1>1, <1>2, <1>3, <1>4, <1>5, <1>6

\* With a working copy to itself, a commit made in state Merge has HEAD's merged
\* nodes among its parents.  With a second worker it may not: see the run merge_race.
THEOREM SoloMergeHasMergedNodes == ASSUME Solo PROVE Spec => MergeHasMergedNodes
<1> DEFINE Made == \A w \in Worker :
                     At(w, "create") /\ op'[w].pc = "cleanup" =>
                       /\ mergeHead[Place[w]] # {}
                       /\ mergeHead[Place[w]] \subseteq parents'[count']
<1>1. Init => MergeInv
  BY RemoteInit, MergeReadInit DEF MergeInv
<1>2. MergeInv /\ [Next]_vars => MergeInv'
  <2>1. RemoteInv /\ [Next]_vars => RemoteInv'
    BY TypeStep, FetchedStep, KnownStep, DescentStep, RemoteStep DEF RemoteInv, TypeInv
  <2>2. QED BY <2>1, MergeReadStep DEF MergeInv
<1>3. MergeInv /\ [Next]_vars => [Made]_vars
  <2> SUFFICES ASSUME MergeInv, [Next]_vars,
                      NEW w \in Worker, At(w, "create"), op'[w].pc = "cleanup"
               PROVE  /\ mergeHead[Place[w]] # {}
                      /\ mergeHead[Place[w]] \subseteq parents'[count']
    OBVIOUS
  <2>1. CreateCommit(w)
    <3> USE DEF MergeInv, RemoteInv, TypeInv, TypeOK, OpState, At, Calls
    <3>1. ~ UNCHANGED vars
      BY DEF vars
    <3>2. PICK v \in Worker :
            Stage(v) \/ Commit(v) \/ Pull(v) \/ Push(v) \/ Reset(v) \/ Abort(v)
      BY <3>1 DEF Next
    <3>3. v = w
      BY <3>2, OnlyOwnOp
    <3>4. ~CreateRefused(w) /\ ~Abort(w)
      BY DEF CreateRefused, Abort, Return, Idle
    <3>5. QED
      BY <3>2, <3>3, <3>4 DEF Stage, Commit, Pull, Push, Reset, StageLoad, StageWrite,
         CreateTree, ReadHead, ReadState, ResolveHead, ReadMergeHeads, Cleanup, PullLocate,
         PullFetch, PullAnalyse, PullMerge, PullMergeRefused, PullBranch, PullCheckout,
         PushAdvertise, PushUpdate, ResetRead, ResetSoft, ResetFull
  <2>2. op[w].merging
    <3>1. op'[w].pc = AfterCreate(w)
      BY <2>1 DEF CreateCommit, MergeInv, RemoteInv, TypeInv, TypeOK, Idle
    <3>2. QED BY <3>1 DEF AfterCreate
  <2>3. op[w].heads = mergeHead[Place[w]] /\ mergeHead[Place[w]] # {}
    BY <2>2 DEF MergeInv, MergeRead, At
  <2>4. parents'[count'] = CommitParents(w)
    BY <2>1, BoundAssumption DEF CreateCommit, MergeInv, RemoteInv, TypeInv, TypeOK, Tip
  <2>5. QED BY <2>3, <2>4 DEF CommitParents
<1>4. QED BY <1>1, <1>2, <1>3, PTL DEF Spec, MergeHasMergedNodes

-----------------------------------------------------------------------------
(***************************************************************************)
(* With one worker per clone, no commit takes back a change of its parents.*)
(***************************************************************************)

\* The trees only grow along the history, from nothing: this is what makes a
\* three-way merge keep both sides whichever common ancestor is its base.
Grown ==
  /\ tree[0] = {}
  /\ \A k \in 1..count : parents[k] \subseteq anc[k]
  /\ ~spoilt => \A k \in 0..count : \A a \in anc[k] : tree[a] \subseteq tree[k]

\* An index has what was checked in, and what is being merged.
Indexed ==
  ~spoilt => \A c \in Clone :
               /\ c \notin torn => tree[head[c]] \subseteq index[c]
               /\ \A m \in mergeHead[c] : tree[m] \subseteq index[c]

\* What a worker has read of its clone is still so.
Loaded ==
  \A w \in Worker :
    /\ op[w].pc \in {"stage", "head", "state", "resolve", "heads", "create"} =>
         op[w].tree = index[Place[w]]
    /\ At(w, "create") => op[w].heads \subseteq mergeHead[Place[w]]
    /\ At(w, "reset") => op[w].tip = head[Place[w]]

CoverInv == MergeInv /\ Grown /\ Indexed /\ Loaded

LEMMA CoverInit == Init => CoverInv
<1> SUFFICES ASSUME Init PROVE CoverInv
  OBVIOUS
<1>1. MergeInv
  BY RemoteInit, MergeReadInit DEF MergeInv
<1>2. 0 \in Tip
  BY BoundAssumption DEF Tip
<1>3. Grown
  BY <1>2, BoundAssumption DEF Init, Grown, Tip
<1>4. Indexed
  BY <1>2 DEF Init, Indexed
<1>5. Loaded
  BY DEF Init, Loaded, At, Idle
<1>6. QED BY <1>1, <1>3, <1>4, <1>5 DEF CoverInv

\* The steps that write a clone or a commit.
Writes(w) == \/ StageWrite(w) \/ CreateCommit(w) \/ Cleanup(w) \/ PullMerge(w)
             \/ PullMergeRefused(w) \/ PullBranch(w) \/ PullCheckout(w)
             \/ ResetSoft(w) \/ ResetFull(w)

LEMMA OnlyWritesWrite ==
  ASSUME NEW w \in Worker,
         Stage(w) \/ Commit(w) \/ Pull(w) \/ Push(w) \/ Reset(w) \/ Abort(w)
  PROVE  Writes(w) \/ UNCHANGED <<objects, head, index, mergeHead, ghosts>>
<1>1. CASE Stage(w)
  BY <1>1 DEF Stage, StageLoad, Writes, disk
<1>2. CASE Commit(w)
  BY <1>2 DEF Commit, CreateTree, ReadHead, ReadState, ResolveHead, ReadMergeHeads,
     CreateRefused, Writes, disk
<1>3. CASE Pull(w)
  BY <1>3 DEF Pull, PullLocate, PullFetch, PullAnalyse, Writes, disk
<1>4. CASE Push(w)
  BY <1>4 DEF Push, PushAdvertise, PushUpdate, disk
<1>5. CASE Reset(w)
  BY <1>5 DEF Reset, ResetRead, Writes, disk
<1>6. CASE Abort(w)
  BY <1>6 DEF Abort, disk
<1>7. QED BY <1>1, <1>2, <1>3, <1>4, <1>5, <1>6

\* ... and of the clones, only the one the worker works on.
LEMMA OnlyOwnClone ==
  ASSUME TypeOK, NEW w \in Worker, NEW c \in Clone, c # Place[w],
         Stage(w) \/ Commit(w) \/ Pull(w) \/ Push(w) \/ Reset(w) \/ Abort(w)
  PROVE  /\ head'[c] = head[c] /\ index'[c] = index[c]
         /\ mergeHead'[c] = mergeHead[c] /\ (c \in torn' <=> c \in torn)
<1> USE PlaceAssumption DEF TypeOK
<1>1. CASE UNCHANGED <<objects, head, index, mergeHead, ghosts>>
  BY <1>1 DEF ghosts
<1>2. CASE StageWrite(w)
  BY <1>2 DEF StageWrite, ghosts
<1>3. CASE CreateCommit(w)
  BY <1>3 DEF CreateCommit
<1>4. CASE Cleanup(w)
  BY <1>4 DEF Cleanup, ghosts
<1>5. CASE PullMerge(w)
  BY <1>5 DEF PullMerge, ghosts
<1>6. CASE PullMergeRefused(w)
  BY <1>6 DEF PullMergeRefused, ghosts
<1>7. CASE PullBranch(w)
  BY <1>7 DEF PullBranch
<1>8. CASE PullCheckout(w)
  BY <1>8 DEF PullCheckout
<1>9. CASE ResetSoft(w)
  BY <1>9 DEF ResetSoft, ghosts
<1>10. CASE ResetFull(w)
  BY <1>10 DEF ResetFull
<1>11. QED
  BY <1>1, <1>2, <1>3, <1>4, <1>5, <1>6, <1>7, <1>8, <1>9, <1>10, OnlyWritesWrite
     DEF Writes

\* Commits are only made by CreateCommit.
LEMMA OnlyCommitsAreMade ==
  ASSUME NEW w \in Worker,
         Stage(w) \/ Commit(w) \/ Pull(w) \/ Push(w) \/ Reset(w) \/ Abort(w),
         ~CreateCommit(w)
  PROVE  UNCHANGED <<count, parents, tree, anc, spoilt>>
BY OnlyWritesWrite DEF Writes, StageWrite, Cleanup, PullMerge, PullMergeRefused,
   PullBranch, PullCheckout, ResetSoft, ResetFull, objects, ghosts

\* What a commit is made of: with a worker to itself, an index that has the branch
\* and the merged nodes.
LEMMA CommitCovers ==
  ASSUME CoverInv, NEW w \in Worker, CreateCommit(w), ~spoilt'
  PROVE  \A a \in AncestorsOf(CommitParents(w)) : tree[a] \subseteq op[w].tree
<1> DEFINE c == Place[w]
<1> USE PlaceAssumption DEF CoverInv, MergeInv, RemoteInv, TypeInv, TypeOK
<1>1. c \in Clone /\ c \notin torn /\ ~spoilt
  BY DEF CreateCommit
<1>2. op[w].tip = head[c] /\ op[w].tree = index[c] /\ op[w].heads \subseteq mergeHead[c]
  BY DEF CreateCommit, CanCreate, Loaded, At
<1>3. \A p \in CommitParents(w) : p \in 0..count /\ tree[p] \subseteq op[w].tree
  BY <1>1, <1>2 DEF CommitParents, Indexed, Known
<1>4. \A p \in CommitParents(w) : \A a \in anc[p] : tree[a] \subseteq tree[p]
  BY <1>1, <1>3 DEF Grown
<1>5. QED BY <1>3, <1>4 DEF AncestorsOf

LEMMA GrownStep == CoverInv /\ [Next]_vars => Grown'
<1> SUFFICES ASSUME CoverInv, [Next]_vars PROVE Grown'
  OBVIOUS
<1>1. ASSUME NEW w \in Worker, CreateCommit(w) PROVE Grown'
  <2> DEFINE k == count + 1
             P == CommitParents(w)
  <2> USE DEF CoverInv, MergeInv, RemoteInv, TypeInv, TypeOK
  <2>1. count \in Nat /\ k \in Tip /\ k \notin 0..count
    BY <1>1, BoundAssumption DEF CreateCommit, Tip
  <2>2. /\ count' = k /\ parents'[k] = P /\ anc'[k] = AncestorsOf(P)
        /\ tree'[k] = op[w].tree
    BY <1>1, <2>1 DEF CreateCommit
  <2>3. \A d \in 0..count : /\ d \in Tip /\ parents'[d] = parents[d]
                            /\ anc'[d] = anc[d] /\ tree'[d] = tree[d]
    BY <1>1, <2>1, BoundAssumption DEF CreateCommit, Tip
  <2>4. (0..count') = (0..count) \cup {k}
    BY <2>1, <2>2
  <2>5. \A d \in 0..count : anc[d] \subseteq 1..count
    BY <2>3 DEF Descent
  <2>6. AncestorsOf(P) \subseteq 0..count
    <3>1. P \subseteq 0..count
      BY <2>1 DEF CommitParents, Known
    <3>2. QED BY <2>5, <3>1 DEF AncestorsOf
  <2>7. tree'[0] = {}
    BY <2>1, <2>3 DEF Grown
  <2>8. \A d \in 1..count' : parents'[d] \subseteq anc'[d]
    <3>1. \A d \in 1..count : parents'[d] \subseteq anc'[d]
      BY <2>3 DEF Grown
    <3>2. parents'[k] \subseteq anc'[k]
      BY <2>2 DEF AncestorsOf
    <3>3. QED BY <2>1, <2>2, <3>1, <3>2
  <2>9. ASSUME ~spoilt', NEW d \in 0..count', NEW a \in anc'[d]
        PROVE  tree'[a] \subseteq tree'[d]
    <3>1. CASE d = k
      BY <1>1, <2>2, <2>3, <2>6, <2>9, <3>1, CommitCovers
    <3>2. CASE d \in 0..count
      <4>1. ~spoilt
        BY <1>1, <2>9 DEF CreateCommit
      <4>2. a \in 0..count /\ a \in anc[d]
        BY <2>3, <2>5, <2>9, <3>2
      <4>3. QED BY <2>3, <3>2, <4>1, <4>2 DEF Grown
    <3>3. QED BY <2>4, <2>9, <3>1, <3>2
  <2>10. QED BY <2>7, <2>8, <2>9 DEF Grown
<1>2. CASE UNCHANGED <<count, parents, tree, anc, spoilt>>
  BY <1>2 DEF CoverInv, Grown
<1>3. CASE UNCHANGED vars
  BY <1>2, <1>3 DEF vars, objects, ghosts
<1>4. QED BY <1>1, <1>2, <1>3, OnlyCommitsAreMade DEF Next

\* A three-way merge keeps both sides, as every common ancestor is part of both.
LEMMA MergeCovers ==
  ASSUME CoverInv, ~spoilt, NEW o \in 0..count, NEW t \in 0..count,
         NEW b \in MergeBases(o, t)
  PROVE  tree[o] \cup tree[t] \subseteq MergedTree(o, t, b)
<1>1. b = 0 \/ b \in Common(o, t)
  BY DEF MergeBases
<1>2. tree[b] \subseteq tree[o] /\ tree[b] \subseteq tree[t]
  BY <1>1 DEF Common, CoverInv, Grown
<1>3. QED BY <1>2 DEF MergedTree

LEMMA IndexedStep == CoverInv /\ [Next]_vars => Indexed'
<1> SUFFICES ASSUME CoverInv, [Next]_vars, ~spoilt', NEW c \in Clone
             PROVE  /\ c \notin torn' => tree'[head'[c]] \subseteq index'[c]
                    /\ \A m \in mergeHead'[c] : tree'[m] \subseteq index'[c]
  BY DEF Indexed
<1> USE PlaceAssumption DEF CoverInv, MergeInv, RemoteInv, TypeInv, TypeOK
<1> DEFINE Had == /\ c \notin torn => tree[head[c]] \subseteq index[c]
                  /\ \A m \in mergeHead[c] : tree[m] \subseteq index[c]
           Has == /\ c \notin torn' => tree'[head'[c]] \subseteq index'[c]
                  /\ \A m \in mergeHead'[c] : tree'[m] \subseteq index'[c]
<1>1. CASE UNCHANGED vars
  BY <1>1 DEF vars, objects, disk, ghosts, Indexed
<1>2. ASSUME NEW w \in Worker,
             Stage(w) \/ Commit(w) \/ Pull(w) \/ Push(w) \/ Reset(w) \/ Abort(w)
      PROVE  Has
  <2>1. ~spoilt /\ \A d \in 0..count : tree'[d] = tree[d]
    <3>1. CASE CreateCommit(w)
      BY <3>1, BoundAssumption DEF CreateCommit, Tip
    <3>2. CASE ~CreateCommit(w)
      BY <1>2, <3>2, OnlyCommitsAreMade
    <3>3. QED BY <3>1, <3>2
  <2>2. Had /\ head[c] \in 0..count /\ mergeHead[c] \subseteq 0..count
    BY <2>1 DEF Indexed, Known
  <2>3. CASE c # Place[w]
    BY <1>2, <2>1, <2>2, <2>3, OnlyOwnClone
  <2>4. CASE c = Place[w]
    <3> USE <2>1, <2>2, <2>4
    <3>1. CASE UNCHANGED <<objects, head, index, mergeHead, ghosts>>
      BY <3>1 DEF ghosts
    <3>2. CASE StageWrite(w)
      <4>1. index[c] \subseteq index'[c]
        BY <3>2 DEF StageWrite, Loaded, At
      <4>2. UNCHANGED <<head, mergeHead, torn>>
        BY <3>2 DEF StageWrite, ghosts
      <4>3. QED BY <4>1, <4>2
    <3>3. CASE CreateCommit(w)
      <4>1. tree'[head'[c]] = index[c]
        BY <3>3, BoundAssumption DEF CreateCommit, Loaded, At, Tip
      <4>2. UNCHANGED <<index, mergeHead>>
        BY <3>3 DEF CreateCommit
      <4>3. QED BY <4>1, <4>2
    <3>4. CASE Cleanup(w)
      BY <3>4 DEF Cleanup, ghosts
    <3>5. CASE PullMerge(w)
      <4>1. PICK b \in MergeBases(head[c], fetchHead[c]) :
              index'[c] = MergedTree(head[c], fetchHead[c], b)
        BY <3>5 DEF PullMerge
      <4>2. mergeHead'[c] = {fetchHead[c]} /\ fetchHead[c] \in 0..count
        BY <3>5 DEF PullMerge, Known
      <4>3. UNCHANGED <<head, torn>>
        BY <3>5 DEF PullMerge, ghosts
      <4>4. tree[head[c]] \cup tree[fetchHead[c]] \subseteq index'[c]
        BY <4>1, <4>2, MergeCovers
      <4>5. QED BY <4>2, <4>3, <4>4
    <3>6. CASE PullMergeRefused(w)
      BY <3>6 DEF PullMergeRefused, ghosts
    <3>7. CASE PullBranch(w)
      BY <3>7 DEF PullBranch
    <3>8. CASE PullCheckout(w)
      <4>1. index'[c] = index[c] \cup tree[head[c]]
        BY <3>8 DEF PullCheckout
      <4>2. UNCHANGED <<head, mergeHead>>
        BY <3>8 DEF PullCheckout
      <4>3. QED BY <4>1, <4>2
    <3>9. CASE ResetSoft(w)
      BY <3>9 DEF ResetSoft, Loaded, ghosts
    <3>10. CASE ResetFull(w)
      <4>1. index'[c] = tree[op[w].tip] /\ head'[c] = op[w].tip /\ mergeHead'[c] = {}
        BY <3>10 DEF ResetFull
      <4>2. op[w].tip \in 0..count
        BY DEF Known
      <4>3. QED BY <4>1, <4>2
    <3>11. QED
      BY <1>2, <3>1, <3>2, <3>3, <3>4, <3>5, <3>6, <3>7, <3>8, <3>9, <3>10,
         OnlyWritesWrite DEF Writes
  <2>5. QED BY <2>3, <2>4
<1>3. QED BY <1>1, <1>2 DEF Next

\* What one worker has read, v's part of Loaded.
LoadedBy(v) ==
  /\ op[v].pc \in {"stage", "head", "state", "resolve", "heads", "create"} =>
       op[v].tree = index[Place[v]]
  /\ At(v, "create") => op[v].heads \subseteq mergeHead[Place[v]]
  /\ At(v, "reset") => op[v].tip = head[Place[v]]

LEMMA OwnLoaded ==
  ASSUME TypeOK, NEW w \in Worker, LoadedBy(w),
         Stage(w) \/ Commit(w) \/ Pull(w) \/ Push(w) \/ Reset(w) \/ Abort(w)
  PROVE  LoadedBy(w)'
<1> USE PlaceAssumption DEF TypeOK, OpState, LoadedBy, At, Calls, Return, Goto, Idle
<1>1. CASE StageLoad(w)
  BY <1>1 DEF StageLoad, disk
<1>2. CASE StageWrite(w) \/ CreateRefused(w) \/ Cleanup(w) \/ Abort(w)
  <2>1. op'[w].pc = "idle"
    BY <1>2 DEF StageWrite, CreateRefused, Cleanup, Abort
  <2>2. QED BY <2>1
<1>3. CASE CreateTree(w)
  <2>1. UNCHANGED index
    BY <1>3 DEF CreateTree, disk
  <2>2. CASE conflicted[Place[w]]
    BY <1>3, <2>2 DEF CreateTree
  <2>3. CASE ~conflicted[Place[w]]
    <3> DEFINE o == [Idle EXCEPT !.pc = "head", !.tree = index[Place[w]]]
    <3>1. op' = [op EXCEPT ![w] = o]
      BY <1>3, <2>3 DEF CreateTree
    <3>2. o.pc = "head" /\ o.tree = index[Place[w]]
      OBVIOUS
    <3> HIDE DEF o
    <3>3. op'[w] = o
      BY <3>1
    <3>4. QED BY <2>1, <3>2, <3>3
  <2>4. QED BY <2>2, <2>3
<1>4. CASE ReadHead(w)
  <2>1. op'[w].pc = "state" /\ op'[w].tree = op[w].tree /\ UNCHANGED index
    BY <1>4 DEF ReadHead, disk
  <2>2. QED BY <1>4, <2>1 DEF ReadHead
<1>5. CASE ReadState(w)
  <2>1. op'[w].pc = "resolve" /\ op'[w].tree = op[w].tree /\ UNCHANGED index
    BY <1>5 DEF ReadState, disk
  <2>2. QED BY <1>5, <2>1 DEF ReadState
<1>6. CASE ResolveHead(w)
  BY <1>6 DEF ResolveHead, disk
<1>7. CASE ReadMergeHeads(w)
  BY <1>7 DEF ReadMergeHeads, disk
<1>8. CASE CreateCommit(w)
  BY <1>8 DEF CreateCommit, AfterCreate
<1>9. CASE PullLocate(w) \/ PullFetch(w) \/ PullMerge(w) \/ PullMergeRefused(w)
  <2>1. op'[w].pc \in {"fetch", "analyse", "tree", "idle"}
    <3>1. CASE PullLocate(w)
      BY <3>1 DEF PullLocate
    <3>2. CASE PullFetch(w)
      BY <3>2 DEF PullFetch
    <3>3. CASE PullMerge(w)
      BY <3>3 DEF PullMerge
    <3>4. CASE PullMergeRefused(w)
      BY <3>4 DEF PullMergeRefused
    <3>5. QED BY <1>9, <3>1, <3>2, <3>3, <3>4
  <2>2. QED BY <2>1
<1>10. CASE PullAnalyse(w)
  <2>1. op'[w].pc \in {"idle", "branch", "merge"}
    BY <1>10 DEF PullAnalyse, AfterAnalysis
  <2>2. QED BY <2>1
<1>11. CASE PullBranch(w) \/ PullCheckout(w)
  BY <1>11 DEF PullBranch, PullCheckout
<1>12. CASE PushAdvertise(w)
  BY <1>12 DEF PushAdvertise
<1>13. CASE PushUpdate(w) \/ ResetSoft(w) \/ ResetFull(w)
  <2>1. op'[w].pc = "idle"
    BY <1>13 DEF PushUpdate, ResetSoft, ResetFull
  <2>2. QED BY <2>1
<1>14. CASE ResetRead(w)
  BY <1>14 DEF ResetRead, disk
<1>15. QED
  BY <1>1, <1>2, <1>3, <1>4, <1>5, <1>6, <1>7, <1>8, <1>9, <1>10, <1>11, <1>12,
     <1>13, <1>14 DEF Stage, Commit, Pull, Push, Reset

LEMMA LoadedStep == Solo /\ CoverInv /\ [Next]_vars => Loaded'
<1> SUFFICES ASSUME Solo, CoverInv, [Next]_vars, NEW v \in Worker PROVE LoadedBy(v)'
  BY DEF Loaded, LoadedBy
<1>1. TypeOK /\ LoadedBy(v)
  BY DEF CoverInv, MergeInv, RemoteInv, TypeInv, Loaded, LoadedBy
<1>2. CASE UNCHANGED vars
  BY <1>1, <1>2 DEF vars, disk, LoadedBy, At
<1>3. ASSUME NEW w \in Worker,
             Stage(w) \/ Commit(w) \/ Pull(w) \/ Push(w) \/ Reset(w) \/ Abort(w)
      PROVE  LoadedBy(v)'
  <2>1. CASE v = w
    BY <1>1, <1>3, <2>1, OwnLoaded
  <2>2. CASE v # w
    <3>1. Place[v] \in Clone /\ Place[v] # Place[w] /\ op'[v] = op[v]
      BY <1>1, <1>3, <2>2, PlaceAssumption, OnlyOwnOp DEF Solo
    <3>2. QED BY <1>1, <1>3, <3>1, OnlyOwnClone DEF LoadedBy, At
  <2>3. QED BY <2>1, <2>2
<1>4. QED BY <1>2, <1>3 DEF Next

LEMMA CoverStep == Solo /\ CoverInv /\ [Next]_vars => CoverInv'
<1>1. RemoteInv /\ [Next]_vars => RemoteInv'
  BY TypeStep, FetchedStep, KnownStep, DescentStep, RemoteStep DEF RemoteInv, TypeInv
<1>2. QED
  BY <1>1, MergeReadStep, GrownStep, IndexedStep, LoadedStep DEF CoverInv, MergeInv

\* With a working copy to itself, no Commit drops a change one of its parents has:
\* the tree it wrote before it looked at HEAD and MERGE_HEAD still fits them.
THEOREM SoloCoversParents == ASSUME Solo PROVE Spec => []CoversParents
<1>1. CoverInv => CoversParents
  <2> SUFFICES ASSUME CoverInv, ~spoilt, NEW k \in 1..count, NEW p \in parents[k]
               PROVE  tree[p] \subseteq tree[k]
    BY DEF CoversParents
  <2>1. k \in 0..count
    BY DEF CoverInv, MergeInv, RemoteInv, TypeInv, TypeOK, Tip
  <2>2. QED BY <2>1 DEF CoverInv, Grown
<1>2. QED BY <1>1, CoverInit, CoverStep, PTL DEF Spec

\* With a working copy to itself, the index of a clone that was checked out has
\* everything its branch has.
THEOREM SoloIndexCoversHead == ASSUME Solo PROVE Spec => []IndexCoversHead
<1>1. CoverInv => IndexCoversHead
  BY DEF CoverInv, Indexed, IndexCoversHead
<1>2. QED BY <1>1, CoverInit, CoverStep, PTL DEF Spec
=============================================================================
