-------------------------- MODULE StageIndex_proofs --------------------------
(***************************************************************************)
(* Theorems about StageIndex, for any paths, order of the index, contents  *)
(* and sides of a conflict.                                                *)
(***************************************************************************)
EXTENDS StageIndex, PathLemmas, FiniteSetTheorems

EntryOf == [path : Path, stage : 0..3, blob : Blob]

\* An index, or tree, has one entry of a path and stage.
IndexOK(I) == /\ I \subseteq EntryOf
              /\ \A e, f \in I : e.path = f.path /\ e.stage = f.stage => e = f
              /\ IsFiniteSet(I)
Apart(I) == \A e, f \in I : e.stage = 0 /\ f.stage = 0 => ~IsStrictPrefix(e.path, f.path)
NoConflict(I) == \A e \in I : e.stage = 0

\* What the operations keep: an index that a tree can be written of, and a tree of
\* HEAD that is one.
StageInv == /\ work \in [Path -> Kind] /\ WorkOK(work)
            /\ IndexOK(index) /\ Apart(index)
            /\ IndexOK(head) /\ NoConflict(head)
            /\ last.op \in Op /\ last.path \in Path

-----------------------------------------------------------------------------
(***************************************************************************)
(* Paths and entries.                                                      *)
(***************************************************************************)

LEMMA PathsMean ==
  /\ Path \subseteq Seq(Name)
  /\ Paths[1] \in Path
  /\ \A p \in Path : Position[p] \in Nat /\ Position[p] \in DOMAIN Paths
                     /\ Paths[Position[p]] = p
<1>1. DOMAIN Paths = 1..Len(Paths) /\ Len(Paths) \in Nat /\ Len(Paths) # 0
  BY PathsAssumption, LenProperties, EmptySeq
<1>2. \A k \in DOMAIN Paths : Paths[k] \in Seq(Name) /\ k \in Nat
  BY <1>1, PathsAssumption, ElementOfSeq
<1>3. Path = {Paths[k] : k \in DOMAIN Paths}
  BY DEF Path, ToSet
<1>4. ASSUME NEW p \in Path
      PROVE  Position[p] \in DOMAIN Paths /\ Paths[Position[p]] = p
  <2>1. Position[p] = CHOOSE k \in DOMAIN Paths : Paths[k] = p
    BY <1>4 DEF Position
  <2>2. \E k \in DOMAIN Paths : Paths[k] = p
    BY <1>3, <1>4
  <2>3. QED BY <2>1, <2>2
<1>5. QED BY <1>1, <1>2, <1>3, <1>4

\* Paths in one position are one path, and a directory comes before what is in it.
LEMMA PathOrder ==
  ASSUME NEW p \in Path, NEW q \in Path
  PROVE  /\ Position[p] = Position[q] => p = q
         /\ IsStrictPrefix(p, q) => Position[p] < Position[q]
<1>1. /\ Position[p] \in DOMAIN Paths /\ Paths[Position[p]] = p
      /\ Position[q] \in DOMAIN Paths /\ Paths[Position[q]] = q
  BY PathsMean
<1>2. IsStrictPrefix(Paths[Position[p]], Paths[Position[q]]) => Position[p] < Position[q]
  BY <1>1, PathsAssumption, Zenon DEF IsOrder
<1>3. QED BY <1>1, <1>2, Zenon

\* The same of their places in the index.
LEMMA PlaceOrder ==
  ASSUME NEW p \in Path, NEW q \in Path
  PROVE  /\ Place[p] \in Nat
         /\ Place[p] = Place[q] => p = q
         /\ IsStrictPrefix(p, q) => Place[p] < Place[q]
<1>1. Path = {Listed[k] : k \in DOMAIN Listed}
  BY ListedAssumption DEF ToSet
<1>2. ASSUME NEW r \in Path
      PROVE  Place[r] \in DOMAIN Listed /\ Listed[Place[r]] = r
  <2>1. Place[r] = CHOOSE k \in DOMAIN Listed : Listed[k] = r
    BY <1>2 DEF Place
  <2>2. \E k \in DOMAIN Listed : Listed[k] = r
    BY <1>1, <1>2
  <2>3. QED BY <2>1, <2>2
<1>3. DOMAIN Listed \subseteq Nat
  BY ListedAssumption, LenProperties
<1>4. IsStrictPrefix(Listed[Place[p]], Listed[Place[q]]) => Place[p] < Place[q]
  BY <1>2, ListedAssumption, Zenon DEF IsOrder
<1>5. Listed[Place[p]] = p /\ Listed[Place[q]] = q /\ Place[p] \in Nat
  BY <1>2, <1>3
<1>6. QED BY <1>4, <1>5, Zenon

LEMMA EntryMeans ==
  ASSUME NEW p \in Path, NEW s \in 0..3, NEW b \in Blob
  PROVE  /\ Entry(p, s, b) \in EntryOf
         /\ Entry(p, s, b).path = p /\ Entry(p, s, b).stage = s /\ Entry(p, s, b).blob = b
BY DEF Entry, EntryOf

\* The first entry the walk of Stage does not step over is the least of them.
LEMMA ComparedIsFirst ==
  ASSUME IndexOK(index), NEW p \in Path, NotBefore(p) # {}
  PROVE  /\ Compared(p) \in NotBefore(p)
         /\ \A f \in NotBefore(p) : f = Compared(p) \/ Sooner(Compared(p), f)
<1> DEFINE N == NotBefore(p)
           Places == {Place[e.path] : e \in N}
<1>1. \A e \in N : /\ e \in index /\ e.path \in Path /\ e.stage \in Nat
                   /\ Place[e.path] \in Nat
  BY PlaceOrder DEF NotBefore, IndexOK, EntryOf
<1>2. Places \in SUBSET Nat /\ Places # {}
  BY <1>1
<1>3. PICK m \in Places : \A k \in Places : m <= k
  BY <1>2, LeastNatural
<1> DEFINE Stages == {e.stage : e \in {x \in N : Place[x.path] = m}}
<1>4. Stages \in SUBSET Nat /\ Stages # {}
  BY <1>1
<1>5. PICK s \in Stages : \A k \in Stages : s <= k
  BY <1>4, LeastNatural
<1>6. PICK e \in N : Place[e.path] = m /\ e.stage = s
  OBVIOUS
<1>7. ASSUME NEW f \in N PROVE f = e \/ Sooner(e, f)
  <2>1. Place[f.path] \in Nat /\ m \in Nat /\ m <= Place[f.path]
    BY <1>1, <1>2, <1>3
  <2>2. CASE Place[f.path] # m
    BY <1>6, <2>1, <2>2 DEF Sooner
  <2>3. CASE Place[f.path] = m
    <3>1. f.path = e.path
      BY <1>1, <1>6, <2>3, PlaceOrder
    <3>2. f.stage \in Stages /\ s <= f.stage
      BY <1>5, <2>3
    <3>3. f.stage = e.stage => f = e
      BY <1>1, <3>1 DEF IndexOK
    <3>4. QED BY <1>1, <1>6, <3>1, <3>2, <3>3 DEF Sooner
  <2>4. QED BY <2>2, <2>3
<1>8. QED BY <1>7 DEF Compared

\* It is of the path itself, when the index has that and does not hide it.
LEMMA ComparedIsOwn ==
  ASSUME IndexOK(index), NEW p \in Path, NEW e \in At(p), ~Hidden(p)
  PROVE  NotBefore(p) # {} /\ Compared(p).path = p
<1>1. e \in index /\ e.path = p /\ Position[p] \in Nat
  BY PathsMean DEF At
<1>2. e \in NotBefore(p)
  BY <1>1 DEF NotBefore
<1>3. Compared(p) \in NotBefore(p) /\ (e = Compared(p) \/ Sooner(Compared(p), e))
  BY <1>2, ComparedIsFirst
<1>4. /\ Compared(p) \in index /\ Compared(p).path \in Path
      /\ Position[Compared(p).path] \in Nat /\ Position[Compared(p).path] >= Position[p]
  BY <1>3, PathsMean DEF NotBefore, IndexOK, EntryOf
<1>5. CASE e = Compared(p)
  BY <1>1, <1>2, <1>5
<1>6. CASE Sooner(Compared(p), e)
  <2>1. ~(Position[p] < Position[Compared(p).path])
    BY <1>4, <1>6 DEF Hidden
  <2>2. Position[Compared(p).path] = Position[p]
    BY <1>1, <1>4, <2>1
  <2>3. QED BY <1>2, <1>4, <2>2, PathOrder
<1>7. QED BY <1>3, <1>5, <1>6

\* What is below a path comes after it in either order.
LEMMA BelowIsLater ==
  ASSUME IndexOK(index), NEW p \in Path, NEW e \in At(p), NEW f \in Below(p)
  PROVE  e \in NotBefore(p) /\ Sooner(e, f) /\ ~Sooner(f, e)
<1>1. /\ e \in index /\ e.path = p /\ f \in index /\ f.path \in Path
      /\ IsStrictPrefix(p, f.path) /\ f.path # p
  BY DEF At, Below, IsStrictPrefix, IndexOK, EntryOf
<1>2. Place[p] < Place[f.path] /\ Place[p] \in Nat /\ Place[f.path] \in Nat
  BY <1>1, PlaceOrder
<1>3. Position[p] \in Nat
  BY PathsMean
<1>4. QED BY <1>1, <1>2, <1>3 DEF Sooner, NotBefore

\* Fewer entries, and one more for a path that those in its way have left.
LEMMA Fewer ==
  ASSUME NEW I, IndexOK(I), NEW J, J \subseteq I
  PROVE  IndexOK(J) /\ (Apart(I) => Apart(J))
<1>1. IsFiniteSet(J)
  BY FS_Subset DEF IndexOK
<1>2. QED BY <1>1 DEF IndexOK, Apart

LEMMA OneAdded ==
  ASSUME IndexOK(index), Apart(index), NEW p \in Path, NEW b \in Blob,
         NEW J, J \subseteq Beside(p)
  PROVE  IndexOK(J \cup {Entry(p, 0, b)}) /\ Apart(J \cup {Entry(p, 0, b)})
<1> DEFINE new == Entry(p, 0, b)
<1>1. new \in EntryOf /\ new.path = p /\ new.stage = 0
  BY EntryMeans
<1>2. \A e \in J : e \in index /\ (e.stage # 0 \/ ~(IsPrefix(p, e.path) \/ IsPrefix(e.path, p)))
  BY DEF Beside
<1> HIDE DEF new
<1>3. IndexOK(J) /\ Apart(J)
  BY <1>2, Fewer
<1>4. IsFiniteSet(J \cup {new})
  BY <1>3, FS_AddElement DEF IndexOK
<1>5. IsPrefix(p, p) /\ p \in Seq(Name)
  BY PathsMean, PrefixReflexive
<1>6. ASSUME NEW e \in J PROVE ~(e.path = p /\ e.stage = 0)
  BY <1>2, <1>5
<1>7. IndexOK(J \cup {new})
  BY <1>1, <1>3, <1>4, <1>6 DEF IndexOK
<1>8. ~IsStrictPrefix(p, p)
  BY DEF IsStrictPrefix
<1>9. Apart(J \cup {new})
  BY <1>1, <1>2, <1>3, <1>8 DEF Apart, IsStrictPrefix
<1>10. QED BY <1>7, <1>9 DEF new

-----------------------------------------------------------------------------
(***************************************************************************)
(* The steps.                                                              *)
(***************************************************************************)

\* A removed directory leaves nothing below it.
LEMMA WorkCleared ==
  ASSUME WorkOK(work), work \in [Path -> Kind], NEW p \in Path,
         work' = [q \in Path |-> IF IsPrefix(p, q) THEN None ELSE work[q]]
  PROVE  WorkOK(work') /\ work' \in [Path -> Kind]
<1>1. work' \in [Path -> Kind]
  BY DEF Kind
<1>2. ASSUME NEW a \in Path, NEW b \in Path, IsStrictPrefix(a, b), work'[b] # None
      PROVE  work'[a] = Folder
  <2>1. ~IsPrefix(p, b) /\ work[b] # None
    BY <1>2
  <2>2. a \in Seq(Name) /\ b \in Seq(Name) /\ p \in Seq(Name)
    BY PathsMean
  <2>3. ~IsPrefix(p, a)
    BY <1>2, <2>1, <2>2, PrefixTransitive DEF IsStrictPrefix
  <2>4. work[a] = Folder
    BY <1>2, <2>1 DEF WorkOK
  <2>5. QED BY <2>3, <2>4
<1>3. QED BY <1>1, <1>2 DEF WorkOK

\* The file of HEAD that Unstage takes back.
LEMMA HeadEntry ==
  ASSUME IndexOK(head), NEW p \in Path, \E e \in head : e.path = p
  PROVE  (CHOOSE e \in head : e.path = p).blob \in Blob
<1>1. (CHOOSE e \in head : e.path = p) \in head
  OBVIOUS
<1>2. QED BY <1>1 DEF IndexOK, EntryOf

\* The sides of a conflict have the stages 1 to 3.
LEMMA ConflictAdded ==
  ASSUME StageInv, NEW p \in Path, NEW S \in Sides, NEW b \in Blob,
         index' = (index \ At(p)) \cup {Entry(p, s, b) : s \in S}
  PROVE  IndexOK(index') /\ Apart(index')
<1> DEFINE new == {Entry(p, s, b) : s \in S}
<1>1. S \subseteq 1..3
  BY SidesAssumption
<1>2. \A s \in S : s \in 0..3 /\ s # 0
  BY <1>1
<1>3. \A e \in new : e \in EntryOf /\ e.path = p /\ e.blob = b /\ e.stage # 0
  BY <1>2, EntryMeans
<1>4. IsFiniteSet(new)
  <2>1. IsFiniteSet(S)
    <3>1. 1 \in Int /\ 3 \in Int
      OBVIOUS
    <3>2. IsFiniteSet(1..3)
      BY <3>1, FS_Interval, Zenon
    <3>3. QED BY <1>1, <3>2, FS_Subset
  <2> DEFINE f == [s \in S |-> Entry(p, s, b)]
  <2>2. f \in Surjection(S, new)
    BY DEF Surjection
  <2>3. QED BY <2>1, <2>2, FS_Surjection
<1>5. \A e, f \in new : e.stage = f.stage => e = f
  BY <1>3 DEF EntryOf
<1> DEFINE old == index \ At(p)
<1>6. IndexOK(old) /\ Apart(old) /\ \A e \in old : e.path # p
  BY Fewer DEF StageInv, At
<1> HIDE DEF new, old
<1>7. IsFiniteSet(old \cup new)
  BY <1>4, <1>6, FS_Union DEF IndexOK
<1>8. IndexOK(old \cup new)
  BY <1>3, <1>5, <1>6, <1>7 DEF IndexOK
<1>9. Apart(old \cup new)
  BY <1>3, <1>6 DEF Apart
<1>10. QED BY <1>8, <1>9 DEF old, new

LEMMA StageInit == Init => StageInv
<1> SUFFICES ASSUME Init PROVE StageInv
  OBVIOUS
<1>1. work \in [Path -> Kind] /\ WorkOK(work)
  BY DEF Init, WorkOK, Kind
<1>2. index = {} /\ head = {} /\ last.op = "none" /\ last.path = Paths[1]
  BY DEF Init, Nothing
<1>3. QED
  BY <1>1, <1>2, PathsMean, FS_EmptySet DEF StageInv, IndexOK, Apart, NoConflict, Op

LEMMA EndsMeans ==
  ASSUME NEW op, NEW p, Ends(op, p)
  PROVE  /\ last'.op = op /\ last'.path = p
         /\ last'.single <=> Cardinality(At(p) \cup Below(p)) <= 1
         /\ last'.nested <=> Below(p) # {}
         /\ last'.hidden <=> Hidden(p)
BY DEF Ends

LEMMA ElsewhereMeans == Elsewhere => last'.op = "none" /\ last'.path = Paths[1]
BY DEF Elsewhere, Nothing

\* What every step says it was.
LEMMA LastOp ==
  ASSUME NEW p \in Path
  PROVE  /\ Stage(p) => last'.op = "stage" /\ last'.path = p
         /\ Unstage(p) => last'.op = "unstage" /\ last'.path = p
         /\ Delete(p) => last'.op = "delete" /\ last'.path = p
         /\ Edit(p) \/ Conflict(p) \/ Commit => last'.op = "none"
<1>1. Stage(p) => last'.op = "stage" /\ last'.path = p
  BY EndsMeans DEF Stage
<1>2. Unstage(p) => last'.op = "unstage" /\ last'.path = p
  BY EndsMeans DEF Unstage
<1>3. Delete(p) => last'.op = "delete" /\ last'.path = p
  BY EndsMeans DEF Delete
<1>4. Edit(p) \/ Conflict(p) \/ Commit => last'.op = "none"
  BY ElsewhereMeans DEF Edit, Conflict, Commit
<1>5. QED BY <1>1, <1>2, <1>3, <1>4

\* What Stage makes of the index.
LEMMA StageIndexed ==
  ASSUME StageInv, NEW p \in Path, StageFile(p) \/ StageNothing(p) \/ StageFolder(p)
  PROVE  IndexOK(index') /\ Apart(index')
<1>1. CASE StageFile(p) /\ ~Replaces(p)
  <2>1. index' = (Beside(p) \ At(p)) \cup {Entry(p, 0, work[p])} /\ work[p] \in Blob
    BY <1>1 DEF StageFile, AddedByPath
  <2>2. QED BY <2>1, OneAdded DEF StageInv
<1>2. CASE ~(StageFile(p) /\ ~Replaces(p))
  <2>1. index' \subseteq index
    BY <1>2 DEF StageFile, StageNothing, StageFolder
  <2>2. QED BY <2>1, Fewer DEF StageInv
<1>3. QED BY <1>1, <1>2

\* What Unstage makes of it.
LEMMA UnstageIndexed ==
  ASSUME StageInv, NEW p \in Path, index' = Unstaged(p)
  PROVE  IndexOK(index') /\ Apart(index')
<1>1. CASE \E e \in head : e.path = p
  <2> DEFINE b == (CHOOSE e \in head : e.path = p).blob
  <2>1. index' = Beside(p) \cup {Entry(p, 0, b)}
    BY <1>1 DEF Unstaged, Added
  <2>2. b \in Blob
    BY <1>1, HeadEntry DEF StageInv
  <2> HIDE DEF b
  <2>3. Beside(p) \subseteq Beside(p)
    OBVIOUS
  <2>4. QED BY <2>1, <2>2, <2>3, OneAdded DEF StageInv
<1>2. CASE ~\E e \in head : e.path = p
  <2>1. index' \subseteq index
    BY <1>2 DEF Unstaged
  <2>2. QED BY <2>1, Fewer DEF StageInv
<1>3. QED BY <1>1, <1>2

LEMMA StageStep == StageInv /\ [Next]_vars => StageInv'
<1> SUFFICES ASSUME StageInv, [Next]_vars PROVE StageInv'
  OBVIOUS
<1>1. ASSUME NEW p \in Path, Stage(p) PROVE StageInv'
  <2>1. UNCHANGED <<work, head>> /\ last'.op = "stage" /\ last'.path = p
    BY <1>1, EndsMeans DEF Stage
  <2>2. IndexOK(index') /\ Apart(index')
    BY <1>1, StageIndexed DEF Stage
  <2>3. QED BY <2>1, <2>2 DEF StageInv, WorkOK, IndexOK, NoConflict, Op, Apart
<1>2. ASSUME NEW p \in Path, Unstage(p) PROVE StageInv'
  <2>1. UNCHANGED <<work, head>> /\ last'.op = "unstage" /\ last'.path = p
    BY <1>2, EndsMeans DEF Unstage
  <2>2. IndexOK(index') /\ Apart(index')
    BY <1>2, UnstageIndexed DEF Unstage
  <2>3. QED BY <2>1, <2>2 DEF StageInv, WorkOK, IndexOK, NoConflict, Op, Apart
<1>3. ASSUME NEW p \in Path, Delete(p) PROVE StageInv'
  <2>1. UNCHANGED head /\ last'.op = "delete" /\ last'.path = p /\ index' \subseteq index
    BY <1>3, EndsMeans DEF Delete
  <2>2. IndexOK(index') /\ Apart(index')
    BY <2>1, Fewer DEF StageInv
  <2>3. WorkOK(work') /\ work' \in [Path -> Kind]
    BY <1>3, WorkCleared DEF Delete, StageInv
  <2>4. QED BY <2>1, <2>2, <2>3 DEF StageInv, WorkOK, IndexOK, NoConflict, Op, Apart
<1>4. ASSUME NEW p \in Path, Edit(p) PROVE StageInv'
  <2>1. PICK kind \in Kind :
          work' = [q \in Path |-> IF q = p THEN kind
                                  ELSE IF IsStrictPrefix(p, q) THEN None ELSE work[q]]
    BY <1>4 DEF Edit
  <2>2. work' \in [Path -> Kind]
    BY <2>1 DEF StageInv, Kind
  <2>3. WorkOK(work') /\ UNCHANGED <<index, head>>
        /\ last'.op = "none" /\ last'.path = Paths[1]
    BY <1>4, ElsewhereMeans DEF Edit
  <2>4. QED BY <2>2, <2>3, PathsMean DEF StageInv, WorkOK, IndexOK, NoConflict, Op, Apart
<1>5. ASSUME NEW p \in Path, Conflict(p) PROVE StageInv'
  <2>1. UNCHANGED <<work, head>> /\ last'.op = "none" /\ last'.path = Paths[1]
    BY <1>5, ElsewhereMeans DEF Conflict
  <2>2. IndexOK(index') /\ Apart(index')
    BY <1>5, ConflictAdded DEF Conflict
  <2>3. QED BY <2>1, <2>2, PathsMean DEF StageInv, WorkOK, IndexOK, NoConflict, Op, Apart
<1>6. CASE Commit
  <2>1. UNCHANGED <<work, index>> /\ last'.op = "none" /\ last'.path = Paths[1]
        /\ head' = index /\ NoConflict(index)
    BY <1>6, ElsewhereMeans DEF Commit, NoConflict
  <2>2. QED BY <2>1, PathsMean DEF StageInv, WorkOK, IndexOK, NoConflict, Op, Apart
<1>7. CASE UNCHANGED vars
  BY <1>7 DEF vars, StageInv, WorkOK, IndexOK, NoConflict, Apart
<1>8. QED BY <1>1, <1>2, <1>3, <1>4, <1>5, <1>6, <1>7 DEF Next

\* Every variable keeps its type: the index never has two entries of a path and
\* stage, and what is committed has no sides of a conflict.
THEOREM TypeCorrect == Spec => []TypeOK
<1>1. StageInv => TypeOK
  BY DEF StageInv, TypeOK, IndexOK, NoConflict, EntryOf
<1>2. QED BY StageInit, StageStep, <1>1, PTL DEF Spec

\* Whatever is staged, unstaged and deleted in whatever order, no file of the index
\* is where another one needs a directory.
THEOREM TreeCanBeWritten == Spec => []NoCollision
<1>1. StageInv => NoCollision
  BY DEF StageInv, NoCollision, Apart
<1>2. QED BY StageInit, StageStep, <1>1, PTL DEF Spec

-----------------------------------------------------------------------------
(***************************************************************************)
(* What Stage and Unstage leave of their path.                             *)
(***************************************************************************)

\* Two entries are more than one.
LEMMA OnlyOne ==
  ASSUME NEW T, IsFiniteSet(T), Cardinality(T) <= 1, NEW a \in T, NEW b \in T
  PROVE  a = b
<1> SUFFICES ASSUME a # b PROVE FALSE
  OBVIOUS
<1>1. IsFiniteSet({a}) /\ Cardinality({a}) = 1
  BY FS_Singleton
<1>2. {a} \in SUBSET T /\ {a} # T
  OBVIOUS
<1>3. Cardinality({a}) <= Cardinality(T) /\ Cardinality({a}) # Cardinality(T)
  BY <1>2, FS_Subset
<1>4. Cardinality(T) \in Nat
  BY FS_CardinalityType
<1>5. QED BY <1>1, <1>3, <1>4

\* A file that replaces a directory was not in the index.
LEMMA ReplacesMeans ==
  ASSUME IndexOK(index), NEW p \in Path, Replaces(p)
  PROVE  At(p) = {} /\ Below(p) # {}
<1>1. NotBefore(p) # {} /\ Compared(p) \in Below(p)
  BY DEF Replaces
<1>2. ASSUME NEW e \in At(p) PROVE FALSE
  <2>1. e \in NotBefore(p) /\ e # Compared(p) /\ ~Sooner(Compared(p), e)
    BY <1>1, BelowIsLater DEF At, Below, IsStrictPrefix
  <2>2. QED BY <1>1, <2>1, ComparedIsFirst
<1>3. QED BY <1>1, <1>2

LEMMA FileStaged ==
  ASSUME StageInv, NEW p \in Path, StageFile(p), Ends("stage", p), UNCHANGED work
  PROVE  StagedAsInWork'
<1>1. work' = work /\ work[p] \in Blob /\ work[p] # None
      /\ last'.path = p /\ (last'.nested <=> Below(p) # {})
  BY EndsMeans, BlobAssumption DEF StageFile
<1>2. CASE Replaces(p)
  <2>1. At(p) = {} /\ Below(p) # {}
    BY <1>2, ReplacesMeans DEF StageInv
  <2>2. index' = {e \in index : e \notin Below(p) \/ e.stage # 0}
    BY <1>2 DEF StageFile
  <2>3. \A e \in index' : e.path # p /\ (IsStrictPrefix(p, e.path) => e.stage # 0)
    BY <2>1, <2>2 DEF At, Below
  <2>4. QED BY <1>1, <2>1, <2>3 DEF StagedAsInWork, At, Below
<1>3. CASE ~Replaces(p)
  <2> DEFINE new == Entry(p, 0, work[p])
  <2>1. index' = (Beside(p) \ At(p)) \cup {new}
    BY <1>3 DEF StageFile, AddedByPath
  <2>2. new.path = p
    BY <1>1, EntryMeans
  <2>3. \A e \in Beside(p) \ At(p) : e.path # p
    BY DEF Beside, At
  <2>4. {e \in index' : e.path = p} = {new}
    BY <2>1, <2>2, <2>3
  <2>5. QED BY <1>1, <2>4 DEF StagedAsInWork, At
<1>4. QED BY <1>2, <1>3

LEMMA NothingStaged ==
  ASSUME StageInv, NEW p \in Path, StageNothing(p), Ends("stage", p), UNCHANGED work
  PROVE  StagedAsInWork'
<1>1. work' = work /\ work[p] = None /\ work[p] \notin Blob /\ last'.path = p
      /\ (last'.single <=> Cardinality(At(p) \cup Below(p)) <= 1)
      /\ (last'.hidden <=> Hidden(p))
  BY EndsMeans, BlobAssumption DEF StageNothing
<1>2. index' = index \ StageMissing(p)
  BY DEF StageNothing
<1>3. ASSUME last'.single, ~last'.hidden, NEW e \in index', e.path = p PROVE FALSE
  <2>1. e \in At(p)
    BY <1>2, <1>3 DEF At
  <2>2. NotBefore(p) # {} /\ Compared(p).path = p /\ Compared(p) \in index
    BY <1>1, <1>3, <2>1, ComparedIsOwn, ComparedIsFirst DEF StageInv, NotBefore
  <2>3. Compared(p) \in At(p) \cup Below(p) /\ e \in At(p) \cup Below(p)
    BY <2>1, <2>2 DEF At
  <2>4. IsFiniteSet(At(p) \cup Below(p))
    <3>1. At(p) \cup Below(p) \in SUBSET index
      BY DEF At, Below
    <3>2. QED BY <3>1, FS_Subset DEF StageInv, IndexOK
  <2>5. e = Compared(p)
    BY <1>1, <1>3, <2>3, <2>4, OnlyOne
  <2>6. QED BY <1>2, <2>2, <2>5 DEF StageMissing
<1>4. QED BY <1>1, <1>3 DEF StagedAsInWork, At

LEMMA StagedStep == StageInv /\ StagedAsInWork /\ [Next]_vars => StagedAsInWork'
<1> SUFFICES ASSUME StageInv, StagedAsInWork, [Next]_vars PROVE StagedAsInWork'
  OBVIOUS
<1>1. ASSUME NEW p \in Path, Stage(p) PROVE StagedAsInWork'
  <2>1. CASE StageFile(p)
    BY <1>1, <2>1, FileStaged DEF Stage
  <2>2. CASE StageNothing(p)
    BY <1>1, <2>2, NothingStaged DEF Stage
  <2>3. CASE StageFolder(p)
    <3>1. work' = work /\ last'.path = p /\ work[p] = Folder
      BY <1>1, <2>3, EndsMeans DEF Stage, StageFolder
    <3>2. work[p] \notin Blob /\ work[p] # None
      BY <3>1, BlobAssumption DEF Folder, None
    <3>3. QED BY <3>1, <3>2 DEF StagedAsInWork
  <2>4. QED BY <1>1, <2>1, <2>2, <2>3 DEF Stage
<1>2. ASSUME NEW p \in Path, Unstage(p) \/ Delete(p) \/ Edit(p) \/ Conflict(p)
      PROVE  last'.op # "stage"
  BY <1>2, LastOp
<1>3. CASE Commit
  BY <1>3, ElsewhereMeans DEF Commit, StagedAsInWork
<1>4. CASE UNCHANGED vars
  BY <1>4 DEF vars, StagedAsInWork, At, Below
<1>5. QED BY <1>1, <1>2, <1>3, <1>4 DEF Next, StagedAsInWork

LEMMA PathUnstaged ==
  ASSUME StageInv, NEW p \in Path, Unstage(p)
  PROVE  UnstagedAsInHead'
<1>1. head' = head /\ index' = Unstaged(p) /\ last'.path = p
  BY EndsMeans DEF Unstage
<1>2. CASE \E e \in head : e.path = p
  <2> DEFINE h == CHOOSE e \in head : e.path = p
  <2>1. h \in head /\ h.path = p
    BY <1>2
  <2> HIDE DEF h
  <2>2. h \in EntryOf /\ h.stage = 0
    BY <2>1 DEF StageInv, IndexOK, NoConflict
  <2>3. Entry(p, 0, h.blob) = h
    BY <2>1, <2>2 DEF Entry, EntryOf
  <2>4. index' = Beside(p) \cup {h}
    BY <1>1, <1>2, <2>3 DEF Unstaged, Added, h
  <2>5. \A e \in Beside(p) : e.stage = 0 => e.path # p
    <3>1. IsPrefix(p, p)
      BY PathsMean, PrefixReflexive
    <3>2. QED BY <3>1 DEF Beside
  <2>6. {e \in index' : e.path = p /\ e.stage = 0} = {h}
    BY <2>1, <2>2, <2>4, <2>5
  <2>7. {e \in head : e.path = p} = {h}
    BY <2>1, <2>2 DEF StageInv, IndexOK, NoConflict
  <2>8. QED BY <1>1, <2>6, <2>7 DEF UnstagedAsInHead, At
<1>3. CASE ~\E e \in head : e.path = p
  <2>1. index' = index \ {e \in At(p) : e.stage = 0}
    BY <1>1, <1>3 DEF Unstaged
  <2>2. \A e \in index' : ~(e.path = p /\ e.stage = 0)
    BY <2>1 DEF At
  <2>3. QED BY <1>1, <1>3, <2>2 DEF UnstagedAsInHead, At
<1>4. QED BY <1>2, <1>3

LEMMA UnstagedStep == StageInv /\ UnstagedAsInHead /\ [Next]_vars => UnstagedAsInHead'
<1> SUFFICES ASSUME StageInv, UnstagedAsInHead, [Next]_vars PROVE UnstagedAsInHead'
  OBVIOUS
<1>1. ASSUME NEW p \in Path, Stage(p) \/ Delete(p) \/ Edit(p) \/ Conflict(p)
      PROVE  last'.op # "unstage"
  BY <1>1, LastOp
<1>2. CASE Commit
  BY <1>2, ElsewhereMeans DEF Commit, UnstagedAsInHead
<1>3. CASE UNCHANGED vars
  BY <1>3 DEF vars, UnstagedAsInHead, At
<1>4. QED BY <1>1, <1>2, <1>3, PathUnstaged DEF Next, UnstagedAsInHead

\* After Stage of a path the index agrees with the working directory about it, or is
\* in one of the exceptions that the property names.
THEOREM StagedIsInWork == Spec => []StagedAsInWork
<1>1. Init => StagedAsInWork
  BY DEF Init, Nothing, StagedAsInWork
<1>2. QED BY StageInit, StageStep, StagedStep, <1>1, PTL DEF Spec

\* Where the index is sorted as the walk compares, it hides nothing.
LEMMA NothingHidden ==
  ASSUME StageInv, Listed = Paths, NEW p \in Path
  PROVE  ~Hidden(p)
<1> SUFFICES ASSUME NEW e \in index, NEW f \in At(p), Sooner(e, f),
                    Position[p] < Position[e.path]
             PROVE  FALSE
  BY DEF Hidden
<1>1. f.path = p /\ e.path \in Path /\ e.path # p
  <2>1. f.path = p /\ e.path \in Path
    BY DEF At, StageInv, IndexOK, EntryOf
  <2>2. Position[p] \in Nat
    BY PathsMean
  <2>3. QED BY <2>1, <2>2
<1>2. Place = Position
  BY DEF Place, Position
<1>3. Position[p] \in Nat /\ Position[e.path] \in Nat
  BY <1>1, PathsMean
<1>4. QED BY <1>1, <1>2, <1>3 DEF Sooner

\* There, that is, where core.ignorecase is not set, Stage of a path at which nothing
\* is any more, and of which the index has one entry, leaves no entry of it.
THEOREM MissingIsUnstaged ==
  ASSUME Listed = Paths
  PROVE  Spec => [](LET p == last.path
                    IN last.op = "stage" /\ work[p] = None /\ last.single => At(p) = {})
<1> DEFINE Gone == LET p == last.path
                   IN last.op = "stage" /\ work[p] = None /\ last.single => At(p) = {}
           Seen == last.op = "stage" => ~last.hidden
<1>1. Init => Seen
  BY DEF Init, Nothing
<1>2. StageInv /\ Seen /\ [Next]_vars => Seen'
  <2> SUFFICES ASSUME StageInv, Seen, [Next]_vars PROVE Seen'
    OBVIOUS
  <2>1. ASSUME NEW p \in Path, Stage(p) PROVE Seen'
    BY <2>1, EndsMeans, NothingHidden DEF Stage
  <2>2. ASSUME NEW p \in Path, Unstage(p) \/ Delete(p) \/ Edit(p) \/ Conflict(p)
        PROVE  last'.op # "stage"
    BY <2>2, LastOp
  <2>3. CASE Commit
    BY <2>3, ElsewhereMeans DEF Commit
  <2>4. CASE UNCHANGED vars
    BY <2>4 DEF vars
  <2>5. QED BY <2>1, <2>2, <2>3, <2>4 DEF Next
<1>3. StagedAsInWork /\ Seen => Gone
  BY DEF StagedAsInWork
<1>4. QED BY StagedIsInWork, StageInit, StageStep, <1>1, <1>2, <1>3, PTL DEF Spec

\* After Unstage of a path the index agrees with HEAD about it.
THEOREM UnstagedIsInHead == Spec => []UnstagedAsInHead
<1>1. Init => UnstagedAsInHead
  BY DEF Init, Nothing, UnstagedAsInHead
<1>2. QED BY StageInit, StageStep, UnstagedStep, <1>1, PTL DEF Spec

-----------------------------------------------------------------------------
(***************************************************************************)
(* What Delete removes: the recursive function in Removed has a value, and *)
(* the position of an entry is its own.                                    *)
(***************************************************************************)

\* From some position on, everything to k belongs to D: where that begins.
LEMMA RunBegins ==
  ASSUME NEW D \in SUBSET Nat, NEW k \in D
  PROVE  \E b \in 0..k : b..k \subseteq D /\ (b = 0 \/ b - 1 \notin D)
<1> DEFINE S == {b \in 0..k : b..k \subseteq D}
<1>1. k \in Nat /\ S \in SUBSET Nat
  OBVIOUS
<1>2. k..k \subseteq D /\ k \in 0..k
  BY <1>1
<1>3. S # {}
  BY <1>2
<1>4. PICK b \in S : \A c \in S : b <= c
  BY <1>1, <1>3, LeastNatural
<1>5. b \in 0..k /\ b..k \subseteq D
  BY <1>4
<1>6. ASSUME b # 0, b - 1 \in D PROVE FALSE
  <2>1. (b - 1)..k \subseteq D /\ b - 1 \in 0..k
    BY <1>1, <1>5, <1>6
  <2>2. QED BY <1>1, <1>4, <1>5, <2>1
<1>7. QED BY <1>5, <1>6

\* Of every run, each second position is removed, the first to begin with.
LEMMA AlternatesExists ==
  ASSUME NEW D \in SUBSET Nat, NEW N \in Nat
  PROVE  \E f : f = [k \in 0..N |-> (k > 0 => ~f[k - 1]) /\ k \in D]
<1> DEFINE Begins(b, k) == b..k \subseteq D /\ (b = 0 \/ b - 1 \notin D)
           R(k) == \E b \in 0..k : Begins(b, k) /\ (k - b) % 2 = 0
           f == [k \in 0..N |-> R(k)]
<1>1. ASSUME NEW k \in Nat, NEW b \in 0..k, NEW c \in 0..k, Begins(b, k), Begins(c, k)
      PROVE  b = c
  <2>1. CASE b < c
    <3>1. c - 1 \in b..k /\ c # 0
      BY <2>1
    <3>2. QED BY <1>1, <3>1
  <2>2. CASE c < b
    <3>1. b - 1 \in c..k /\ b # 0
      BY <2>2
    <3>2. QED BY <1>1, <3>1
  <2>3. QED BY <2>1, <2>2
<1>2. ASSUME NEW k \in Nat, R(k) PROVE k \in D
  <2>1. PICK b \in 0..k : Begins(b, k)
    BY <1>2
  <2>2. k \in b..k
    BY <2>1
  <2>3. QED BY <2>1, <2>2
<1>3. ASSUME NEW k \in Nat, k \in D, k = 0 PROVE R(k)
  <2>1. 0 \in 0..k /\ Begins(0, k) /\ (k - 0) % 2 = 0
    BY <1>3
  <2>2. QED BY <2>1
<1>4. ASSUME NEW k \in Nat, k \in D, k > 0, k - 1 \notin D PROVE R(k) /\ ~R(k - 1)
  <2>1. k \in 0..k /\ Begins(k, k) /\ (k - k) % 2 = 0
    BY <1>4
  <2>2. k - 1 \in Nat
    BY <1>4
  <2>3. ~R(k - 1)
    BY <1>2, <1>4, <2>2
  <2>4. QED BY <2>1, <2>3
<1>5. ASSUME NEW k \in Nat, k \in D, k > 0, k - 1 \in D PROVE R(k) <=> ~R(k - 1)
  <2>1. k - 1 \in Nat
    BY <1>5
  <2>2. PICK b \in 0..(k - 1) : Begins(b, k - 1)
    BY <1>5, <2>1, RunBegins
  <2>3. b \in 0..k /\ Begins(b, k)
    BY <1>5, <2>2
  <2>4. R(k) <=> (k - b) % 2 = 0
    <3>1. \A c \in 0..k : Begins(c, k) => c = b
      BY <1>1, <2>3
    <3> HIDE DEF Begins
    <3>2. QED BY <2>3, <3>1
  <2>5. R(k - 1) <=> ((k - 1) - b) % 2 = 0
    <3>1. \A c \in 0..(k - 1) : Begins(c, k - 1) => c = b
      BY <1>1, <2>1, <2>2
    <3> HIDE DEF Begins
    <3>2. QED BY <2>2, <3>1
  <2>6. (k - b) % 2 = 0 <=> ~(((k - 1) - b) % 2 = 0)
    <3>1. b \in Int /\ k \in Int
      BY <2>2
    <3>2. QED BY <3>1
  <2> HIDE DEF R
  <2>7. QED BY <2>4, <2>5, <2>6, Zenon
<1>6. ASSUME NEW k \in 0..N PROVE f[k] <=> (k > 0 => ~f[k - 1]) /\ k \in D
  <2>1. k \in Nat /\ (k > 0 => k - 1 \in 0..N)
    OBVIOUS
  <2>2. f[k] = R(k) /\ (k > 0 => f[k - 1] = R(k - 1))
    BY <2>1
  <2> HIDE DEF R, f
  <2>3. R(k) <=> (k > 0 => ~R(k - 1)) /\ k \in D
    BY <1>2, <1>3, <1>4, <1>5, <2>1
  <2>4. QED BY <2>2, <2>3, Zenon
<1> DEFINE g == [k \in 0..N |-> (k > 0 => ~f[k - 1]) /\ k \in D]
<1>7. f = g
  <2> HIDE DEF R
  <2>1. \A k \in 0..N : f[k] = g[k]
    <3> SUFFICES ASSUME NEW k \in 0..N PROVE f[k] = g[k]
      OBVIOUS
    <3>1. f[k] \in BOOLEAN
      BY DEF R
    <3>2. g[k] \in BOOLEAN /\ (g[k] <=> (k > 0 => ~f[k - 1]) /\ k \in D)
      BY Zenon
    <3> HIDE DEF f, g
    <3>3. f[k] <=> g[k]
      BY <1>6, <3>2, Zenon
    <3>4. QED BY <3>1, <3>2, <3>3
  <2>2. QED BY <2>1, Zenon
<1>8. QED BY <1>7, Zenon

\* The order of the entries is one.
LEMMA SoonerOrders ==
  ASSUME IndexOK(index)
  PROVE  /\ \A e \in index : ~Sooner(e, e)
         /\ \A e, f, g \in index : Sooner(e, f) /\ Sooner(f, g) => Sooner(e, g)
         /\ \A e, f \in index : e = f \/ Sooner(e, f) \/ Sooner(f, e)
<1>1. \A e \in index : e.path \in Path /\ e.stage \in Nat /\ Place[e.path] \in Nat
  BY PlaceOrder DEF IndexOK, EntryOf
<1>2. \A e, f \in index : /\ Place[e.path] = Place[f.path] => e.path = f.path
                          /\ e.path = f.path /\ e.stage = f.stage => e = f
  BY <1>1, PlaceOrder DEF IndexOK
<1>3. \A e \in index : ~Sooner(e, e)
  BY <1>1 DEF Sooner
<1>4. \A e, f, g \in index : Sooner(e, f) /\ Sooner(f, g) => Sooner(e, g)
  BY <1>1 DEF Sooner
<1>5. \A e, f \in index : e = f \/ Sooner(e, f) \/ Sooner(f, e)
  BY <1>1, <1>2 DEF Sooner
<1>6. QED BY <1>3, <1>4, <1>5

Earlier(e) == {f \in index : Sooner(f, e)}

\* No two entries have the same number of entries before them.
LEMMA OwnPosition ==
  ASSUME IndexOK(index), NEW e \in index, NEW f \in index,
         Cardinality(Earlier(e)) = Cardinality(Earlier(f))
  PROVE  e = f
<1>1. ASSUME NEW a \in index, NEW b \in index, Sooner(a, b)
      PROVE  Cardinality(Earlier(a)) # Cardinality(Earlier(b))
  <2>1. Earlier(b) \in SUBSET index /\ IsFiniteSet(index)
    BY DEF Earlier, IndexOK
  <2>2. IsFiniteSet(Earlier(b))
    BY <2>1, FS_Subset
  <2>3. Earlier(a) \in SUBSET Earlier(b)
    BY <1>1, SoonerOrders DEF Earlier
  <2>4. a \in Earlier(b) /\ a \notin Earlier(a)
    BY <1>1, SoonerOrders DEF Earlier
  <2>5. Earlier(a) # Earlier(b)
    BY <2>4
  <2>6. QED BY <2>2, <2>3, <2>5, FS_Subset
<1>2. QED BY <1>1, SoonerOrders

Rank(e) == Cardinality(Earlier(e))

LEMMA RankMeans ==
  ASSUME IndexOK(index), NEW e \in index
  PROVE  Rank(e) \in 0..Cardinality(index)
<1>1. Earlier(e) \in SUBSET index /\ IsFiniteSet(index)
  BY DEF Earlier, IndexOK
<1>2. IsFiniteSet(Earlier(e)) /\ Cardinality(Earlier(e)) <= Cardinality(index)
  BY <1>1, FS_Subset
<1>3. QED BY <1>1, <1>2, FS_CardinalityType DEF Rank

\* An entry is removed when it is doomed and the one before it was not removed.
LEMMA RemovedMeans ==
  ASSUME IndexOK(index), NEW p \in Path
  PROVE  \E removed :
           /\ Removed(p) = {e \in index : removed[Rank(e)]}
           /\ \A k \in 0..Cardinality(index) :
                removed[k] <=> /\ k > 0 => ~removed[k - 1]
                               /\ \E e \in index : Rank(e) = k /\ Doomed(p, e)
<1> DEFINE rank == [e \in index |-> Cardinality(Earlier(e))]
           has(k) == \E e \in index : rank[e] = k /\ Doomed(p, e)
           D == {k \in 0..Cardinality(index) : has(k)}
           Is(f) == f = [k \in 0..Cardinality(index) |->
                           /\ k > 0 => ~f[k - 1]
                           /\ \E e \in index : rank[e] = k /\ Doomed(p, e)]
           removed == CHOOSE f : Is(f)
<1>1. Cardinality(index) \in Nat
  BY FS_CardinalityType DEF IndexOK
<1>2. Removed(p) = {e \in index : removed[rank[e]]}
  BY DEF Removed, Earlier
<1>3. \E f : Is(f)
  <2>1. D \in SUBSET Nat
    BY <1>1
  <2>2. PICK f : f = [k \in 0..Cardinality(index) |-> (k > 0 => ~f[k - 1]) /\ k \in D]
    BY <1>1, <2>1, AlternatesExists
  <2>3. \A k \in 0..Cardinality(index) : k \in D <=> has(k)
    BY Zenon
  <2> HIDE DEF D
  <2>4. [k \in 0..Cardinality(index) |-> (k > 0 => ~f[k - 1]) /\ k \in D]
        = [k \in 0..Cardinality(index) |-> (k > 0 => ~f[k - 1]) /\ has(k)]
    BY <2>3, Zenon
  <2>5. QED BY <2>2, <2>4, Zenon
<1>4. Is(removed)
  BY <1>3, Zenon
<1> HIDE DEF removed
<1>5. \A k \in 0..Cardinality(index) :
        removed[k] <=> (k > 0 => ~removed[k - 1]) /\ has(k)
  BY <1>4, Zenon
<1>6. \A e \in index : rank[e] = Rank(e)
  BY DEF Rank
<1> HIDE DEF rank
<1>7. Removed(p) = {e \in index : removed[Rank(e)]}
  BY <1>2, <1>6
<1>8. \A k : has(k) <=> \E e \in index : Rank(e) = k /\ Doomed(p, e)
  BY <1>6, Zenon
<1> HIDE DEF has
<1>9. \A k \in 0..Cardinality(index) :
        removed[k] <=> /\ k > 0 => ~removed[k - 1]
                       /\ \E e \in index : Rank(e) = k /\ Doomed(p, e)
  BY <1>5, <1>8, Zenon
<1>10. QED BY <1>7, <1>9, Zenon

\* Delete removes nothing but the path and what is below it.
LEMMA RemovedIsDoomed ==
  ASSUME IndexOK(index), NEW p \in Path
  PROVE  Removed(p) \subseteq {e \in index : Doomed(p, e)}
<1>1. PICK removed :
        /\ Removed(p) = {e \in index : removed[Rank(e)]}
        /\ \A k \in 0..Cardinality(index) :
             removed[k] <=> /\ k > 0 => ~removed[k - 1]
                            /\ \E e \in index : Rank(e) = k /\ Doomed(p, e)
  BY RemovedMeans
<1>2. ASSUME NEW e \in index, removed[Rank(e)] PROVE Doomed(p, e)
  <2>1. \E f \in index : Rank(f) = Rank(e) /\ Doomed(p, f)
    BY <1>1, <1>2, RankMeans, Zenon
  <2>2. QED BY <2>1, OwnPosition DEF Rank
<1>3. QED BY <1>1, <1>2

\* What is doomed and stays comes right after an entry that is removed.
LEMMA RemovedIsHalf ==
  ASSUME IndexOK(index), NEW p \in Path
  PROVE  Cardinality({e \in index \ Removed(p) : Doomed(p, e)}) <= Cardinality(Removed(p))
<1> DEFINE Left == {e \in index \ Removed(p) : Doomed(p, e)}
<1>1. PICK removed :
        /\ Removed(p) = {e \in index : removed[Rank(e)]}
        /\ \A k \in 0..Cardinality(index) :
             removed[k] <=> /\ k > 0 => ~removed[k - 1]
                            /\ \E e \in index : Rank(e) = k /\ Doomed(p, e)
  BY RemovedMeans
<1>2. ASSUME NEW e \in Left
      PROVE  \E d \in Removed(p) : Rank(d) = Rank(e) - 1
  <2> DEFINE k == Rank(e)
  <2>1. k \in 0..Cardinality(index) /\ Cardinality(index) \in Nat
    BY RankMeans, FS_CardinalityType DEF IndexOK
  <2>2. ~removed[k] /\ \E f \in index : Rank(f) = k /\ Doomed(p, f)
    BY <1>1
  <2> HIDE DEF k
  <2>3. k > 0 /\ removed[k - 1]
    BY <1>1, <2>1, <2>2, Zenon
  <2>4. k - 1 \in 0..Cardinality(index)
    BY <2>1, <2>3
  <2>5. PICK d \in index : Rank(d) = k - 1
    BY <1>1, <2>3, <2>4, Zenon
  <2>6. d \in Removed(p)
    BY <1>1, <2>3, <2>5
  <2>7. QED BY <2>5, <2>6 DEF k
<1> DEFINE Before(e) == CHOOSE d \in Removed(p) : Rank(d) = Rank(e) - 1
           f == [e \in Left |-> Before(e)]
<1>3. \A e \in Left : Before(e) \in Removed(p) /\ Rank(Before(e)) = Rank(e) - 1
  BY <1>2
<1>4. ASSUME NEW d \in Left, NEW e \in Left, Before(d) = Before(e)
      PROVE  d = e
  <2>1. Rank(d) - 1 = Rank(e) - 1
    BY <1>3, <1>4
  <2>2. Rank(d) \in Nat /\ Rank(e) \in Nat
    BY RankMeans, FS_CardinalityType DEF IndexOK
  <2>3. Rank(d) = Rank(e)
    BY <2>1, <2>2
  <2>4. QED BY <2>3, OwnPosition DEF Rank
<1> HIDE DEF Before
<1>5. f \in Injection(Left, Removed(p))
  BY <1>3, <1>4 DEF Injection, IsInjective
<1>6. IsFiniteSet(Removed(p))
  <2>1. Removed(p) \in SUBSET index
    BY <1>1
  <2>2. QED BY <2>1, FS_Subset DEF IndexOK
<1> HIDE DEF f
<1>7. QED BY <1>5, <1>6, FS_Injection

\* The entries a step on one path adds and removes are that path's, or those of a
\* directory it is in, or in it.
Near(p, e) == IsPrefix(e.path, p) \/ IsPrefix(p, e.path)

LEMMA StagedNear ==
  ASSUME StageInv, NEW p \in Path, Stage(p), NEW e \in (index \ index') \cup (index' \ index)
  PROVE  Near(p, e)
<1>1. IsPrefix(p, p)
  BY PathsMean, PrefixReflexive
<1>2. \A f \in At(p) : Near(p, f)
  BY <1>1 DEF At, Near
<1>3. CASE StageFile(p) /\ Replaces(p)
  <2>1. e \in Below(p)
    BY <1>3 DEF StageFile
  <2>2. QED BY <2>1 DEF Below, IsStrictPrefix, Near
<1>4. CASE StageFile(p) /\ ~Replaces(p)
  <2> DEFINE new == Entry(p, 0, work[p])
  <2>1. index' = (Beside(p) \ At(p)) \cup {new} /\ new.path = p
    BY <1>4, EntryMeans DEF StageFile, AddedByPath
  <2> HIDE DEF new
  <2>2. Beside(p) \subseteq index /\ \A f \in index \ Beside(p) : Near(p, f)
    BY DEF Beside, Near
  <2>3. e = new \/ e \in At(p) \/ e \in index \ Beside(p)
    BY <2>1, <2>2
  <2>4. QED BY <1>1, <1>2, <2>1, <2>2, <2>3 DEF Near
<1>5. CASE StageNothing(p)
  <2>1. e \in StageMissing(p)
    BY <1>5 DEF StageNothing
  <2>2. e.path = p
    BY <2>1 DEF StageMissing
  <2>3. QED BY <1>1, <2>2 DEF Near
<1>6. CASE StageFolder(p)
  BY <1>6 DEF StageFolder
<1>7. QED BY <1>3, <1>4, <1>5, <1>6 DEF Stage

LEMMA UnstagedNear ==
  ASSUME StageInv, NEW p \in Path, Unstage(p),
         NEW e \in (index \ index') \cup (index' \ index)
  PROVE  Near(p, e)
<1>1. IsPrefix(p, p)
  BY PathsMean, PrefixReflexive
<1>2. CASE \E h \in head : h.path = p
  <2> DEFINE b == (CHOOSE h \in head : h.path = p).blob
             new == Entry(p, 0, b)
  <2>1. b \in Blob
    BY <1>2, HeadEntry DEF StageInv
  <2>2. index' = Beside(p) \cup {new}
    BY <1>2 DEF Unstage, Unstaged, Added
  <2> HIDE DEF b
  <2>3. new.path = p
    BY <2>1, EntryMeans
  <2> HIDE DEF new
  <2>4. Beside(p) \subseteq index /\ \A f \in index \ Beside(p) : Near(p, f)
    BY DEF Beside, Near
  <2>5. e = new \/ e \in index \ Beside(p)
    BY <2>2, <2>4
  <2>6. QED BY <1>1, <2>3, <2>4, <2>5 DEF Near
<1>3. CASE ~\E h \in head : h.path = p
  <2>1. index' = index \ {f \in At(p) : f.stage = 0}
    BY <1>3 DEF Unstage, Unstaged
  <2>2. e.path = p
    BY <2>1 DEF At
  <2>3. QED BY <1>1, <2>2 DEF Near
<1>4. QED BY <1>2, <1>3

LEMMA DeletedNear ==
  ASSUME StageInv, NEW p \in Path, Delete(p),
         NEW e \in (index \ index') \cup (index' \ index)
  PROVE  Near(p, e)
<1>1. e \in Removed(p)
  BY DEF Delete
<1>2. Doomed(p, e)
  BY <1>1, RemovedIsDoomed DEF StageInv
<1>3. QED BY <1>2 DEF Doomed, Near

\* An operation on one path changes no entry that could coexist with it and is not
\* in it: what the walks and the loops do beside their path shows nowhere.
THEOREM OthersAreKept == Spec => OthersKept
<1> DEFINE A == \A e \in (index \ index') \cup (index' \ index) :
                  last'.op \in {"stage", "unstage", "delete"} =>
                    IsPrefix(e.path, last'.path) \/ IsPrefix(last'.path, e.path)
<1>1. StageInv /\ [Next]_vars => [A]_vars
  <2> SUFFICES ASSUME StageInv, Next PROVE A
    OBVIOUS
  <2>1. ASSUME NEW p \in Path, Stage(p) \/ Unstage(p) \/ Delete(p) PROVE A
    <3>1. \A e \in (index \ index') \cup (index' \ index) : Near(p, e)
      BY <2>1, StagedNear, UnstagedNear, DeletedNear
    <3>2. last'.path = p
      BY <2>1, LastOp
    <3>3. QED BY <3>1, <3>2 DEF Near
  <2>2. ASSUME NEW p \in Path, Edit(p) \/ Conflict(p) PROVE A
    BY <2>2, LastOp
  <2>3. CASE Commit
    BY <2>3, LastOp, PathsMean
  <2>4. QED BY <2>1, <2>2, <2>3 DEF Next
<1>2. QED BY <1>1, StageInit, StageStep, PTL DEF Spec, OthersKept

\* Delete removes at least half of what the index has of its path and below it, in
\* whichever way that lies among the other entries.
THEOREM HalfIsDeleted == Spec => HalfDeleted
<1> DEFINE A == last'.op = "delete" =>
                  Cardinality({e \in index' : IsPrefix(last'.path, e.path)})
                  <= Cardinality(index \ index')
<1>1. StageInv /\ [Next]_vars => [A]_vars
  <2> SUFFICES ASSUME StageInv, Next PROVE A
    OBVIOUS
  <2>1. ASSUME NEW p \in Path, Delete(p) PROVE A
    <3>1. index' = index \ Removed(p) /\ last'.path = p
      BY <2>1, LastOp DEF Delete
    <3>2. Removed(p) \subseteq index
      BY RemovedIsDoomed DEF StageInv
    <3>3. index \ index' = Removed(p)
      BY <3>1, <3>2
    <3>4. {e \in index' : IsPrefix(last'.path, e.path)}
          = {e \in index \ Removed(p) : Doomed(p, e)}
      BY <3>1 DEF Doomed
    <3>5. QED BY <3>3, <3>4, RemovedIsHalf DEF StageInv
  <2>2. ASSUME NEW p \in Path, Stage(p) \/ Unstage(p) \/ Edit(p) \/ Conflict(p) PROVE A
    BY <2>2, LastOp
  <2>3. CASE Commit
    BY <2>3, LastOp, PathsMean
  <2>4. QED BY <2>1, <2>2, <2>3 DEF Next
<1>2. QED BY <1>1, StageInit, StageStep, PTL DEF Spec, HalfDeleted
=============================================================================
