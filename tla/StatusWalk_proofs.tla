-------------------------- MODULE StatusWalk_proofs --------------------------
(***************************************************************************)
(* Theorems about StatusWalk, for any names, status lists and paths that   *)
(* Status is called for.                                                   *)
(***************************************************************************)
EXTENDS StatusWalk, PathLemmas, FiniteSetTheorems

EntryOf == [path : Seq(Name) \ {<<>>}, dir : BOOLEAN]
EventOf == [path : Seq(Name), dummy : BOOLEAN]

\* The options, the list and the root of a walk, which do not change.
Setting == /\ root \in Seq(Name)
           /\ list \in Seq(EntryOf)
           /\ introduce \in BOOLEAN /\ collapse \in BOOLEAN

\* Where an iteration of the walk is: the entry is the last one taken, and when
\* directories are entered, sb leads to it.
Place == /\ entry.path \in Seq(Name) /\ sb \in Seq(Name)
         /\ out \in Seq(EventOf)
         /\ pc \in {"pop", "push", "report"} => i # 0 /\ entry.path = list[i].path
         /\ pc \in {"pop", "push"} => introduce
         /\ pc = "push" => IsPrefix(sb, Front(entry.path))

TypeInv == Setting /\ TypeOK /\ Place

LEMMA ListLength == Setting => Len(list) \in Nat /\ DOMAIN list = 1..Len(list)
BY LenProperties DEF Setting

LEMMA ListEntry ==
  ASSUME Setting, NEW k \in DOMAIN list
  PROVE  /\ list[k] \in EntryOf
         /\ list[k].path \in Seq(Name) /\ list[k].path # <<>>
<1>1. list[k] \in EntryOf
  BY ListLength, ElementOfSeq DEF Setting
<1>2. QED BY <1>1 DEF EntryOf

LEMMA PathMeans ==
  ASSUME Setting
  PROVE  Path = {p \in Seq(Name) : \/ IsPrefix(p, root)
                                   \/ \E k \in DOMAIN list : IsPrefix(p, list[k].path)}
<1>1. Prefixes(root) = {p \in Seq(Name) : IsPrefix(p, root)}
  BY PrefixesMeans DEF Setting
<1>2. \A k \in DOMAIN list :
        Prefixes(list[k].path) = {p \in Seq(Name) : IsPrefix(p, list[k].path)}
  BY ListEntry, PrefixesMeans
<1>3. \A p : p \in Path <=> \/ p \in Prefixes(root)
                            \/ \E k \in DOMAIN list : p \in Prefixes(list[k].path)
  <2> DEFINE P(k) == Prefixes(list[k].path)
  <2>1. Path = Prefixes(root) \cup UNION {P(k) : k \in DOMAIN list}
    BY DEF Path
  <2> HIDE DEF P
  <2>2. ASSUME NEW p PROVE p \in UNION {P(k) : k \in DOMAIN list}
                           <=> \E k \in DOMAIN list : p \in P(k)
    <3>1. ASSUME NEW k \in DOMAIN list PROVE P(k) \in {P(n) : n \in DOMAIN list}
      OBVIOUS
    <3>2. QED BY <3>1, Zenon
  <2>3. \A p : p \in Path <=> \/ p \in Prefixes(root)
                              \/ \E k \in DOMAIN list : p \in P(k)
    BY <2>1, <2>2, Zenon
  <2>4. QED BY <2>3 DEF P
<1>4. QED BY <1>1, <1>2, <1>3

\* A directory of a path of the walk is a path of the walk.
LEMMA PathClosed ==
  ASSUME Setting, NEW p \in Path, NEW q \in Seq(Name), IsPrefix(q, p)
  PROVE  q \in Path
<1>1. p \in Seq(Name) /\ root \in Seq(Name)
  BY PathMeans DEF Setting
<1>2. CASE IsPrefix(p, root)
  BY <1>1, <1>2, PathMeans, PrefixTransitive
<1>3. CASE \E k \in DOMAIN list : IsPrefix(p, list[k].path)
  <2>1. PICK k \in DOMAIN list : IsPrefix(p, list[k].path)
    BY <1>3
  <2>2. IsPrefix(q, list[k].path)
    BY <1>1, <2>1, ListEntry, PrefixTransitive
  <2>3. QED BY <2>2, PathMeans
<1>4. QED BY <1>2, <1>3, PathMeans

LEMMA ListedPath == ASSUME Setting, NEW k \in DOMAIN list PROVE list[k].path \in Path
BY ListEntry, PathMeans, PrefixReflexive

LEMMA EmptyPath == ASSUME Setting PROVE <<>> \in Path /\ <<>> \in Seq(Name) /\ Len(<<>>) = 0
<1>1. <<>> \in Seq(Name) /\ Len(<<>>) = 0
  BY EmptySeq
<1>2. IsPrefix(<<>>, root)
  BY PrefixReflexive DEF Setting
<1>3. QED BY <1>1, <1>2, PathMeans

LEMMA SettingInit == Init => Setting
BY RootAssumption, ListingAssumption DEF Init, Setting, EntryOf

LEMMA SettingStep == Setting /\ UNCHANGED walk => Setting' /\ Path' = Path
BY DEF Setting, Path, walk

LEMMA TypeInit == Init => TypeInv
<1> SUFFICES ASSUME Init PROVE TypeInv
  OBVIOUS
<1>0. Setting
  BY SettingInit
<1>1. <<>> \in Path /\ <<>> \in Seq(Name)
  BY <1>0, EmptyPath
<1>2. Front(root) \in Seq(Name) /\ Front(root) \in Path
  BY <1>0, FrontMeans, PathMeans DEF Setting
<1>3. sb \in Path /\ sb \in Seq(Name)
  BY <1>1, <1>2 DEF Init
<1>4. entry.path = <<>> /\ i = 0 /\ pc = "entry"
  BY DEF Init
<1>5. out \in Seq(EventOf) /\ \A k \in DOMAIN out : out[k].path \in Path
  <2>1. CASE introduce /\ root = <<>>
    <3>1. out = <<Dummy(<<>>)>> /\ Dummy(<<>>) \in EventOf
      BY <1>1, <2>1 DEF Init, Dummy, EventOf
    <3>2. out \in Seq(EventOf) /\ DOMAIN out = {1} /\ out[1].path = <<>>
      BY <3>1 DEF Dummy
    <3>3. QED BY <3>2, <1>1
  <2>2. CASE ~(introduce /\ root = <<>>)
    BY <2>2, EmptySeq DEF Init
  <2>3. QED BY <2>1, <2>2
<1>6. Len(list) \in Nat
  BY <1>0, ListLength
<1>7. TypeOK
  BY <1>1, <1>3, <1>4, <1>5, <1>6 DEF TypeOK
<1>8. Place
  BY <1>1, <1>3, <1>4, <1>5 DEF Place
<1>9. QED BY <1>0, <1>7, <1>8 DEF TypeInv

\* An event for a path of the walk keeps the events in order.
LEMMA EventAdded ==
  ASSUME Setting, out \in Seq(EventOf), \A k \in DOMAIN out : out[k].path \in Path,
         NEW e \in EventOf, e.path \in Path
  PROVE  /\ Append(out, e) \in Seq(EventOf)
         /\ \A k \in DOMAIN Append(out, e) : Append(out, e)[k].path \in Path
BY Appending, LenProperties

\* What Take does: the next entry, or the second of a pair, has the path taken.
LEMMA Taken ==
  ASSUME TypeInv, Take
  PROVE  /\ i' \in DOMAIN list /\ i + 1 \in DOMAIN list
         /\ entry' = list[i + 1]
         /\ list[i'].path = list[i + 1].path
         /\ i' = i + 1 \/ (i' = i + 2 /\ Paired(i + 1))
<1>1. Len(list) \in Nat /\ DOMAIN list = 1..Len(list) /\ i \in 0..Len(list)
  BY ListLength DEF TypeInv, TypeOK
<1>2. QED BY <1>1 DEF Take, Paired

LEMMA TypeStep == TypeInv /\ [Next]_vars => TypeInv'
<1> SUFFICES ASSUME TypeInv, [Next]_vars PROVE TypeInv'
  OBVIOUS
<1>1. Setting /\ UNCHANGED walk
  BY DEF TypeInv, Next, Take, Pop, Push, Report, Throw, Finish, vars
<1>2. Setting' /\ Path' = Path
  BY <1>1, SettingStep
<1>3. Len(list) \in Nat /\ DOMAIN list = 1..Len(list) /\ list' = list
  BY <1>1, ListLength DEF walk
<1>4. SUFFICES TypeOK' /\ Place'
  BY <1>2 DEF TypeInv
<1>5. CASE Take
  <2>1. /\ i' \in DOMAIN list /\ i + 1 \in DOMAIN list
        /\ entry' = list[i + 1]
        /\ entry'.path = list[i'].path
    BY <1>5, Taken
  <2>2. entry'.path \in Seq(Name) /\ entry'.path \in Path
    BY <1>1, <2>1, ListEntry, ListedPath
  <2>3. sb' \in {sb, entry'.path} /\ out' = out /\ pc' \in {"pop", "report"}
        /\ (pc' = "pop" => introduce)
    BY <1>5 DEF Take
  <2>4. QED BY <1>1, <1>2, <1>3, <2>1, <2>2, <2>3 DEF TypeInv, TypeOK, Place, walk
<1>6. CASE Pop
  <2>1. Front(sb) \in Seq(Name) /\ Front(sb) \in Path
    BY <1>1, FrontMeans, PathClosed DEF TypeInv, TypeOK, Place
  <2>2. ASSUME pc' = "push" PROVE IsPrefix(sb, Front(entry.path))
    <3>1. sb = <<>> \/ IsPrefix(sb, Front(entry.path))
      BY <1>6, <2>2 DEF Pop
    <3>2. Front(entry.path) \in Seq(Name)
      BY FrontMeans DEF TypeInv, Place
    <3>3. QED BY <3>1, <3>2, PrefixReflexive
  <2>3. /\ pc = "pop" /\ pc' \in {"pop", "push"}
        /\ sb' = sb \/ (sb' = Front(sb) /\ pc' = "pop")
        /\ UNCHANGED <<i, entry, out>>
    BY <1>6 DEF Pop
  <2>4. QED BY <1>1, <1>2, <1>3, <2>1, <2>2, <2>3 DEF TypeInv, TypeOK, Place, walk
<1>7. CASE Push
  <2> DEFINE dir == Front(entry.path)
  <2>1. /\ dir \in Seq(Name) /\ Len(dir) \in Nat
        /\ entry.path \in Path /\ IsPrefix(dir, entry.path)
        /\ sb \in Seq(Name) /\ Len(sb) \in Nat /\ IsPrefix(sb, dir)
    BY <1>7, FrontMeans, LenProperties DEF TypeInv, TypeOK, Place, Push
  <2>2. CASE dir # <<>> /\ sb # dir
    <3>1. Len(sb) < Len(dir)
      BY <2>1, <2>2, PrefixLength
    <3>2. Len(sb) + 1 \in 0..Len(dir)
      BY <2>1, <3>1
    <3>3. /\ Deeper(dir) \in Seq(Name) /\ IsPrefix(Deeper(dir), dir)
      BY <2>1, <3>2, Beginning, BeginningIsPrefix DEF Deeper
    <3>4. Deeper(dir) \in Path
      BY <1>1, <2>1, <3>3, PathClosed
    <3>5. /\ sb' = Deeper(dir) /\ out' = Append(out, Dummy(Deeper(dir)))
          /\ pc = "push" /\ pc' = "push" /\ UNCHANGED <<i, entry>>
      BY <1>7, <2>2 DEF Push
    <3>6. Dummy(Deeper(dir)) \in EventOf /\ Dummy(Deeper(dir)).path = Deeper(dir)
      BY <3>3 DEF Dummy, EventOf
    <3>7. out' \in Seq(EventOf) /\ \A k \in DOMAIN out' : out'[k].path \in Path
      BY <1>1, <3>4, <3>5, <3>6, EventAdded DEF TypeInv, TypeOK, Place
    <3>8. QED
      BY <1>1, <1>2, <1>3, <3>3, <3>4, <3>5, <3>7 DEF TypeInv, TypeOK, Place, walk
  <2>3. CASE ~(dir # <<>> /\ sb # dir)
    BY <1>1, <1>2, <1>3, <1>7, <2>3 DEF Push, TypeInv, TypeOK, Place, walk
  <2>4. QED BY <2>2, <2>3
<1>8. CASE Report
  <2>1. /\ out' = Append(out, Event(entry)) /\ pc' = "entry"
        /\ UNCHANGED <<i, entry, sb>>
    BY <1>8 DEF Report
  <2>2. Event(entry) \in EventOf /\ Event(entry).path = entry.path
    BY DEF Event, EventOf, TypeInv, Place
  <2>3. out' \in Seq(EventOf) /\ \A k \in DOMAIN out' : out'[k].path \in Path
    BY <1>1, <2>1, <2>2, EventAdded DEF TypeInv, TypeOK, Place
  <2>4. QED BY <1>2, <1>3, <2>1, <2>3 DEF TypeInv, TypeOK, Place
<1>9. CASE Throw \/ Finish \/ UNCHANGED vars
  BY <1>2, <1>3, <1>9 DEF Throw, Finish, vars, TypeInv, TypeOK, Place, walk
<1>10. QED BY <1>5, <1>6, <1>7, <1>8, <1>9 DEF Next

\* Every variable keeps its type: what is reported is an entry of the list or a
\* directory that leads to one, and add_one_component always has one to add.
THEOREM TypeCorrect == Spec => []TypeOK
<1>1. TypeInv => TypeOK
  BY DEF TypeInv
<1>2. QED BY TypeInit, TypeStep, <1>1, PTL DEF Spec

-----------------------------------------------------------------------------
(***************************************************************************)
(* No path before its directory.                                           *)
(***************************************************************************)

Reported == {out[k].path : k \in DOMAIN out}

\* Why the directory of whatever is reported next has been reported: the walk is at
\* a path that has, or still at the one above the root, where it starts.
Met(p) == p = Front(root) \/ p \in Reported
Located ==
  introduce /\ BelowRoot =>
    /\ root = <<>> => <<>> \in Reported
    /\ pc \in {"entry", "pop", "push"} => Met(sb)
    /\ pc = "report" => Met(Front(entry.path))

\* Where sb is left at an entry: at the entry itself or the directory it is in.
Left == introduce /\ pc = "report" => sb \in {entry.path, Front(entry.path)}

ParentInv == TypeInv /\ Left /\ Located /\ ParentFirst

LEMMA ReportedMeans ==
  ASSUME TypeInv
  PROVE  /\ Len(out) \in Nat /\ DOMAIN out = 1..Len(out)
         /\ Reported \subseteq Seq(Name)
<1>1. Len(out) \in Nat /\ DOMAIN out = 1..Len(out)
  BY LenProperties DEF TypeInv, Place
<1>2. \A k \in DOMAIN out : out[k] \in EventOf
  BY <1>1, ElementOfSeq DEF TypeInv, Place
<1>3. QED BY <1>1, <1>2 DEF Reported, EventOf

\* One more event.
LEMMA OneMore ==
  ASSUME TypeInv, NEW e \in EventOf, out' = Append(out, e)
  PROVE  /\ Reported' = Reported \cup {e.path}
         /\ DOMAIN out' = 1..(Len(out) + 1)
         /\ \A k \in DOMAIN out : out'[k] = out[k]
         /\ out'[Len(out) + 1] = e
<1>1. /\ Len(out) \in Nat /\ DOMAIN out = 1..Len(out)
      /\ DOMAIN out' = 1..(Len(out) + 1)
      /\ \A k \in 1..Len(out) : out'[k] = out[k]
      /\ out'[Len(out) + 1] = e
  BY ReportedMeans, Appending DEF TypeInv, Place
<1>2. Reported' = Reported \cup {e.path}
  BY <1>1 DEF Reported
<1>3. QED BY <1>1, <1>2

\* An event whose directory has been reported may follow.
LEMMA ParentAdded ==
  ASSUME TypeInv, ParentFirst, UNCHANGED walk,
         NEW e \in EventOf, out' = Append(out, e),
         e.path \in {root, <<>>} \cup {p \in Seq(Name) : Front(p) \in Reported}
  PROVE  ParentFirst'
<1>1. Len(out) \in Nat /\ DOMAIN out = 1..Len(out)
  BY ReportedMeans
<1>2. /\ DOMAIN out' = 1..(Len(out) + 1)
      /\ \A k \in 1..Len(out) : out'[k] = out[k]
      /\ out'[Len(out) + 1] = e
  BY <1>1, OneMore
<1>3. SUFFICES ASSUME introduce, BelowRoot, NEW k \in DOMAIN out'
               PROVE  out'[k].path \in {root, <<>>} \/
                        \E j \in 1..(k - 1) : out'[j].path = Front(out'[k].path)
  BY DEF ParentFirst, BelowRoot, walk
<1>4. CASE k \in 1..Len(out)
  <2>1. out[k].path \in {root, <<>>} \/
          \E j \in 1..(k - 1) : out[j].path = Front(out[k].path)
    BY <1>1, <1>3, <1>4 DEF ParentFirst
  <2>2. \A j \in 1..(k - 1) : out'[j] = out[j]
    BY <1>1, <1>2, <1>4
  <2>3. QED BY <1>2, <1>4, <2>1, <2>2
<1>5. CASE k = Len(out) + 1
  <2>1. ASSUME Front(e.path) \in Reported
        PROVE  \E j \in 1..Len(out) : out[j].path = Front(e.path)
    BY <1>1, <2>1 DEF Reported
  <2>2. QED BY <1>1, <1>2, <1>5, <2>1
<1>6. QED BY <1>1, <1>2, <1>3, <1>4, <1>5

\* What the walk enters on its way.
LEMMA DeeperMeans ==
  ASSUME NEW dir \in Seq(Name), sb \in Seq(Name), IsPrefix(sb, dir), sb # dir
  PROVE  /\ Deeper(dir) \in Seq(Name) /\ IsPrefix(Deeper(dir), dir)
         /\ Len(Deeper(dir)) = Len(sb) + 1
         /\ Front(Deeper(dir)) = sb
         /\ IsPrefix(sb, Deeper(dir))
<1>1. Len(sb) \in Nat /\ Len(dir) \in Nat /\ Len(sb) + 1 \in 0..Len(dir)
  BY PrefixLength
<1>2. /\ Deeper(dir) \in Seq(Name) /\ IsPrefix(Deeper(dir), dir)
      /\ Len(Deeper(dir)) = Len(sb) + 1
  BY <1>1, Beginning, BeginningIsPrefix DEF Deeper
<1>3. IsPrefix(sb, Deeper(dir))
  BY <1>1, <1>2, PrefixesNest
<1>4. /\ Front(Deeper(dir)) \in Seq(Name) /\ IsPrefix(Front(Deeper(dir)), Deeper(dir))
      /\ Len(Front(Deeper(dir))) = Len(sb)
  BY <1>1, <1>2, FrontMeans, EmptySeq
<1>5. IsPrefix(Front(Deeper(dir)), sb)
  BY <1>1, <1>2, <1>3, <1>4, PrefixesNest
<1>6. QED BY <1>1, <1>2, <1>3, <1>4, <1>5, PrefixLength

\* What is above the root is above everything the walk comes to; below the root,
\* the root is too.
LEMMA RootAbove ==
  ASSUME root \in Seq(Name), NEW p \in Seq(Name), IsPrefix(root, p)
  PROVE  /\ IsPrefix(Front(root), Front(p))
         /\ p # root => IsPrefix(root, Front(p))
         /\ p # root /\ Front(p) = Front(root) => root = <<>>
<1>1. /\ Front(root) \in Seq(Name) /\ IsPrefix(Front(root), root)
      /\ Front(p) \in Seq(Name) /\ IsPrefix(Front(p), p)
      /\ Len(root) \in Nat /\ Len(p) \in Nat
  BY FrontMeans, LenProperties
<1>2. p # root => IsPrefix(root, Front(p))
  BY PrefixOfFront
<1>3. IsPrefix(Front(root), Front(p))
  BY <1>1, <1>2, PrefixTransitive, PrefixReflexive
<1>4. ASSUME p # root, Front(p) = Front(root) PROVE root = <<>>
  <2>1. IsPrefix(root, Front(root))
    BY <1>2, <1>4
  <2>2. Len(root) <= Len(Front(root))
    BY <1>1, <2>1, PrefixLength
  <2>3. QED BY <1>1, <2>2, FrontMeans
<1>5. QED BY <1>2, <1>3, <1>4

LEMMA ParentInit == Init => ParentInv
<1> SUFFICES ASSUME Init PROVE ParentInv
  OBVIOUS
<1>1. TypeInv /\ Left /\ pc = "entry" /\ (introduce => sb = Front(root))
  BY TypeInit DEF Init, Left
<1>2. CASE introduce /\ root = <<>>
  <2>1. out = <<Dummy(<<>>)>>
    BY <1>2 DEF Init
  <2>2. DOMAIN out = {1} /\ out[1].path = <<>>
    BY <2>1 DEF Dummy
  <2>3. QED BY <1>1, <1>2, <2>2 DEF ParentInv, Located, Met, Reported, ParentFirst
<1>3. CASE introduce /\ root # <<>>
  <2>1. out = <<>> /\ DOMAIN out = {}
    BY <1>3 DEF Init
  <2>2. QED BY <1>1, <1>3, <2>1 DEF ParentInv, Located, Met, ParentFirst
<1>4. CASE ~introduce
  BY <1>1, <1>4 DEF ParentInv, Located, ParentFirst
<1>5. QED BY <1>2, <1>3, <1>4

LEMMA LeftStep == TypeInv /\ Left /\ [Next]_vars => Left'
<1> SUFFICES ASSUME TypeInv, Left, [Next]_vars, introduce', pc' = "report"
             PROVE  sb' \in {entry'.path, Front(entry'.path)}
  BY DEF Left
<1>1. introduce
  BY DEF Next, Take, Pop, Push, Report, Throw, Finish, vars, walk
<1>2. CASE Take
  BY <1>1, <1>2 DEF Take
<1>3. CASE Push
  <2> DEFINE dir == Front(entry.path)
  <2>1. /\ dir \in Seq(Name) /\ sb \in Seq(Name) /\ IsPrefix(sb, dir)
        /\ dir = <<>> \/ sb = dir
        /\ sb' = sb /\ entry' = entry
    BY <1>3, FrontMeans DEF Push, TypeInv, Place
  <2>2. sb = dir
    BY <2>1, EmptySeq, PrefixLength, PrefixReflexive
  <2>3. QED BY <2>1, <2>2
<1>4. CASE Pop \/ Report \/ Throw \/ Finish \/ UNCHANGED vars
  BY <1>1, <1>4 DEF Pop, Report, Throw, Finish, vars, walk, Left
<1>5. QED BY <1>2, <1>3, <1>4 DEF Next

LEMMA ParentStep == ParentInv /\ [Next]_vars => ParentInv'
<1> SUFFICES ASSUME ParentInv, [Next]_vars PROVE ParentInv'
  OBVIOUS
<1>0. Left'
  BY LeftStep DEF ParentInv
<1>1. TypeInv /\ TypeInv' /\ Setting /\ UNCHANGED walk
  BY TypeStep DEF ParentInv, TypeInv, Next, Take, Pop, Push, Report, Throw, Finish, vars
<1>2. /\ root \in Seq(Name) /\ root' = root /\ introduce' = introduce
      /\ BelowRoot' <=> BelowRoot
  BY <1>1 DEF Setting, BelowRoot, walk
<1>3. CASE ~(introduce /\ BelowRoot)
  BY <1>0, <1>1, <1>2, <1>3 DEF ParentInv, Located, ParentFirst
<1> DEFINE dir == Front(entry.path)
<1>4. ASSUME pc \in {"pop", "push", "report"}
      PROVE  /\ entry.path \in Seq(Name) /\ entry.path # <<>>
             /\ BelowRoot => IsPrefix(root, entry.path)
             /\ dir \in Seq(Name)
  <2>1. i \in DOMAIN list /\ entry.path = list[i].path
    BY <1>1, <1>4, ListLength DEF TypeInv, TypeOK, Place
  <2>2. QED BY <1>1, <2>1, ListEntry, FrontMeans DEF BelowRoot
<1>5. CASE introduce /\ BelowRoot /\ Take
  <2>1. /\ pc = "entry" /\ pc' \in {"pop", "report"} /\ out' = out
        /\ pc' = "pop" => sb' = sb
        /\ pc' = "report" => Front(entry'.path) = sb /\ sb' = entry'.path
    BY <1>5 DEF Take
  <2>2. Reported' = Reported
    BY <2>1 DEF Reported
  <2>3. QED BY <1>0, <1>1, <1>2, <1>5, <2>1, <2>2 DEF ParentInv, Located, Met, ParentFirst
<1>6. CASE introduce /\ BelowRoot /\ Pop
  <2>1. /\ pc = "pop" /\ pc' \in {"pop", "push"} /\ UNCHANGED <<entry, out>>
        /\ \/ sb' = sb
           \/ sb' = Front(sb) /\ sb # <<>> /\ ~IsPrefix(sb, dir)
    BY <1>6 DEF Pop
  <2>2. Reported' = Reported
    BY <2>1 DEF Reported
  <2>3. Met(sb)
    BY <1>6, <2>1 DEF ParentInv, Located
  <2>4. ASSUME sb # <<>>, ~IsPrefix(sb, dir) PROVE Met(Front(sb))
    <3>1. sb # Front(root)
      BY <1>2, <1>4, <1>6, <2>1, <2>4, RootAbove
    <3>2. PICK k \in DOMAIN out : out[k].path = sb
      BY <2>3, <3>1 DEF Met, Reported
    <3>3. \/ sb = root
          \/ \E j \in 1..(k - 1) : out[j].path = Front(sb)
      BY <1>6, <2>4, <3>2 DEF ParentInv, ParentFirst
    <3>4. Len(out) \in Nat /\ DOMAIN out = 1..Len(out)
      BY <1>1, ReportedMeans
    <3>5. \A j \in 1..(k - 1) : j \in DOMAIN out
      BY <3>2, <3>4
    <3>6. QED BY <3>3, <3>5 DEF Met, Reported
  <2>5. QED
    BY <1>0, <1>1, <1>2, <1>6, <2>1, <2>2, <2>3, <2>4 DEF ParentInv, Located, Met, ParentFirst
<1>7. CASE introduce /\ BelowRoot /\ Push
  <2>1. /\ pc = "push" /\ UNCHANGED <<entry>> /\ sb \in Seq(Name) /\ IsPrefix(sb, dir)
        /\ Met(sb)
    BY <1>1, <1>7 DEF Push, ParentInv, Located, TypeInv, Place
  <2>2. CASE dir # <<>> /\ sb # dir
    <3>1. /\ sb' = Deeper(dir) /\ out' = Append(out, Dummy(Deeper(dir))) /\ pc' = "push"
      BY <1>7, <2>2 DEF Push
    <3>2. /\ Deeper(dir) \in Seq(Name) /\ Front(Deeper(dir)) = sb
          /\ Len(Deeper(dir)) = Len(sb) + 1
          /\ IsPrefix(Deeper(dir), dir)
      BY <1>4, <2>1, <2>2, DeeperMeans
    <3>3. Dummy(Deeper(dir)) \in EventOf /\ Dummy(Deeper(dir)).path = Deeper(dir)
      BY <3>2 DEF Dummy, EventOf
    <3>4. Reported' = Reported \cup {Deeper(dir)}
      BY <1>1, <3>1, <3>3, OneMore
    <3>5. Deeper(dir) = root \/ Front(Deeper(dir)) \in Reported
      <4>1. CASE sb \in Reported
        BY <3>2, <4>1
      <4>2. CASE sb \notin Reported
        <5>1. sb = Front(root) /\ root # <<>>
          BY <1>7, <2>1, <4>2, FrontMeans, <1>2 DEF Met, ParentInv, Located
        <5>2. entry.path # root
          BY <2>2, <5>1
        <5>3. IsPrefix(root, dir)
          BY <1>2, <1>4, <1>7, <2>1, <5>2, RootAbove
        <5>4. Len(root) \in Nat /\ Len(Deeper(dir)) = Len(root)
          BY <1>2, <3>2, <5>1, FrontMeans, LenProperties
        <5>5. IsPrefix(root, Deeper(dir))
          BY <1>2, <1>4, <2>1, <3>2, <5>3, <5>4, PrefixesNest
        <5>6. QED BY <1>2, <3>2, <5>4, <5>5, PrefixLength
      <4>3. QED BY <4>1, <4>2
    <3>6. ParentFirst'
      BY <1>1, <3>1, <3>2, <3>3, <3>5, ParentAdded DEF ParentInv
    <3>7. Located'
      BY <1>2, <1>7, <3>1, <3>4 DEF ParentInv, Located, Met
    <3>8. QED BY <1>0, <1>1, <3>6, <3>7 DEF ParentInv
  <2>3. CASE ~(dir # <<>> /\ sb # dir)
    <3>1. sb = dir
      BY <1>4, <2>1, <2>3, EmptySeq, PrefixLength, PrefixReflexive
    <3>2. pc' = "report" /\ UNCHANGED <<sb, out, entry>>
      BY <1>7, <2>3 DEF Push
    <3>3. Reported' = Reported
      BY <3>2 DEF Reported
    <3>4. QED
      BY <1>0, <1>1, <1>2, <1>7, <2>1, <3>1, <3>2, <3>3 DEF ParentInv, Located, Met, ParentFirst
  <2>4. QED BY <2>2, <2>3
<1>8. CASE introduce /\ BelowRoot /\ Report
  <2>1. /\ pc = "report" /\ pc' = "entry"
        /\ out' = Append(out, Event(entry)) /\ UNCHANGED <<entry, sb>>
        /\ Met(dir) /\ sb \in {entry.path, dir}
    BY <1>8 DEF Report, ParentInv, Located, Left
  <2>2. Event(entry) \in EventOf /\ Event(entry).path = entry.path
    BY <1>4, <2>1 DEF Event, EventOf
  <2>3. Reported' = Reported \cup {entry.path}
    BY <1>1, <2>1, <2>2, OneMore
  <2>4. entry.path = root \/ dir \in Reported
    <3>1. ASSUME entry.path # root, dir = Front(root) PROVE dir \in Reported
      <4>1. root = <<>> /\ Front(root) = <<>>
        BY <1>2, <1>4, <1>8, <2>1, <3>1, RootAbove, FrontMeans
      <4>2. QED BY <1>8, <3>1, <4>1 DEF ParentInv, Located
    <3>2. QED BY <2>1, <3>1 DEF Met
  <2>5. ParentFirst'
    BY <1>1, <1>4, <2>1, <2>2, <2>4, ParentAdded DEF ParentInv
  <2>6. Located'
    BY <1>2, <1>8, <2>1, <2>3 DEF ParentInv, Located, Met
  <2>7. QED BY <1>0, <1>1, <2>5, <2>6 DEF ParentInv
<1>9. CASE Throw \/ Finish \/ UNCHANGED vars
  <2>1. UNCHANGED <<entry, sb, out>> /\ pc' \in {pc, "done", "thrown"}
    BY <1>9 DEF Throw, Finish, vars
  <2>2. Reported' = Reported
    BY <2>1 DEF Reported
  <2>3. QED BY <1>0, <1>1, <1>2, <2>1, <2>2 DEF ParentInv, Located, Met, ParentFirst
<1>10. QED BY <1>3, <1>5, <1>6, <1>7, <1>8, <1>9 DEF Next

\* Whatever the list and the root: no path is reported before its directory.
THEOREM DirectoriesFirst == Spec => []ParentFirst
<1>1. ParentInv => ParentFirst
  BY DEF ParentInv
<1>2. QED BY ParentInit, ParentStep, <1>1, PTL DEF Spec

-----------------------------------------------------------------------------
(***************************************************************************)
(* No path twice.                                                          *)
(***************************************************************************)

\* Of what has been reported, only what leads to where the walk is can lead to an
\* entry still to come, because what is below a directory is in one stretch of the
\* list; and what has been reported has been for an entry that was taken.
ToCome == (i + 1)..Len(list)
Behind == \A p \in Reported : p = <<>> \/ \E j \in 1..i : IsPrefix(p, list[j].path)
Ahead(q) == \A p \in Reported, k \in ToCome :
              IsPrefix(p, list[k].path) => introduce /\ IsPrefix(p, q)
Once == \A j, k \in DOMAIN out : out[j].path = out[k].path => j = k

Fresh ==
  /\ i # 0 => ~Paired(i)
  /\ Once
  /\ Behind
  /\ pc = "entry" => Ahead(sb)
  /\ pc \in {"pop", "push", "report"} => entry.path \notin Reported /\ Ahead(entry.path)
  /\ pc \in {"pop", "push"} =>
       \A p \in Reported : IsPrefix(p, entry.path) => IsPrefix(p, sb)

OnceInv == TypeInv /\ Left /\ (Plain /\ InOrder => Fresh)

\* One more event, for a path not reported before.
LEMMA OnceAdded ==
  ASSUME TypeInv, Once, NEW e \in EventOf, out' = Append(out, e), e.path \notin Reported
  PROVE  Once'
<1>1. /\ Len(out) \in Nat /\ DOMAIN out = 1..Len(out)
      /\ DOMAIN out' = 1..(Len(out) + 1)
      /\ \A k \in 1..Len(out) : out'[k] = out[k]
      /\ out'[Len(out) + 1] = e
  BY ReportedMeans, OneMore
<1>2. \A k \in 1..Len(out) : out[k].path # e.path
  BY <1>1 DEF Reported
<1>3. SUFFICES ASSUME NEW j \in DOMAIN out', NEW k \in DOMAIN out',
                      out'[j].path = out'[k].path
               PROVE  j = k
  BY DEF Once
<1>4. CASE j \in 1..Len(out) /\ k \in 1..Len(out)
  BY <1>1, <1>3, <1>4 DEF Once
<1>5. CASE j = Len(out) + 1 \/ k = Len(out) + 1
  BY <1>1, <1>2, <1>3, <1>5
<1>6. QED BY <1>1, <1>4, <1>5

\* What is above two entries is above those between them.
LEMMA Stretch ==
  ASSUME Setting, InOrder, NEW j \in DOMAIN list, NEW k \in DOMAIN list, NEW n \in DOMAIN list,
         j < n, n < k, NEW p \in Seq(Name), p # list[j].path,
         IsPrefix(p, list[j].path), IsPrefix(p, list[k].path)
  PROVE  IsPrefix(p, list[n].path)
<1>1. DOMAIN list = 1..Len(list) /\ Len(list) \in Nat
  BY ListLength
<1>2. list[j].path \in Seq(Name) /\ list[k].path \in Seq(Name)
  BY ListEntry
<1>3. j < k /\ n \in j..k
  BY <1>1
<1>4. /\ ~IsStrictPrefix(list[k].path, list[j].path)
      /\ \A d \in Prefixes(list[j].path) :
           d # list[j].path /\ IsStrictPrefix(d, list[k].path) => IsPrefix(d, list[n].path)
  BY <1>1, <1>3 DEF InOrder
<1>5. p \in Prefixes(list[j].path)
  BY <1>2, PrefixesMeans
<1>6. p # list[k].path
  BY <1>4 DEF IsStrictPrefix
<1>7. QED BY <1>4, <1>5, <1>6 DEF IsStrictPrefix

LEMMA OnceInit == Init => OnceInv
<1> SUFFICES ASSUME Init PROVE OnceInv
  OBVIOUS
<1>1. TypeInv /\ pc = "entry" /\ i = 0 /\ Left
  BY TypeInit DEF Init, Left
<1>2. CASE introduce /\ root = <<>>
  <2>1. out = <<Dummy(<<>>)>> /\ sb = Front(<<>>)
    BY <1>2 DEF Init
  <2>2. sb = <<>>
    BY <2>1, <1>1, <1>2, FrontMeans DEF TypeInv, Setting
  <2>3. DOMAIN out = {1} /\ out[1].path = <<>>
    BY <2>1 DEF Dummy
  <2>4. Reported = {<<>>} /\ Once
    BY <2>3 DEF Reported, Once
  <2>5. IsPrefix(<<>>, sb)
    BY <1>1, PrefixReflexive DEF TypeInv, Place
  <2>6. QED BY <1>1, <1>2, <2>4, <2>5 DEF OnceInv, Fresh, Behind, Ahead
<1>3. CASE ~(introduce /\ root = <<>>)
  <2>1. out = <<>> /\ DOMAIN out = {}
    BY <1>3 DEF Init
  <2>2. QED BY <1>1, <2>1 DEF OnceInv, Fresh, Behind, Ahead, Once, Reported
<1>4. QED BY <1>2, <1>3

\* An entry that is taken has not been reported, and what is above it and has been
\* is above what comes after it.
LEMMA FreshTaken ==
  ASSUME OnceInv, Plain, InOrder, Fresh, Take
  PROVE  /\ i' # 0 /\ ~Paired(i')
         /\ entry'.path \notin Reported
         /\ \A p \in Reported : p = <<>> \/ \E j \in 1..i' : IsPrefix(p, list[j].path)
         /\ \A p \in Reported, k \in (i' + 1)..Len(list) :
              IsPrefix(p, list[k].path) => introduce /\ IsPrefix(p, entry'.path)
         /\ \A p \in Reported : IsPrefix(p, entry'.path) => introduce /\ IsPrefix(p, sb)
<1>0. TypeInv /\ Setting /\ pc = "entry"
  BY DEF OnceInv, TypeInv, Take
<1>1. /\ Len(list) \in Nat /\ DOMAIN list = 1..Len(list) /\ i \in 0..Len(list)
      /\ Reported \subseteq Seq(Name)
  BY <1>0, ListLength, ReportedMeans DEF TypeInv, TypeOK
<1>2. /\ i' \in DOMAIN list /\ i + 1 \in DOMAIN list
      /\ entry' = list[i + 1]
      /\ list[i'].path = list[i + 1].path
      /\ i' = i + 1 \/ (i' = i + 2 /\ Paired(i + 1))
  BY <1>0, Taken
<1>3. \A k \in DOMAIN list : list[k].path \in Seq(Name) /\ list[k].path # <<>>
  BY <1>0, ListEntry
<1>4. entry'.path = list[i'].path /\ i' \in ToCome /\ i + 1 \in ToCome
  BY <1>1, <1>2 DEF ToCome
<1>5. i' # 0 /\ ~Paired(i')
  <2>1. CASE i' = i + 1
    BY <1>1, <2>1 DEF Take
  <2>2. CASE i' = i + 2
    <3>1. ASSUME Paired(i') PROVE FALSE
      <4>1. i' + 1 \in DOMAIN list /\ list[i' + 1].path = list[i + 1].path
        BY <1>1, <1>2, <3>1 DEF Paired
      <4>2. IsPrefix(list[i + 1].path, list[i' + 1].path)
        BY <1>2, <1>3, <4>1, PrefixReflexive
      <4>3. i + 1 < i' + 1 /\ i' + 1 # i + 1 + 1
        BY <1>1, <2>2
      <4>4. QED BY <1>2, <4>1, <4>2, <4>3 DEF Plain
    <3>2. QED BY <1>1, <2>2, <3>1
  <2>3. QED BY <1>2, <2>1, <2>2
\* Nothing to come is below an entry that was taken.
<1>6. ASSUME NEW j \in 1..i, NEW k \in ToCome PROVE ~IsPrefix(list[j].path, list[k].path)
  <2>1. j \in DOMAIN list /\ k \in DOMAIN list /\ j < k /\ (k = j + 1 => j = i /\ i # 0)
    BY <1>1 DEF ToCome
  <2>2. IsPrefix(list[j].path, list[k].path) => k = j + 1 /\ Paired(j)
    BY <1>1, <2>1 DEF Plain, Paired
  <2>3. QED BY <2>1, <2>2 DEF Fresh
<1>7. entry'.path \notin Reported
  <2>1. SUFFICES ASSUME entry'.path \in Reported PROVE FALSE
    OBVIOUS
  <2>2. PICK j \in 1..i : IsPrefix(entry'.path, list[j].path)
    BY <2>1, <1>2, <1>3 DEF Fresh, Behind
  <2>3. j \in DOMAIN list /\ j < i'
    BY <1>1, <1>2
  <2>4. ~IsStrictPrefix(entry'.path, list[j].path)
    BY <1>2, <1>4, <2>3 DEF InOrder
  <2>5. entry'.path = list[j].path
    BY <2>2, <2>4 DEF IsStrictPrefix
  <2>6. IsPrefix(list[j].path, list[i'].path)
    BY <1>3, <1>4, <2>3, <2>5, PrefixReflexive
  <2>7. QED BY <1>4, <1>6, <2>6
<1>8. \A p \in Reported : p = <<>> \/ \E j \in 1..i' : IsPrefix(p, list[j].path)
  BY <1>1, <1>2 DEF Fresh, Behind
<1>9. ASSUME NEW p \in Reported, NEW k \in (i' + 1)..Len(list), IsPrefix(p, list[k].path)
      PROVE  introduce /\ IsPrefix(p, entry'.path)
  <2>1. k \in ToCome /\ k \in DOMAIN list /\ i' < k
    BY <1>1, <1>2 DEF ToCome
  <2>2. introduce
    BY <1>0, <1>9, <2>1 DEF Fresh, Ahead
  <2>3. CASE p = <<>>
    BY <1>2, <1>3, <2>2, <2>3, PrefixReflexive
  <2>4. CASE p # <<>>
    <3>1. PICK j \in 1..i : IsPrefix(p, list[j].path)
      BY <2>4 DEF Fresh, Behind
    <3>2. p # list[j].path
      BY <1>6, <1>9, <2>1
    <3>3. j \in DOMAIN list /\ j < i' /\ p \in Seq(Name)
      BY <1>1, <1>2
    <3>4. IsPrefix(p, list[i'].path)
      BY <1>0, <1>2, <1>9, <2>1, <3>1, <3>2, <3>3, Stretch
    <3>5. QED BY <1>4, <2>2, <3>4
  <2>5. QED BY <2>2, <2>3, <2>4
<1>10. \A p \in Reported : IsPrefix(p, entry'.path) => introduce /\ IsPrefix(p, sb)
  BY <1>0, <1>4 DEF Fresh, Ahead
<1>11. QED BY <1>5, <1>7, <1>8, <1>9, <1>10

LEMMA OnceStep == OnceInv /\ [Next]_vars => OnceInv'
<1> SUFFICES ASSUME OnceInv, [Next]_vars PROVE OnceInv'
  OBVIOUS
<1>1. TypeInv /\ TypeInv' /\ Setting /\ UNCHANGED walk
  BY TypeStep
     DEF OnceInv, TypeInv, Next, Take, Pop, Push, Report, Throw, Finish, vars
<1>2. /\ list' = list /\ introduce' = introduce
      /\ \A k : Paired(k)' <=> Paired(k)
      /\ Plain' <=> Plain
      /\ InOrder' <=> InOrder
  BY <1>1 DEF walk, Plain, InOrder, Paired
<1>11. Left'
  BY <1>1, <1>2, LeftStep DEF OnceInv
<1>3. SUFFICES ASSUME Plain, InOrder, Fresh PROVE Fresh'
  BY <1>1, <1>2, <1>11 DEF OnceInv
<1> DEFINE dir == Front(entry.path)
<1>4. ASSUME pc \in {"pop", "push", "report"}
      PROVE  /\ entry.path \in Seq(Name) /\ entry.path # <<>>
             /\ dir \in Seq(Name) /\ IsPrefix(dir, entry.path) /\ dir # entry.path
             /\ entry.path = list[i].path /\ i \in 1..i /\ i \in DOMAIN list
  <2>1. i \in DOMAIN list /\ entry.path = list[i].path /\ i \in 1..i
    BY <1>1, <1>4, ListLength DEF TypeInv, TypeOK, Place
  <2>2. /\ entry.path \in Seq(Name) /\ entry.path # <<>>
        /\ dir \in Seq(Name) /\ IsPrefix(dir, entry.path)
        /\ Len(dir) = Len(entry.path) - 1 /\ Len(entry.path) \in Nat
    BY <1>1, <2>1, ListEntry, FrontMeans, LenProperties
  <2>3. QED BY <2>1, <2>2
<1>5. CASE Take
  <2>1. /\ pc = "entry" /\ pc' \in {"pop", "report"} /\ out' = out
        /\ pc' = "pop" => sb' = sb
    BY <1>5 DEF Take
  <2>2. Reported' = Reported /\ Once'
    BY <1>3, <2>1 DEF Reported, Fresh, Once
  <2>3. /\ i' # 0 /\ ~Paired(i')
        /\ entry'.path \notin Reported
        /\ \A p \in Reported : p = <<>> \/ \E j \in 1..i' : IsPrefix(p, list[j].path)
        /\ \A p \in Reported, k \in (i' + 1)..Len(list) :
             IsPrefix(p, list[k].path) => introduce /\ IsPrefix(p, entry'.path)
        /\ \A p \in Reported : IsPrefix(p, entry'.path) => introduce /\ IsPrefix(p, sb)
    BY <1>3, <1>5, FreshTaken
  <2>4. Behind' /\ Ahead(entry.path)'
    BY <1>2, <2>2, <2>3 DEF Behind, Ahead, ToCome
  <2>5. ~Paired(i)'
    BY <1>2, <2>3 DEF Paired
  <2>6. pc' = "pop" =>
          \A p \in Reported' : IsPrefix(p, entry'.path) => IsPrefix(p, sb')
    BY <2>1, <2>2, <2>3
  <2>7. QED BY <2>1, <2>2, <2>3, <2>4, <2>5, <2>6 DEF Fresh
<1>6. CASE Pop
  <2>1. /\ pc = "pop" /\ pc' \in {"pop", "push"} /\ UNCHANGED <<i, entry, out>>
        /\ \/ sb' = sb
           \/ sb' = Front(sb) /\ ~IsPrefix(sb, dir)
    BY <1>6 DEF Pop
  <2>2. Reported' = Reported /\ Reported \subseteq Seq(Name) /\ sb \in Seq(Name)
    BY <1>1, <2>1, ReportedMeans DEF Reported, TypeInv, Place
  <2>3. ASSUME NEW p \in Reported, IsPrefix(p, entry.path) PROVE IsPrefix(p, sb')
    <3>1. IsPrefix(p, sb) /\ p # entry.path
      BY <1>3, <2>1, <2>3 DEF Fresh
    <3>2. IsPrefix(p, dir)
      BY <1>4, <2>1, <2>2, <2>3, <3>1, PrefixOfFront
    <3>3. CASE sb' = sb
      BY <3>1, <3>3
    <3>4. CASE sb' = Front(sb) /\ ~IsPrefix(sb, dir)
      BY <2>2, <3>1, <3>2, <3>4, PrefixOfFront
    <3>5. QED BY <2>1, <3>3, <3>4
  <2>4. QED
    BY <1>2, <1>3, <2>1, <2>2, <2>3 DEF Fresh, Once, Behind, Ahead, ToCome, Paired
<1>7. CASE Push
  <2>1. /\ pc = "push" /\ UNCHANGED <<i, entry>>
        /\ sb \in Seq(Name) /\ IsPrefix(sb, dir) /\ introduce
        /\ Reported \subseteq Seq(Name)
    BY <1>1, <1>7, ReportedMeans DEF Push, TypeInv, Place
  <2>2. CASE dir # <<>> /\ sb # dir
    <3> DEFINE next == Deeper(dir)
    <3>1. sb' = next /\ out' = Append(out, Dummy(next)) /\ pc' = "push"
      BY <1>7, <2>2 DEF Push
    <3>2. /\ next \in Seq(Name) /\ IsPrefix(next, dir) /\ IsPrefix(sb, next)
          /\ Len(next) = Len(sb) + 1 /\ Len(sb) \in Nat
      BY <1>4, <2>1, <2>2, DeeperMeans, LenProperties
    <3>3. Dummy(next) \in EventOf /\ Dummy(next).path = next
      BY <3>2 DEF Dummy, EventOf
    <3> HIDE DEF next
    <3>4. IsPrefix(next, entry.path) /\ next # entry.path
      BY <1>4, <2>1, <3>2, PrefixTransitive, PrefixLength
    <3>5. next \notin Reported
      <4>1. ~IsPrefix(next, sb)
        BY <2>1, <3>2, PrefixLength
      <4>2. QED BY <1>3, <2>1, <3>4, <4>1 DEF Fresh
    <3>6. Reported' = Reported \cup {next} /\ Once'
      BY <1>1, <1>3, <3>1, <3>3, <3>5, OneMore, OnceAdded DEF Fresh
    <3>7. entry'.path \notin Reported'
      BY <1>3, <2>1, <3>4, <3>6 DEF Fresh
    <3>8. Behind'
      <4>1. \E j \in 1..i : IsPrefix(next, list[j].path)
        BY <1>4, <2>1, <3>4
      <4>2. QED BY <1>2, <1>3, <2>1, <3>6, <4>1 DEF Fresh, Behind
    <3>9. Ahead(entry.path)'
      BY <1>2, <1>3, <2>1, <3>4, <3>6 DEF Fresh, Ahead, ToCome
    <3>10. ASSUME NEW p \in Reported', IsPrefix(p, entry.path) PROVE IsPrefix(p, sb')
      <4>1. CASE p = next
        BY <3>1, <3>2, <4>1, PrefixReflexive
      <4>2. CASE p \in Reported
        <5>1. IsPrefix(p, sb)
          BY <1>3, <2>1, <3>10, <4>2 DEF Fresh
        <5>2. QED BY <2>1, <3>1, <3>2, <4>2, <5>1, PrefixTransitive
      <4>3. QED BY <3>6, <4>1, <4>2
    <3>11. (i # 0 => ~Paired(i))'
      BY <1>2, <1>3, <2>1 DEF Fresh, Paired
    <3>12. QED BY <2>1, <3>1, <3>6, <3>7, <3>8, <3>9, <3>10, <3>11 DEF Fresh
  <2>3. CASE ~(dir # <<>> /\ sb # dir)
    <3>1. pc' = "report" /\ UNCHANGED <<sb, out>>
      BY <1>7, <2>3 DEF Push
    <3>2. Reported' = Reported
      BY <3>1 DEF Reported
    <3>3. QED
      BY <1>2, <1>3, <2>1, <3>1, <3>2 DEF Fresh, Once, Behind, Ahead, ToCome, Paired
  <2>4. QED BY <2>2, <2>3
<1>8. CASE Report
  <2>1. /\ pc = "report" /\ pc' = "entry"
        /\ out' = Append(out, Event(entry)) /\ UNCHANGED <<i, entry, sb>>
        /\ introduce => sb \in {entry.path, dir}
        /\ Reported \subseteq Seq(Name)
    BY <1>1, <1>8, ReportedMeans DEF Report, OnceInv, Left
  <2>2. Event(entry) \in EventOf /\ Event(entry).path = entry.path
    BY <1>4, <2>1 DEF Event, EventOf
  <2>3. Reported' = Reported \cup {entry.path} /\ Once'
    BY <1>1, <1>3, <2>1, <2>2, OneMore, OnceAdded DEF Fresh
  <2>4. Behind'
    <3>1. \E j \in 1..i : IsPrefix(entry.path, list[j].path)
      BY <1>4, <2>1, PrefixReflexive
    <3>2. QED BY <1>2, <1>3, <2>1, <2>3, <3>1 DEF Fresh, Behind
  <2>5. ASSUME NEW p \in Reported', NEW k \in ToCome, IsPrefix(p, list[k].path)
        PROVE  introduce /\ IsPrefix(p, sb)
    <3>1. p # entry.path
      <4>1. k \in DOMAIN list /\ i < k /\ (k = i + 1 => i # 0)
        BY <1>1, <1>4, <2>1, ListLength DEF ToCome, TypeInv, TypeOK
      <4>2. IsPrefix(list[i].path, list[k].path) => k = i + 1 /\ Paired(i)
        BY <1>1, <1>3, <1>4, <2>1, <4>1, ListLength DEF Plain, Paired
      <4>3. QED BY <1>3, <1>4, <2>1, <2>5, <4>1, <4>2 DEF Fresh
    <3>2. introduce /\ IsPrefix(p, entry.path) /\ p \in Seq(Name)
      BY <1>3, <2>1, <2>3, <2>5, <3>1 DEF Fresh, Ahead
    <3>3. IsPrefix(p, dir)
      BY <1>4, <2>1, <3>1, <3>2, PrefixOfFront
    <3>4. QED BY <2>1, <3>2, <3>3
  <2>6. Ahead(sb)'
    BY <1>2, <2>1, <2>5 DEF Ahead, ToCome
  <2>7. (i # 0 => ~Paired(i))'
    BY <1>2, <1>3, <2>1 DEF Fresh, Paired
  <2>8. QED BY <2>1, <2>3, <2>4, <2>6, <2>7 DEF Fresh
<1>9. CASE Throw \/ Finish \/ UNCHANGED vars
  <2>1. UNCHANGED <<i, entry, sb, out>> /\ pc' \in {pc, "done", "thrown"}
    BY <1>9 DEF Throw, Finish, vars
  <2>2. Reported' = Reported
    BY <2>1 DEF Reported
  <2>3. QED
    BY <1>2, <1>3, <2>1, <2>2 DEF Fresh, Once, Behind, Ahead, ToCome, Paired
<1>10. QED BY <1>5, <1>6, <1>7, <1>8, <1>9 DEF Next

\* In a list that is in the order of its raw paths and where no entry has been
\* replaced, or only neighbours that collapse into one event, no path is reported
\* twice, whatever else is in it and whatever the root.
THEOREM ReportedOnceUnlessReplaced == Spec => []OnceUnlessReplaced
<1>1. OnceInv => OnceUnlessReplaced
  BY DEF OnceInv, OnceUnlessReplaced, Fresh, Once
<1>2. QED BY OnceInit, OnceStep, <1>1, PTL DEF Spec

-----------------------------------------------------------------------------
(***************************************************************************)
(* Every entry, in order.                                                  *)
(***************************************************************************)

\* Of a set of positions of a list: those up to one of them, which Rank counts.
UpTo(S, k) == {n \in S : n <= k}
Positions(S, N) == N \in Nat /\ S \subseteq 1..N

LEMMA RankType ==
  ASSUME NEW N, NEW S, Positions(S, N), NEW k \in Int
  PROVE  /\ IsFiniteSet(S) /\ Cardinality(S) \in Nat
         /\ IsFiniteSet(UpTo(S, k)) /\ Rank(S, k) \in Nat
         /\ Rank(S, k) = Cardinality(UpTo(S, k))
<1>1. IsFiniteSet(1..N) /\ S \subseteq 1..N
  BY FS_Interval DEF Positions
<1>2. UpTo(S, k) \subseteq S
  BY DEF UpTo
<1>3. IsFiniteSet(S)
  BY <1>1, FS_Subset
<1>4. IsFiniteSet(UpTo(S, k))
  BY <1>2, <1>3, FS_Subset
<1>5. Rank(S, k) = Cardinality(UpTo(S, k))
  BY DEF Rank, UpTo
<1>6. QED BY <1>3, <1>4, <1>5, FS_CardinalityType

LEMMA RankGrows ==
  ASSUME NEW N, NEW S, Positions(S, N), NEW j \in Int, NEW k \in S, j < k
  PROVE  Rank(S, j) < Rank(S, k)
<1>1. k \in Int /\ \A n \in S : n \in Int
  BY DEF Positions
<1>2. UpTo(S, j) \subseteq UpTo(S, k)
  <2>1. \A n \in S : n <= j => n <= k
    BY <1>1
  <2>2. QED BY <2>1 DEF UpTo
<1>3. k \in UpTo(S, k) /\ k \notin UpTo(S, j)
  BY <1>1 DEF UpTo
<1>4. /\ IsFiniteSet(UpTo(S, k)) /\ Rank(S, k) \in Nat /\ Rank(S, j) \in Nat
      /\ Rank(S, k) = Cardinality(UpTo(S, k)) /\ Rank(S, j) = Cardinality(UpTo(S, j))
  BY <1>1, RankType
<1>5. QED BY <1>2, <1>3, <1>4, FS_Subset

LEMMA RankNext ==
  ASSUME NEW N, NEW S, Positions(S, N), NEW k \in Nat
  PROVE  /\ k + 1 \in S => Rank(S, k + 1) = Rank(S, k) + 1
         /\ k + 1 \notin S => Rank(S, k + 1) = Rank(S, k)
         /\ Rank(S, 0) = 0
         /\ k >= N => Rank(S, k) = Cardinality(S)
<1>0. N \in Nat /\ \A n \in S : n \in 1..N
  BY DEF Positions
<1>1. IsFiniteSet(UpTo(S, k)) /\ \A n \in Int : Rank(S, n) = Cardinality(UpTo(S, n))
  BY RankType
<1>2. ASSUME k + 1 \in S PROVE Rank(S, k + 1) = Rank(S, k) + 1
  <2>1. UpTo(S, k + 1) = UpTo(S, k) \cup {k + 1}
    <3>1. ASSUME NEW n \in S PROVE n <= k + 1 <=> n <= k \/ n = k + 1
      BY <1>0
    <3>2. QED BY <1>2, <3>1 DEF UpTo
  <2>2. k + 1 \notin UpTo(S, k)
    BY DEF UpTo
  <2>3. QED BY <1>1, <2>1, <2>2, FS_AddElement
<1>3. ASSUME k + 1 \notin S PROVE Rank(S, k + 1) = Rank(S, k)
  <2>1. ASSUME NEW n \in S PROVE n <= k + 1 <=> n <= k
    BY <1>0, <1>3
  <2>2. UpTo(S, k + 1) = UpTo(S, k)
    BY <2>1 DEF UpTo
  <2>3. QED BY <1>1, <2>2
<1>4. Rank(S, 0) = 0
  <2>1. \A n \in S : ~(n <= 0)
    BY <1>0
  <2>2. UpTo(S, 0) = {}
    BY <2>1 DEF UpTo
  <2>3. QED BY <1>1, <2>2, FS_EmptySet
<1>5. ASSUME k >= N PROVE Rank(S, k) = Cardinality(S)
  <2>1. \A n \in S : n <= k
    BY <1>0, <1>5
  <2>2. UpTo(S, k) = S
    BY <2>1 DEF UpTo
  <2>3. QED BY <1>1, <2>2
<1>6. QED BY <1>2, <1>3, <1>4, <1>5

\* What has been taken has been reported, but for the entry that is being reported:
\* of the entries that are kept it is the next one.
Counted ==
  /\ i # 0 => ~Paired(i)
  /\ pc \in {"entry", "done"} => Cardinality(EventsAt) = Rank(KeptAt, i)
  /\ pc \in {"pop", "push", "report"} =>
       \E k \in KeptAt : /\ list[k].path = entry.path
                         /\ Rank(KeptAt, k) = Cardinality(EventsAt) + 1
                         /\ Rank(KeptAt, i) = Cardinality(EventsAt) + 1
  /\ pc = "done" => i = Len(list)

Agree == \A e \in EventsAt, k \in KeptAt :
           Rank(EventsAt, e) = Rank(KeptAt, k) => out[e] = Event(list[k])

KeptInv == TypeInv /\ Counted /\ Agree

LEMMA PositionsMean ==
  ASSUME TypeInv
  PROVE  /\ Len(list) \in Nat /\ DOMAIN list = 1..Len(list) /\ KeptAt \subseteq 1..Len(list)
         /\ Len(out) \in Nat /\ DOMAIN out = 1..Len(out) /\ EventsAt \subseteq 1..Len(out)
         /\ Positions(KeptAt, Len(list)) /\ Positions(EventsAt, Len(out))
         /\ IsFiniteSet(EventsAt) /\ Cardinality(EventsAt) \in Nat
<1>1. /\ Len(list) \in Nat /\ DOMAIN list = 1..Len(list)
      /\ Len(out) \in Nat /\ DOMAIN out = 1..Len(out)
  BY ListLength, ReportedMeans DEF TypeInv
<1>2. EventsAt \subseteq 1..Len(out) /\ KeptAt \subseteq 1..Len(list)
  BY <1>1 DEF EventsAt, KeptAt
<1>3. Positions(KeptAt, Len(list)) /\ Positions(EventsAt, Len(out))
  BY <1>1, <1>2 DEF Positions
<1>4. IsFiniteSet(EventsAt) /\ Cardinality(EventsAt) \in Nat
  BY <1>3, RankType
<1>5. QED BY <1>1, <1>2, <1>3, <1>4

\* Two neighbours are a pair, but three are not: a file and a directory.
LEMMA NoTriple ==
  ASSUME Setting, InPairs, NEW k \in Nat \ {0}, Paired(k)
  PROVE  ~Paired(k + 1)
<1>1. SUFFICES ASSUME Paired(k + 1) PROVE FALSE
  OBVIOUS
<1>2. /\ k \in DOMAIN list /\ k + 1 \in DOMAIN list /\ k + 2 \in DOMAIN list
      /\ list[k].path = list[k + 1].path /\ list[k + 1].path = list[k + 2].path
  BY <1>1, ListLength DEF Paired
<1>3. QED BY <1>2 DEF InPairs

\* Which entries are kept.
LEMMA KeptMeans ==
  ASSUME Setting, NEW k \in DOMAIN list
  PROVE  k \in KeptAt <=> k = 1 \/ ~Paired(k - 1)
BY ListLength DEF KeptAt, Paired, Setting

\* The events for directories do not count.
LEMMA DummyAdded ==
  ASSUME TypeInv, NEW p \in Seq(Name), out' = Append(out, Dummy(p))
  PROVE  EventsAt' = EventsAt /\ \A e \in EventsAt : out'[e] = out[e]
<1>1. Dummy(p) \in EventOf /\ Dummy(p).dummy = TRUE
  BY DEF Dummy, EventOf
<1>2. QED BY <1>1, PositionsMean, OneMore DEF EventsAt

LEMMA KeptInit == Init => KeptInv
<1> SUFFICES ASSUME Init PROVE KeptInv
  OBVIOUS
<1>1. TypeInv /\ pc = "entry" /\ i = 0
  BY TypeInit DEF Init
<1>2. EventsAt = {}
  <2>1. CASE introduce /\ root = <<>>
    <3>1. out = <<Dummy(<<>>)>>
      BY <2>1 DEF Init
    <3>2. DOMAIN out = {1} /\ out[1].dummy = TRUE
      BY <3>1 DEF Dummy
    <3>3. QED BY <3>2 DEF EventsAt
  <2>2. CASE ~(introduce /\ root = <<>>)
    <3>1. out = <<>> /\ DOMAIN out = {}
      BY <2>2 DEF Init
    <3>2. QED BY <3>1 DEF EventsAt
  <2>3. QED BY <2>1, <2>2
<1>3. Cardinality(EventsAt) = 0 /\ Rank(KeptAt, 0) = 0
  BY <1>1, <1>2, FS_EmptySet, PositionsMean, RankNext
<1>4. QED BY <1>1, <1>2, <1>3 DEF KeptInv, Counted, Agree

LEMMA KeptStep == InPairs /\ KeptInv /\ [Next]_vars => KeptInv'
<1> SUFFICES ASSUME InPairs, KeptInv, [Next]_vars PROVE KeptInv'
  OBVIOUS
<1>1. TypeInv /\ TypeInv' /\ Setting /\ UNCHANGED walk
  BY TypeStep DEF KeptInv, TypeInv, Next, Take, Pop, Push, Report, Throw, Finish, vars
<1>2. /\ list' = list /\ KeptAt' = KeptAt
      /\ \A k : Paired(k)' <=> Paired(k)
  BY <1>1 DEF walk, KeptAt, Paired
<1>3. /\ Len(list) \in Nat /\ DOMAIN list = 1..Len(list) /\ KeptAt \subseteq 1..Len(list)
      /\ Len(out) \in Nat /\ DOMAIN out = 1..Len(out) /\ EventsAt \subseteq 1..Len(out)
      /\ Positions(KeptAt, Len(list)) /\ Positions(EventsAt, Len(out))
      /\ IsFiniteSet(EventsAt) /\ Cardinality(EventsAt) \in Nat /\ i \in 0..Len(list)
  BY <1>1, PositionsMean DEF TypeInv, TypeOK
\* Nothing is added to the events for entries.
<1>4. ASSUME EventsAt' = EventsAt, \A e \in EventsAt : out'[e] = out[e] PROVE Agree'
  BY <1>2, <1>4 DEF KeptInv, Agree, Rank, Event
<1>5. CASE Take
  <2>1. /\ pc = "entry" /\ pc' \in {"pop", "report"} /\ out' = out
    BY <1>5 DEF Take
  <2>2. EventsAt' = EventsAt /\ Agree'
    BY <1>4, <2>1 DEF EventsAt
  <2>3. /\ i' \in DOMAIN list /\ i + 1 \in DOMAIN list
        /\ entry' = list[i + 1]
        /\ i' = i + 1 \/ (i' = i + 2 /\ Paired(i + 1))
    BY <1>1, <1>5, Taken
  <2>4. i + 1 \in KeptAt
    <3>1. (i + 1) - 1 = i /\ (i + 1 = 1 <=> i = 0)
      BY <1>3
    <3>2. i # 0 => ~Paired(i)
      BY DEF KeptInv, Counted
    <3>3. i + 1 \in KeptAt <=> i + 1 = 1 \/ ~Paired((i + 1) - 1)
      BY <1>1, <2>3, KeptMeans, Zenon
    <3>4. QED BY <3>1, <3>2, <3>3
  <2>5. Rank(KeptAt, i) = Cardinality(EventsAt)
    BY <2>1 DEF KeptInv, Counted
  <2>6. Rank(KeptAt, i + 1) = Cardinality(EventsAt) + 1
    BY <1>3, <2>4, <2>5, RankNext
  <2>7. i' = i + 2 => i + 2 \notin KeptAt /\ ~Paired(i')
    <3>1. SUFFICES ASSUME i' = i + 2 PROVE i + 2 \notin KeptAt /\ ~Paired(i + 2)
      OBVIOUS
    <3>2. Paired(i + 1) /\ i + 2 \in DOMAIN list /\ i + 1 \in Nat \ {0} /\ i + 2 # 1
          /\ (i + 2) - 1 = i + 1 /\ (i + 1) + 1 = i + 2
      BY <1>3, <2>3, <3>1
    <3>3. i + 2 \notin KeptAt
      BY <1>1, <3>2, KeptMeans
    <3>4. ~Paired(i + 2)
      BY <1>1, <3>2, NoTriple
    <3>5. QED BY <3>3, <3>4
  <2>8. Rank(KeptAt, i') = Cardinality(EventsAt) + 1
    <3>1. CASE i' = i + 1
      BY <2>6, <3>1
    <3>2. CASE i' = i + 2
      <4>1. i + 1 \in Nat /\ (i + 1) + 1 = i + 2
        BY <1>3
      <4>2. Rank(KeptAt, i + 2) = Rank(KeptAt, i + 1)
        BY <1>3, <2>7, <3>2, <4>1, RankNext
      <4>3. QED BY <2>6, <3>2, <4>2
    <3>3. QED BY <2>3, <3>1, <3>2
  <2>9. ~Paired(i')
    <3>1. CASE i' = i + 1
      BY <1>3, <1>5, <3>1 DEF Take
    <3>2. QED BY <2>3, <2>7, <3>1
  <2>10. Counted'
    BY <1>2, <2>1, <2>2, <2>3, <2>4, <2>6, <2>8, <2>9 DEF Counted
  <2>11. QED BY <1>1, <2>2, <2>10 DEF KeptInv
<1>6. CASE Pop
  <2>1. pc = "pop" /\ pc' \in {"pop", "push"} /\ UNCHANGED <<i, entry, out>>
    BY <1>6 DEF Pop
  <2>2. EventsAt' = EventsAt /\ Agree'
    BY <1>4, <2>1 DEF EventsAt
  <2>3. Counted'
    BY <1>2, <2>1, <2>2 DEF KeptInv, Counted
  <2>4. QED BY <1>1, <2>2, <2>3 DEF KeptInv
<1>7. CASE Push
  <2>1. pc = "push" /\ pc' \in {"push", "report"} /\ UNCHANGED <<i, entry>>
    BY <1>7 DEF Push
  <2>2. EventsAt' = EventsAt /\ Agree'
    <3>1. CASE UNCHANGED out
      BY <1>4, <3>1 DEF EventsAt
    <3>2. CASE ~UNCHANGED out
      <4>1. out' = Append(out, Dummy(sb')) /\ sb' \in Seq(Name)
        BY <1>1, <1>7, <3>2 DEF Push, TypeInv, Place
      <4>2. QED BY <1>1, <1>4, <4>1, DummyAdded
    <3>3. QED BY <3>1, <3>2
  <2>3. Counted'
    BY <1>2, <2>1, <2>2 DEF KeptInv, Counted
  <2>4. QED BY <1>1, <2>2, <2>3 DEF KeptInv
<1>8. CASE Report
  <2> DEFINE new == Len(out) + 1
  <2>1. /\ pc = "report" /\ pc' = "entry" /\ UNCHANGED <<i, entry>>
        /\ out' = Append(out, Event(entry))
    BY <1>8 DEF Report
  <2>2. /\ Event(entry) \in EventOf /\ Event(entry).dummy = FALSE
    BY <1>1 DEF Event, EventOf, TypeInv, Place
  <2>3. /\ DOMAIN out' = 1..new /\ \A e \in DOMAIN out : out'[e] = out[e]
        /\ out'[new] = Event(entry)
    BY <1>1, <2>1, <2>2, OneMore
  <2>4. EventsAt' = EventsAt \cup {new} /\ new \notin EventsAt
    BY <1>3, <2>2, <2>3 DEF EventsAt
  <2>5. Cardinality(EventsAt') = Cardinality(EventsAt) + 1
    BY <1>3, <2>4, FS_AddElement
  <2>6. \A e \in EventsAt : Rank(EventsAt', e) = Rank(EventsAt, e)
    <3>1. SUFFICES ASSUME NEW e \in EventsAt
                   PROVE  {n \in EventsAt' : n <= e} = {n \in EventsAt : n <= e}
      BY DEF Rank
    <3>2. e < new
      BY <1>3
    <3>3. QED BY <1>3, <2>4, <3>2
  <2>7. Rank(EventsAt', new) = Cardinality(EventsAt) + 1
    <3>1. \A n \in EventsAt' : n <= new
      BY <1>3, <2>4
    <3>2. {n \in EventsAt' : n <= new} = EventsAt'
      BY <3>1
    <3>3. QED BY <2>5, <3>2 DEF Rank
  <2>8. PICK m \in KeptAt : /\ list[m].path = entry.path
                            /\ Rank(KeptAt, m) = Cardinality(EventsAt) + 1
                            /\ Rank(KeptAt, i) = Cardinality(EventsAt) + 1
    BY <2>1 DEF KeptInv, Counted
  <2>9. ASSUME NEW e \in EventsAt', NEW k \in KeptAt, Rank(EventsAt', e) = Rank(KeptAt, k)
        PROVE  out'[e] = Event(list[k])
    <3>1. CASE e \in EventsAt
      BY <1>3, <2>3, <2>6, <2>9, <3>1 DEF KeptInv, Agree
    <3>2. CASE e = new
      <4>1. Rank(KeptAt, k) = Rank(KeptAt, m)
        BY <2>7, <2>8, <2>9, <3>2
      <4>2. k \in Int /\ m \in Int
        BY <1>3
      <4>3. ~(k < m) /\ ~(m < k)
        <5>1. Rank(KeptAt, k) \in Nat /\ Rank(KeptAt, m) \in Nat
          BY <1>3, <4>2, RankType
        <5>2. k < m => Rank(KeptAt, k) < Rank(KeptAt, m)
          BY <1>3, <4>2, RankGrows
        <5>3. m < k => Rank(KeptAt, m) < Rank(KeptAt, k)
          BY <1>3, <4>2, RankGrows
        <5>4. QED BY <4>1, <5>1, <5>2, <5>3
      <4>4. k = m
        BY <4>2, <4>3
      <4>5. QED BY <2>3, <2>8, <3>2, <4>4 DEF Event
    <3>3. QED BY <2>4, <3>1, <3>2
  <2>10. Agree'
    BY <1>2, <2>9 DEF Agree, Event
  <2>11. Counted'
    BY <1>2, <2>1, <2>5, <2>8 DEF KeptInv, Counted
  <2>12. QED BY <1>1, <2>10, <2>11 DEF KeptInv
<1>9. CASE Throw \/ Finish \/ UNCHANGED vars
  <2>1. UNCHANGED <<i, entry, out>>
        /\ (pc' \in {pc, "thrown"} \/ (pc = "entry" /\ pc' = "done" /\ i = Len(list)))
    BY <1>9 DEF Throw, Finish, vars
  <2>2. EventsAt' = EventsAt /\ Agree'
    BY <1>4, <2>1 DEF EventsAt
  <2>3. Counted'
    BY <1>2, <2>1, <2>2 DEF KeptInv, Counted
  <2>4. QED BY <1>1, <2>2, <2>3 DEF KeptInv
<1>10. QED BY <1>5, <1>6, <1>7, <1>8, <1>9 DEF Next

LEMMA InPairsStep == [Next]_vars => (InPairs' <=> InPairs)
BY DEF InPairs, Next, Take, Pop, Push, Report, Throw, Finish, vars, walk

\* Whatever the list and its order: the events for entries are those of the list, in
\* its order, with one event for two neighbours that collapse, and when the walk ends
\* none is missing.
THEOREM EveryEntryReported == Spec => []EntriesKept
<1>1. ASSUME KeptInv PROVE EntriesKept
  <2>1. Agree /\ TypeInv
    BY <1>1 DEF KeptInv
  <2>2. ASSUME pc = "done" PROVE Cardinality(EventsAt) = Cardinality(KeptAt)
    <3>1. Cardinality(EventsAt) = Rank(KeptAt, Len(list))
      BY <1>1, <2>2 DEF KeptInv, Counted
    <3>2. QED BY <2>1, <3>1, PositionsMean, RankNext
  <2>3. QED BY <2>1, <2>2 DEF Agree, EntriesKept
<1>2. ~InPairs => EntriesKept
  BY DEF EntriesKept
<1>3. Init => (InPairs => KeptInv)
  BY KeptInit
<1>4. (InPairs => KeptInv) /\ [Next]_vars => (InPairs => KeptInv)'
  BY KeptStep, InPairsStep
<1>5. QED BY <1>1, <1>2, <1>3, <1>4, PTL DEF Spec
=============================================================================
