------------------------------ MODULE TreeDiff ------------------------------
(***************************************************************************)
(* DiffEnumerable and DiffBaseEnumerable over the Descendants of two or    *)
(* three GitTrees: a merge join of enumerators, each of them a             *)
(* GitTreeDescendantsWalker, which is itself a chain of walkers, one per   *)
(* directory it is in.                                                     *)
(*                                                                         *)
(* A directory is the sequence of its entries, in the order of its tree    *)
(* object.  An entry has a key, the rank of its name (of a directory's     *)
(* name with "/" behind it), which is all GitTreeEntry::CompareTo looks    *)
(* at; a kind, "blob", "tree", or "lost" when its tree cannot be looked    *)
(* up; and the directory it stands for.                                    *)
(*                                                                         *)
(* A position names an entry by the indexes that lead to it: <<2, 1>> is   *)
(* the first one in the second of the root.                                *)
(***************************************************************************)
EXTENDS Integers, SequencesExt

CONSTANTS Directory,  \* the directories there are
          Input,      \* what may be compared: functions from sides to root directories
          Place,      \* positions, of which these have some
          MaxPasses   \* bound: the enumerator is Reset at most MaxPasses - 1 times

Side == {"left", "right", "base"}

ASSUME DirectoryAssumption == \A dir \in Directory :
  /\ dir \in Seq([key : Int, kind : {"blob", "tree", "lost"}, sub : Directory])
  /\ \A j \in DOMAIN dir : dir[j].kind # "tree" => dir[j].sub = <<>>
ASSUME InputAssumption == Input \subseteq [Side -> Directory]

Behind(s) == CASE s = "left" -> {"right", "base"}   \* those MoveNext asks after s
               [] s = "right" -> {"base"}
               [] s = "base" -> {}

VARIABLES three,   \* it is a DiffBaseEnumerator, with a base
          tree,    \* side -> the root directory
          walker,  \* side -> the chain of its walkers, the outermost first: the directory
                  \* each is in and _index + 1
          have,    \* the sides for which _haveLeft, _haveRight, _haveBase is set
          passes,  \* what Current was: for each pass up to a Reset the rows, which
                   \* map a side to the position of its entry, or to <<>> for null
          ended    \* the last MoveNext returned false

vars == <<three, tree, walker, have, passes, ended>>

Sides == IF three THEN Side ELSE {"left", "right"}

TypeOK == /\ \A s \in Side : /\ walker[s] # <<>>
                             /\ \A j \in DOMAIN walker[s] :
                                  walker[s][j].at \in 0..Len(walker[s][j].dir)
          /\ have \subseteq Sides
          /\ \A pass \in ToSet(passes) : \A row \in ToSet(pass) :
               \E s \in Sides : row[s] # <<>>
          /\ ended \in BOOLEAN

Walker(dir) == [dir |-> dir, at |-> 0]

\* GetEnumerator: a walker for each side, before its first entry.
Init == /\ three \in BOOLEAN
        /\ tree \in {input \in Input : three \/ input["base"] = <<>>}
        /\ walker = [s \in Side |-> <<Walker(tree[s])>>]
        /\ have = {}
        /\ passes = << <<>> >>
        /\ ended = FALSE

-----------------------------------------------------------------------------
(***************************************************************************)
(* The walker.                                                             *)
(***************************************************************************)

\* The walkers of a chain that have an entry left.
Unfinished(w) == {j \in DOMAIN w : w[j].at < Len(w[j].dir)}

\* MoveNext of a chain: the innermost walker that can goes on, those inside it are
\* dropped.
Moved(w) ==
  IF Unfinished(w) = {} THEN <<w[1]>>
  ELSE LET j == Max(Unfinished(w)) IN [SubSeq(w, 1, j) EXCEPT ![j].at = @ + 1]

\* The entry that the innermost walker has come to.
Entry(w) == Last(w).dir[Last(w).at]

\* A walker for the directory it has come to is put inside.  AsTree is null when the
\* lookup fails, and the constructor of the inner walker throws: the index has gone on.
Nested(w) == IF Entry(w).kind = "tree" THEN Append(w, Walker(Entry(w).sub)) ELSE w
Throws(w) == Unfinished(w) # {} /\ Entry(Moved(w)).kind = "lost"
Advanced(w) == IF Unfinished(w) = {} THEN Moved(w) ELSE Nested(Moved(w))

\* Current: the entry the chain has come to; the inner walker may not have moved yet.
Current(w) == IF Last(w).at = 0 THEN Front(w) ELSE w
Position(w) == [j \in DOMAIN w |-> w[j].at]

-----------------------------------------------------------------------------
(***************************************************************************)
(* The merge join.                                                         *)
(***************************************************************************)

\* The sides MoveNext asks, in their order, until one throws.
Lost == {s \in Sides \ have : Throws(walker[s])}
Asked == (Sides \ have) \ UNION {Behind(s) : s \in Lost}
Walked == [s \in Side |-> IF s \in Asked THEN Advanced(walker[s]) ELSE walker[s]]
Had == have \cup {s \in Asked \ Lost : Unfinished(walker[s]) # {}}

\* Left and right: the one with the smaller entry, or both.
\* Mutant: when they are equal the right one is kept for the next time.
ForemostLeft(h, key) ==
  {s \in h \ {"base"} : \A u \in h \ {"base", s} :
     key[s] < key[u] \/ (key[s] = key[u] /\ s = "left")}
Foremost(h, key) == {s \in h \ {"base"} : \A u \in h \ {"base"} : key[s] <= key[u]}

\* The base is compared with what left and right have come to.
\* Mutant: when they are equal, nothing is reported.
WithBaseStrict(h, key) ==
  LET f == Foremost(h, key) IN
  IF "base" \notin h THEN f
  ELSE IF f = {} THEN {"base"}
  ELSE {s \in f : key[s] < key["base"]}
       \cup {s \in {"base"} : \A u \in f : key[s] < key[u]}

WithBase(h, key) ==
  LET f == Foremost(h, key) IN
  IF "base" \notin h THEN f
  ELSE IF f = {} THEN {"base"}
  ELSE {s \in f : key[s] <= key["base"]}
       \cup {s \in {"base"} : \A u \in f : key[s] <= key[u]}

\* MoveNext comes to an entry whose tree is lost: the caller gets the exception.
\* Mutants: what was found before it in this call is forgotten; it is not passed.
MoveNextForgets ==
  /\ ~ended
  /\ Lost # {}
  /\ walker' = Walked
  /\ UNCHANGED <<three, tree, have, passes, ended>>

MoveNextStays ==
  /\ ~ended
  /\ Lost # {}
  /\ have' = Had
  /\ UNCHANGED <<three, tree, walker, passes, ended>>

MoveNextThrows ==
  /\ ~ended
  /\ Lost # {}
  /\ walker' = Walked
  /\ have' = Had
  /\ UNCHANGED <<three, tree, passes, ended>>

\* MoveNext returns true: there is a row.
MoveNext ==
  /\ ~ended
  /\ Lost = {}
  /\ Had # {}
  /\ walker' = Walked
  /\ have' = LET had == Had IN
             had \ WithBase(had, [s \in had |-> Entry(Current(walker'[s])).key])
  /\ LET taken == Had \ have'
         row == [s \in Side |-> IF s \in taken THEN Position(Current(walker'[s])) ELSE <<>>]
     IN passes' = [passes EXCEPT ![Len(passes)] = Append(@, row)]
  /\ UNCHANGED <<three, tree, ended>>

\* MoveNext returns false.
MoveNextEnds ==
  /\ ~ended
  /\ Lost = {}
  /\ Had = {}
  /\ walker' = Walked
  /\ ended' = TRUE
  /\ UNCHANGED <<three, tree, have, passes>>

\* Reset starts left and right anew; a base goes on where it is, with what it has.
\* Mutant: right goes on, too.
Again == {"left", "right"}
ResetLeft ==
  /\ Len(passes) < MaxPasses
  /\ walker' = [walker EXCEPT !["left"] = <<Walker(tree["left"])>>]
  /\ have' = have \ {"left"}
  /\ passes' = Append(passes, <<>>)
  /\ ended' = FALSE
  /\ UNCHANGED <<three, tree>>

Reset ==
  /\ Len(passes) < MaxPasses
  /\ walker' = [s \in Side |-> IF s \in Again THEN <<Walker(tree[s])>> ELSE walker[s]]
  /\ have' = have \ Again
  /\ passes' = Append(passes, <<>>)
  /\ ended' = FALSE
  /\ UNCHANGED <<three, tree>>

Forward == MoveNext \/ MoveNextThrows \/ MoveNextEnds
Next == Forward \/ Reset

\* Somebody who enumerates, and does not give up when a subtree is lost.
Spec == Init /\ [][Next]_vars /\ WF_vars(Forward)

-----------------------------------------------------------------------------
(***************************************************************************)
(* Properties                                                              *)
(***************************************************************************)

\* A directory before what is in it, and that before the next entry.
Precedes(p, q) ==
  \/ IsStrictPrefix(p, q)
  \/ \E j \in DOMAIN p \cap DOMAIN q : p[j] < q[j] /\ \A i \in 1..j - 1 : p[i] = q[i]

\* The entry at a position, and whether there is one.
At(t, p) == LET entry[j \in DOMAIN p] ==
                  IF j = 1 THEN t[p[1]] ELSE entry[j - 1].sub[p[j]]
            IN entry[Len(p)]
Leads(t, p) == /\ p[1] \in DOMAIN t
               /\ \A j \in 2..Len(p) : p[j] \in DOMAIN At(t, SubSeq(p, 1, j - 1)).sub

\* Nothing that is compared has entries at other positions.
ASSUME PlaceAssumption ==
  /\ Place \subseteq Seq(Nat \ {0}) \ {<<>>}
  /\ \A input \in Input, s \in Side :
       /\ \A j \in DOMAIN input[s] : <<j>> \in Place
       /\ \A p \in Place : Leads(input[s], p) =>
            \A j \in DOMAIN At(input[s], p).sub : Append(p, j) \in Place

\* What can be enumerated below a root.
Listed(t) == {p \in Place : Leads(t, p) /\ At(t, p).kind # "lost"}

\* The rows since a side was last set to its start that have an entry of it, each as
\* its pass and its number in that.
RowsOf(pass) == {<<pass, k>> : k \in DOMAIN passes[pass]}
Since(s) == IF s \in Again THEN {Len(passes)} ELSE DOMAIN passes
Turns(s) == {x \in UNION {RowsOf(pass) : pass \in Since(s)} : passes[x[1]][x[2]][s] # <<>>}
Came(s, x) == passes[x[1]][x[2]][s]
Earlier(x, y) == x[1] < y[1] \/ (x[1] = y[1] /\ x[2] < y[2])

\* Whatever the two or three trees are, and wherever their subtrees are lost, every
\* other entry of each of them is reported once, a directory before what is in it,
\* and none twice: neither the pending entry of a side, when another one throws or
\* the enumerator is Reset, nor what is in a directory that follows or encloses.
EachOnce == \A s \in Sides :
  /\ \A x, y \in Turns(s) : Earlier(x, y) => Precedes(Came(s, x), Came(s, y))
  /\ ended => {Came(s, x) : x \in Turns(s)} = Listed(tree[s])

\* The entries of a row have one name.  When the listings of all sides ascend, as
\* those of single directories do, the rows do, so that an entry that several sides
\* have is one row.  (Those of nested trees seldom ascend, for entries are compared
\* by their own name and not by their path.)  A base that went on over a Reset is
\* out of step.
KeyOf(s, p) == At(tree[s], p).key
RowKeys(row) == {KeyOf(s, row[s]) : s \in {u \in Sides : row[u] # <<>>}}
Ascends(t) == \A p, q \in Listed(t) : Precedes(p, q) => At(t, p).key < At(t, q).key
MergedInOrder == \A pass \in ToSet(passes) :
  /\ \A row \in ToSet(pass) : Cardinality(RowKeys(row)) = 1
  /\ \/ \A j, k \in DOMAIN pass : j < k =>
          \A a \in RowKeys(pass[j]), b \in RowKeys(pass[k]) : a < b
     \/ \E s \in Sides : ~Ascends(tree[s])
     \/ three /\ Len(passes) > 1

\* After a Reset the comparison of two trees gives the same rows again.
Repeats == ~three =>
  \A j, k \in DOMAIN passes : IsPrefix(passes[j], passes[k]) \/ IsPrefix(passes[k], passes[j])

\* Every enumeration comes to its end, past the subtrees that are lost.
Ends == <>ended
=============================================================================
