----------------------------- MODULE StageIndex -----------------------------
(***************************************************************************)
(* Stage, Unstage and Delete of GitClient on the index of one working      *)
(* copy: what they make of files, directories, conflicts, and files that   *)
(* have replaced directories or the other way around.                      *)
(*                                                                         *)
(* The index is sorted by path and then by stage; stages 1 to 3 are the    *)
(* sides of a conflict.  libgit2 sorts paths as strings are, or without    *)
(* regard to case where core.ignorecase is set, which is usual on Windows; *)
(* Stage compares them as strings either way.  A path is the sequence of   *)
(* its components.  Each operation reads the index from disk, works on its *)
(* copy and writes that back, which is one step here: see GitExchange for  *)
(* what others may do meanwhile.                                           *)
(***************************************************************************)
EXTENDS SequencesExt

CONSTANTS Name,   \* the names of files and directories
          Paths,  \* the paths there are, a sequence in the order of the strings
          Listed, \* the same paths in the order in which the index keeps them
          Blob,   \* the contents of files
          Sides   \* the stages the entries of a conflict may have

VARIABLES work,   \* path -> what is in the working directory there
          index,  \* the entries of the index
          head,   \* the files of the tree of HEAD, none when unborn
          last    \* the operation that has just ended

vars == <<work, index, head, last>>

Path == ToSet(Paths)
None == "none"
Folder == "dir"
Kind == {None, Folder} \cup Blob
Op == {"stage", "unstage", "delete", "none"}

\* Each path has one place, and a directory sorts before what is in it.
IsOrder(list) == \A j, k \in DOMAIN list :
  /\ list[j] = list[k] => j = k
  /\ IsStrictPrefix(list[j], list[k]) => j < k
ASSUME PathsAssumption ==
  Paths \in Seq(Seq(Name) \ {<<>>}) /\ Paths # <<>> /\ IsOrder(Paths)
\* Bound: no two paths differ in nothing but case.
ASSUME ListedAssumption == Listed \in Seq(Path) /\ ToSet(Listed) = Path /\ IsOrder(Listed)
ASSUME BlobAssumption == None \notin Blob /\ Folder \notin Blob
ASSUME SidesAssumption == Sides \subseteq SUBSET (1..3)

Entry(p, stage, blob) == [path |-> p, stage |-> stage, blob |-> blob]

\* Where a path is among the strings, and where in an index that has all paths.
Position == [p \in Path |-> CHOOSE k \in DOMAIN Paths : Paths[k] = p]
Place == [p \in Path |-> CHOOSE k \in DOMAIN Listed : Listed[k] = p]

\* The order of the entries in the index.
Sooner(e, f) == \/ Place[e.path] < Place[f.path]
                \/ e.path = f.path /\ e.stage < f.stage

At(p) == {e \in index : e.path = p}
Below(p) == {e \in index : IsStrictPrefix(p, e.path)}

\* A file has nothing below it, and what is below a directory is in a directory.
WorkOK(w) == \A p, q \in Path :
  IsStrictPrefix(p, q) /\ w[q] # None => w[p] = Folder

TypeOK == /\ work \in [Path -> Kind] /\ WorkOK(work)
          /\ index \subseteq [path : Path, stage : 0..3, blob : Blob]
          /\ \A e, f \in index : e.path = f.path /\ e.stage = f.stage => e = f
          /\ head \subseteq [path : Path, stage : {0}, blob : Blob]
          /\ last.op \in Op /\ last.path \in Path

Nothing ==
  [op |-> "none", path |-> Paths[1], single |-> TRUE, nested |-> FALSE, hidden |-> FALSE]

Init == /\ work = [p \in Path |-> None]
        /\ index = {}
        /\ head = {}
        /\ last = Nothing

\* An entry of the path comes after one whose path is the greater string.
Hidden(p) == \E e \in index, f \in At(p) : Sooner(e, f) /\ Position[p] < Position[e.path]

\* The operation that ends; whether p and what is below it were at most one entry
\* of the index when it began, whether anything was below it, and whether p was hidden.
Ends(op, p) ==
  last' = [op |-> op, path |-> p,
           single |-> Cardinality(At(p) \cup Below(p)) <= 1, nested |-> Below(p) # {},
           hidden |-> Hidden(p)]
Elsewhere == last' = Nothing

\* git_index_add: the entry replaces the one of its path and those it cannot coexist
\* with.  git_index_add_bypath also ends a conflict of the path.
\* Mutants: only the path is looked at; the old entry stays.
BesidePath(p) == {e \in index : e.stage # 0 \/ e.path # p}
Beside(p) == {e \in index : e.stage # 0 \/ ~(IsPrefix(p, e.path) \/ IsPrefix(e.path, p))}
Added(p, blob) == Beside(p) \cup {Entry(p, 0, blob)}
AddedAgain(p) == index \cup {Entry(p, 0, work[p])}
AddedByPath(p) == (Beside(p) \ At(p)) \cup {Entry(p, 0, work[p])}

-----------------------------------------------------------------------------
\* The walk of Stage steps over entries while their paths are the lesser strings.
\* It ends at the first in the index that is not.  Mutant: it steps over the path.
NotBeforeLate(p) == {e \in index : Position[e.path] > Position[p]}
NotBefore(p) == {e \in index : Position[e.path] >= Position[p]}
Compared(p) == CHOOSE e \in NotBefore(p) : \A f \in NotBefore(p) : f = e \/ Sooner(e, f)

StageMissing(p) == IF NotBefore(p) # {} /\ Compared(p).path = p THEN {Compared(p)} ELSE {}

\* The path is in the way of what the index has below it.
Replaces(p) == NotBefore(p) # {} /\ Compared(p) \in Below(p)

\* A file: added, but where it has replaced a directory whose first entry follows
\* at once, git_index_remove_directory is all that happens.
StageFile(p) ==
  /\ work[p] \in Blob
  /\ index' = IF Replaces(p) THEN {e \in index : e \notin Below(p) \/ e.stage # 0}
              ELSE AddedByPath(p)

\* Nothing there: the entry found is removed, of a conflict the first stage.
StageNothing(p) ==
  /\ work[p] = None
  /\ index' = index \ StageMissing(p)

\* A directory: left alone when the entries below it follow at once, refused by
\* git_index_add_bypath otherwise.
StageFolder(p) ==
  /\ work[p] = Folder
  /\ Replaces(p)
  /\ UNCHANGED index

Stage(p) ==
  /\ StageFile(p) \/ StageNothing(p) \/ StageFolder(p)
  /\ Ends("stage", p)
  /\ UNCHANGED <<work, head>>

-----------------------------------------------------------------------------
\* Unstage: a file of HEAD comes back into the index, a path that is neither a file
\* nor a directory there leaves it.  A directory of HEAD is refused.
\* Mutant: what HEAD has does not come back.
UnstagedGone(p) == index \ {e \in At(p) : e.stage = 0}
Unstaged(p) ==
  IF \E e \in head : e.path = p
  THEN Added(p, (CHOOSE e \in head : e.path = p).blob)
  ELSE index \ {e \in At(p) : e.stage = 0}

Unstage(p) ==
  /\ ~\E e \in head : IsStrictPrefix(p, e.path)
  /\ index' = Unstaged(p)
  /\ Ends("unstage", p)
  /\ UNCHANGED <<work, head>>

-----------------------------------------------------------------------------
\* GitIndex::Remove(p, recursive): the loop goes on to the next position after a
\* removal, where the entry after the next one is by then.
\* Mutants: everything from the path on is removed; nothing after the first entry is.
DoomedLater(p, e) == Position[e.path] >= Position[p]
Doomed(p, e) == IsPrefix(p, e.path)
RemovedFirst(p) ==
  {e \in index : Doomed(p, e) /\ \A f \in index : Doomed(p, f) => f = e \/ Sooner(e, f)}
Removed(p) ==
  LET rank == [e \in index |-> Cardinality({f \in index : Sooner(f, e)})]
      removed[k \in 0..Cardinality(index)] ==
        /\ k > 0 => ~removed[k - 1]
        /\ \E e \in index : rank[e] = k /\ Doomed(p, e)
  IN {e \in index : removed[rank[e]]}

\* Unless KeepLocal, the file or the whole directory is deleted too.
Delete(p) ==
  /\ LET removed == Removed(p)
     IN removed # {} /\ index' = index \ removed
  /\ \/ UNCHANGED work
     \/ work' = [q \in Path |-> IF IsPrefix(p, q) THEN None ELSE work[q]]
  /\ Ends("delete", p)
  /\ UNCHANGED head

-----------------------------------------------------------------------------
\* The user changes something in the working directory.
Edit(p) ==
  /\ \E kind \in Kind :
       /\ work' = [q \in Path |-> IF q = p THEN kind
                                  ELSE IF IsStrictPrefix(p, q) THEN None ELSE work[q]]
       /\ WorkOK(work')
  /\ Elsewhere
  /\ UNCHANGED <<index, head>>

\* A merge leaves a conflict.  Bound: one at a time.
Conflict(p) ==
  /\ \A e \in index : e.stage = 0
  /\ \A e \in index : ~IsStrictPrefix(p, e.path) /\ ~IsStrictPrefix(e.path, p)
  /\ \E S \in Sides, b \in Blob :
       index' = (index \ At(p)) \cup {Entry(p, s, b) : s \in S}
  /\ Elsewhere
  /\ UNCHANGED <<work, head>>

\* Commit makes the index the tree of HEAD; it refuses one with conflicts.
Commit ==
  /\ \A e \in index : e.stage = 0
  /\ head' = index
  /\ Elsewhere
  /\ UNCHANGED <<work, index>>

Next == \/ \E p \in Path : Stage(p) \/ Unstage(p) \/ Delete(p) \/ Edit(p) \/ Conflict(p)
        \/ Commit

Spec == Init /\ [][Next]_vars

-----------------------------------------------------------------------------
(***************************************************************************)
(* Properties                                                              *)
(***************************************************************************)

\* No file of the index is where another entry needs a directory: a tree can be
\* written of it whatever was staged, unstaged and deleted in whatever order.
NoCollision == \A e, f \in index :
  e.stage = 0 /\ f.stage = 0 => ~IsStrictPrefix(e.path, f.path)

\* After Stage of a file the index has that file, and of nothing nothing, unless a
\* conflict had more than one entry or the walk ended before it came to the entry;
\* except for a file that is still missing after all it did was to take the place of
\* a directory.
StagedAsInWork ==
  LET p == last.path
  IN last.op = "stage" =>
       /\ work[p] \in Blob =>
            \/ At(p) = {Entry(p, 0, work[p])}
            \/ At(p) = {} /\ last.nested /\ \A e \in Below(p) : e.stage # 0
       /\ work[p] = None /\ last.single /\ ~last.hidden => At(p) = {}

\* After Unstage of a path the index has what HEAD has there.
UnstagedAsInHead ==
  LET p == last.path
  IN last.op = "unstage" =>
       {e \in At(p) : e.stage = 0} = {e \in head : e.path = p}

\* An operation on one path changes no other entry, unless that cannot coexist.
OthersKept ==
  [][\A e \in (index \ index') \cup (index' \ index) :
       last'.op \in {"stage", "unstage", "delete"} =>
         IsPrefix(e.path, last'.path) \/ IsPrefix(last'.path, e.path)]_vars

\* Delete removes at least half of what the index has of a path and what is below it:
\* a path of one entry is gone, and of more no more stay than are removed.
HalfDeleted ==
  [][last'.op = "delete" =>
       Cardinality({e \in index' : IsPrefix(last'.path, e.path)})
       <= Cardinality(index \ index')]_vars
=============================================================================
