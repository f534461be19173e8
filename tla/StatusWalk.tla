----------------------------- MODULE StatusWalk -----------------------------
(***************************************************************************)
(* GitRepository::Status: walks the status list libgit2 has made and       *)
(* raises the Status event for every entry and, on request, for the        *)
(* directories that lead to it.                                            *)
(*                                                                         *)
(* The options decide on the order of the list.  It is sorted with or      *)
(* without regard to case (SortCaseInsensitive), and by the new paths of   *)
(* renamed files (FindRenames), of which the walk takes the old ones.  So  *)
(* the walk may meet any order, and what depends on one says so.           *)
(*                                                                         *)
(* A path is the sequence of its components, <<>> being the root of the    *)
(* working copy.  The raw path of an entry for a directory ends in "/":    *)
(* that is its flag dir.                                                   *)
(***************************************************************************)
EXTENDS SequencesExt

CONSTANTS Name,      \* the names of files and directories
          Listing,   \* the status lists libgit2 may return
          Root       \* the paths Status may be called for

ASSUME RootAssumption == Root \subseteq Seq(Name)
ASSUME ListingAssumption == Listing \subseteq Seq([path : Seq(Name) \ {<<>>}, dir : BOOLEAN])

VARIABLES list, root,   \* the status list, and the path it was asked for
          introduce,    \* GenerateVersionedDirs && IncludeUnmodified
          collapse,     \* CollapseReplacements
          i,            \* how many entries of the list have been taken
          entry,        \* the one being reported
          sb,           \* the directory, or entry, the walk is at
          out,          \* the events raised so far
          pc

walk == <<list, root, introduce, collapse>>
vars == <<walk, i, entry, sb, out, pc>>

\* An event for a directory that has no entry, and one for an entry.
Dummy(p) == [path |-> p, dummy |-> TRUE]
Event(e) == [path |-> e.path, dummy |-> FALSE]

\* The paths of the list and the directories that lead there.
Path == Prefixes(root) \cup UNION {Prefixes(list[k].path) : k \in DOMAIN list}

TypeOK == /\ i \in 0..Len(list)
          /\ entry.path \in Path
          /\ sb \in Path
          /\ \A k \in DOMAIN out : out[k].path \in Path
          /\ pc \in {"entry", "pop", "push", "report", "done", "thrown"}

\* The walk starts at the parent of the path asked for; the root of the working
\* copy has no parent and is reported right away.
Init == /\ root \in Root
        /\ list \in Listing
        /\ introduce \in BOOLEAN /\ collapse \in BOOLEAN
        /\ i = 0
        /\ entry = [path |-> <<>>, dir |-> TRUE]
        /\ sb = IF introduce THEN Front(root) ELSE <<>>
        /\ out = IF introduce /\ root = <<>> THEN <<Dummy(root)>> ELSE <<>>
        /\ pc = "entry"

\* The next entry is for the same path: a file and the directory replacing it.
\* Mutants: a path below it taken for the same; the list's end not respected.
PairedBelow(k) == collapse /\ k < Len(list) /\ IsPrefix(list[k].path, list[k + 1].path)
PairedLast(k) == collapse /\ (k = Len(list) \/ list[k].path = list[k + 1].path)
Paired(k) == collapse /\ k < Len(list) /\ list[k].path = list[k + 1].path

\* One entry is taken, with the next one if that replaces it.
Take ==
  /\ pc = "entry" /\ i < Len(list)
  /\ entry' = list[i + 1]
  /\ i' = IF Paired(i + 1) THEN i + 2 ELSE i + 1
  /\ IF introduce /\ Front(entry'.path) # sb
     THEN pc' = "pop" /\ UNCHANGED sb
     ELSE pc' = "report" /\ sb' = IF introduce THEN entry'.path ELSE sb
  /\ UNCHANGED <<walk, out>>

\* Leave the directories that do not lead to the entry.
\* Mutant: leave all of them.
PopAll ==
  /\ pc = "pop"
  /\ sb' = <<>> /\ pc' = "push"
  /\ UNCHANGED <<walk, i, entry, out>>

Pop ==
  /\ pc = "pop"
  /\ IF sb # <<>> /\ ~IsPrefix(sb, Front(entry.path))
     THEN sb' = Front(sb) /\ UNCHANGED pc
     ELSE pc' = "push" /\ UNCHANGED sb
  /\ UNCHANGED <<walk, i, entry, out>>

\* add_one_component: the directory below sb on the way to dir.
\* Mutant: dir itself.
DeeperWhole(dir) == dir
Deeper(dir) == SubSeq(dir, 1, Len(sb) + 1)

\* Enter, and report, the directories that do.
Push ==
  LET dir == Front(entry.path)
  IN /\ pc = "push"
     /\ IF dir # <<>> /\ sb # dir
        THEN /\ sb' = Deeper(dir)
             /\ out' = Append(out, Dummy(Deeper(dir)))
             /\ UNCHANGED pc
        ELSE pc' = "report" /\ UNCHANGED <<sb, out>>
     /\ UNCHANGED <<walk, i, entry>>

Report ==
  /\ pc = "report"
  /\ out' = Append(out, Event(entry))
  /\ pc' = "entry"
  /\ UNCHANGED <<walk, i, entry, sb>>

\* The event handler throws, which ends the walk.
Throw ==
  /\ pc \in {"push", "report"}
  /\ pc' = "thrown"
  /\ UNCHANGED <<walk, i, entry, sb, out>>

Finish ==
  /\ pc = "entry" /\ i = Len(list)
  /\ pc' = "done"
  /\ UNCHANGED <<walk, i, entry, sb, out>>

Next == Take \/ Pop \/ Push \/ Report \/ Throw \/ Finish

Spec == Init /\ [][Next]_vars

-----------------------------------------------------------------------------
(***************************************************************************)
(* Properties                                                              *)
(***************************************************************************)

\* What the list has is below the path asked for.  A path with wildcards
\* (UseGlobPath) may match other paths than its own.
BelowRoot == \A k \in DOMAIN list : IsPrefix(root, list[k].path)

\* What sorting by raw path, with regard to case, gives: a path is not behind those
\* below it, and between two that are below a directory there is nothing that is not.
\* Sorted without regard to case, a/x, A/y and a/z are in this order.
InOrder ==
  \A j, k \in DOMAIN list : j < k =>
    /\ ~IsStrictPrefix(list[k].path, list[j].path)
    /\ \A n \in j..k, d \in Prefixes(list[j].path) :
         d # list[j].path /\ IsStrictPrefix(d, list[k].path) => IsPrefix(d, list[n].path)

\* No file has been replaced by a directory or the other way around, but for two
\* neighbours that collapse into one event.
Plain ==
  \A j, k \in DOMAIN list :
    j < k /\ IsPrefix(list[j].path, list[k].path) =>
      collapse /\ k = j + 1 /\ list[j].path = list[k].path

\* No path is reported before the directory it is in, in whichever order the entries
\* below the path asked for come: whoever builds a tree of the events finds the
\* parent there.
ParentFirst ==
  introduce /\ BelowRoot =>
    \A k \in DOMAIN out : out[k].path \in {root, <<>>} \/
      \E j \in 1..(k - 1) : out[j].path = Front(out[k].path)

\* Where the events for entries are, and the entries of the list that have one: only the
\* second of two for one path is left out.
EventsAt == {k \in DOMAIN out : ~out[k].dummy}
KeptAt == {k \in DOMAIN list : collapse /\ k > 1 => list[k].path # list[k - 1].path}
Rank(S, k) == Cardinality({n \in S : n <= k})

\* A path has two entries in a row at most, a file and a directory.
InPairs == \A k \in DOMAIN list : k + 2 \in DOMAIN list =>
             ~(list[k].path = list[k + 1].path /\ list[k + 1].path = list[k + 2].path)

\* The events for entries are those of the list, one for each and in its order,
\* whatever that is, but for the second of two that collapse.
EntriesKept ==
  InPairs =>
    /\ \A e \in EventsAt, k \in KeptAt :
         Rank(EventsAt, e) = Rank(KeptAt, k) => out[e] = Event(list[k])
    /\ pc = "done" => Cardinality(EventsAt) = Cardinality(KeptAt)

\* "Can remove {0}": in a walk with its directories, every path is reported once.
ReportedOnce ==
  introduce /\ collapse =>
    \A j, k \in DOMAIN out : out[j].path = out[k].path => j = k

\* It is, also where nothing collapses, if the list is in the order of its raw
\* paths and nothing in it has been replaced.  Both are needed: in another order the
\* walk comes back to a directory it has left, and introduces it again.
OnceUnlessReplaced ==
  Plain /\ InOrder => \A j, k \in DOMAIN out : out[j].path = out[k].path => j = k
=============================================================================
