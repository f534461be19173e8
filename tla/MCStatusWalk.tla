---------------------------- MODULE MCStatusWalk ----------------------------
(* Small status lists for StatusWalk.                                      *)
EXTENDS StatusWalk

Names == {"A", "a", "a.c", "b", "b.c", "c", "d", "x", "y", "z"}

File(p) == [path |-> p, dir |-> FALSE]
Folder(p) == [path |-> p, dir |-> TRUE]

\* Entries in the order of their raw paths, where "." < "/" < "0":
\* a, a.c, a/, a/b, a/b.c, a/b/, a/b/x, c/d/x.
Sorted == << File(<<"a">>), File(<<"a.c">>), Folder(<<"a">>),
             File(<<"a", "b">>), File(<<"a", "b.c">>), Folder(<<"a", "b">>),
             File(<<"a", "b", "x">>), File(<<"c", "d", "x">>) >>

\* The same without regard to case: the directories a and A take turns.
Folded == << File(<<"a", "b", "x">>), File(<<"A", "b", "y">>), File(<<"a", "b", "z">>),
             File(<<"A", "c">>), Folder(<<"a", "d">>) >>

\* The old paths of files that were renamed, two of them copies of one file.
Renamed == << File(<<"c">>), File(<<"a", "x">>), File(<<"a", "b", "x">>), File(<<"b">>),
              File(<<"a", "x">>) >>

\* The lists of some of these entries.
Some(l, S) == [k \in 1..Cardinality(S) |->
                 l[CHOOSE n \in S : Cardinality({m \in S : m <= n}) = k]]

\* A directory has an entry of its own only when nothing in it has.
Possible(S) == \A j, k \in S :
  Sorted[j].dir => ~IsStrictPrefix(Sorted[j].path, Sorted[k].path)

SortedListings == {Some(Sorted, S) : S \in {T \in SUBSET DOMAIN Sorted : Possible(T)}}
Listings == SortedListings \cup {Some(Folded, S) : S \in SUBSET DOMAIN Folded}
                           \cup {Some(Renamed, S) : S \in SUBSET DOMAIN Renamed}

\* Lists without entries for directories.
FileListings == {l \in SortedListings : \A k \in DOMAIN l : ~l[k].dir}

WorkingCopy == {<<>>}
Roots == {<<>>, <<"a">>, <<"a", "b">>}
=============================================================================
