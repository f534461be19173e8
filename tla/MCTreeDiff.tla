----------------------------- MODULE MCTreeDiff -----------------------------
(* Small trees for TreeDiff.  Keys: 1 is "a", 2 "a.c", 3 "a/", 4 "b", 5 "b/".  *)
EXTENDS TreeDiff

Blob(key) == [key |-> key, kind |-> "blob", sub |-> <<>>]
Folder(key, dir) == [key |-> key, kind |-> "tree", sub |-> dir]
Gone(key) == [key |-> key, kind |-> "lost", sub |-> <<>>]

\* Directories without subdirectories.
Flat == {<<>>, <<Blob(1)>>, <<Blob(2), Blob(4)>>, <<Blob(1), Blob(2), Blob(4)>>}

\* Directories with subdirectories, which may be lost, beside and before files.
Nested1 == {a \o b :
  a \in {<<Gone(3)>>} \cup {<<Folder(3, dir)>> : dir \in Flat},
  b \in {<<>>, <<Blob(4)>>, <<Folder(5, <<Blob(1)>>)>>}}

\* a/ with a lost a/a/, a/b/ with two files, and b/ with nothing.
Deep == << Folder(3, <<Gone(3), Folder(5, <<Blob(1), Blob(2)>>)>>), Folder(5, <<>>) >>

Lefts == Flat \cup Nested1 \cup {Deep}
Rights == Flat \cup {<<Gone(3), Blob(4)>>, Deep}
Bases == {<<>>, <<Blob(1), Blob(2), Blob(4)>>, <<Blob(2), Gone(3)>>}
Inputs == {[s \in Side |-> CASE s = "left" -> l [] s = "right" -> r [] s = "base" -> b] :
             l \in Lefts, r \in Rights, b \in Bases}
Directories == Lefts \cup Rights \cup Bases \cup {Deep[1].sub, Deep[1].sub[2].sub}
Places == UNION {[1..n -> 1..3] : n \in 1..3}
=============================================================================
