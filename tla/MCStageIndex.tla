---------------------------- MODULE MCStageIndex ----------------------------
(* A small working copy for StageIndex.                                    *)
EXTENDS StageIndex

Names == {"A", "x", "a.c"}
SmallPaths == << <<"A">>, <<"A", "x">>, <<"a.c">> >>

\* Without regard to case: "." is before "/", and a.c comes between a directory and
\* what is in it.
Folded == << <<"A">>, <<"a.c">>, <<"A", "x">> >>

\* Both sides changed the file, or one of them deleted it.
TwoOrThree == {1..3, {1, 2}}

\* The contents of files are interchangeable.
Contents == Permutations(Blob)
=============================================================================
