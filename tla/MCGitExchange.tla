--------------------------- MODULE MCGitExchange ---------------------------
(* Small instances of GitExchange for TLC: who works where.                *)
EXTENDS GitExchange, TLC

\* A worker and a clone of its own: Harry and Sally.
OwnPlace == [w \in Worker |-> w]

\* A worker with the name of a clone works there; all others share the clone
\* that no worker is named after.
SharedPlace == [w \in Worker |-> IF w \in Clone THEN w
                                 ELSE CHOOSE c \in Clone : c \notin Worker]

\* The workers of the shared clone are interchangeable.
WorkerSymmetry == Permutations(Worker \ Clone)

\* The clones, each with its worker, and the changes are interchangeable.
CloneSymmetry == Permutations(Clone)
Symmetry == Permutations(Clone) \cup Permutations(Change)
=============================================================================
