----------------------------- MODULE GitHistory -----------------------------
(***************************************************************************)
(* What a set of clones that exchange commits through one remote branch    *)
(* promises its users, whatever steps the client takes to get there: a     *)
(* branch only ever grows.  A clone's branch moves to a new commit made on *)
(* top of it, an unborn branch adopts a commit the remote has published,   *)
(* and the remote's branch moves to a commit that contains everything      *)
(* published so far.  GitExchange, which models the code step by step, is  *)
(* shown to implement this specification.                                  *)
(***************************************************************************)
EXTENDS Naturals

CONSTANTS Clone,        \* the working copies
          MaxCommits    \* bound: commits are numbered 1..MaxCommits

VARIABLES count,    \* the number of commits created so far
          parents,  \* commit -> the set of its parents
          anc,      \* commit -> the set of its proper ancestors
          head,     \* clone  -> the commit its branch is at, 0 when unborn
          remote    \* the commit the remote branch is at, 0 when unborn

hvars == <<count, parents, anc, head, remote>>

CommitId == 1..MaxCommits
Tip == 0..MaxCommits

\* Commit d contains all the history of commit a; every branch contains "no commit".
Contains(d, a) == a = 0 \/ a = d \/ a \in anc[d]

\* The history a commit with the set P of parents has.
AncestorsOf(P) == P \cup UNION {anc[p] : p \in P}

HInit == /\ count = 0
         /\ parents = [k \in Tip |-> {}]
         /\ anc = [k \in Tip |-> {}]
         /\ head = [c \in Clone |-> 0]
         /\ remote = 0

\* A new commit becomes the tip of c's branch; the old tip is among its parents.
Grow(c) == /\ count < MaxCommits
           /\ count' = count + 1
           /\ \E P \in SUBSET (1..count) :
                /\ head[c] # 0 => head[c] \in P
                /\ parents' = [parents EXCEPT ![count + 1] = P]
                /\ anc' = [anc EXCEPT ![count + 1] = AncestorsOf(P)]
           /\ head' = [head EXCEPT ![c] = count + 1]
           /\ UNCHANGED remote

\* The unborn branch of c starts at a commit the remote has published.
Adopt(c) == /\ head[c] = 0
            /\ \E k \in 1..count : /\ Contains(remote, k)
                                   /\ head' = [head EXCEPT ![c] = k]
            /\ UNCHANGED <<count, parents, anc, remote>>

\* The remote branch moves to a commit of c's branch that contains all it had.
Publish(c) == /\ \E k \in 1..count : /\ Contains(head[c], k)
                                     /\ Contains(k, remote)
                                     /\ remote' = k
              /\ UNCHANGED <<count, parents, anc, head>>

HNext == \E c \in Clone : Grow(c) \/ Adopt(c) \/ Publish(c)

HSpec == HInit /\ [][HNext]_hvars
=============================================================================
