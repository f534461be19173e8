---------------------------- MODULE GitExchange ----------------------------
(***************************************************************************)
(* Clones that stage, commit, pull, push and reset through GitClient, and  *)
(* the remote branch they exchange commits through.                        *)
(*                                                                         *)
(* A worker is a thread or a process that runs one GitClient operation at  *)
(* a time on one clone.  Every operation opens its own GitRepository, so   *)
(* what it has read is its own, and each libgit2 call that reads or writes *)
(* the repository on disk is one step here: what another worker, or the    *)
(* remote, does may come between any two of them.  A libgit2 call itself   *)
(* is atomic.                                                              *)
(*                                                                         *)
(* A tree, and the index, is the set of changes it incorporates: Stage     *)
(* only adds changes, and a conflict is resolved by keeping both sides.    *)
(* The working directory is not modelled: with "edit" among the operations *)
(* it may at any time hold modifications a merge refuses to overwrite.     *)
(* Clones are made by Clone of the still empty remote, which leaves the    *)
(* branch unborn and the tracking configuration in place.                  *)
(***************************************************************************)
EXTENDS Integers

CONSTANTS Clone,       \* the working copies
          Worker,      \* the threads and processes that use them
          Place,       \* Place[w] is the clone that worker w works on
          Change,      \* the changes that can be staged
          Ops,         \* the operations the workers call
          MaxCommits   \* bound: how many commits are created altogether

\* Besides the operations: "edit", that the working directories may hold local
\* modifications, which a merge refuses to overwrite.
AllOps == {"stage", "commit", "pull", "push", "reset", "edit"}

ASSUME PlaceAssumption == Place \in [Worker -> Clone]
ASSUME BoundAssumption == MaxCommits \in Nat \ {0}
ASSUME OpsAssumption == Ops \subseteq AllOps

VARIABLES
  \* the object databases: a commit is known everywhere it is referenced
  count,       \* the number of commits created so far
  parents,     \* commit -> the set of its parents
  tree,        \* commit -> the changes its tree incorporates
  anc,         \* commit -> its proper ancestors (kept along, not stored by git)
  \* a clone on disk
  head,        \* the commit of the branch HEAD points at, 0 when unborn
  index,       \* the changes the index incorporates
  conflicted,  \* the index has conflict entries
  mergeHead,   \* the commits listed in MERGE_HEAD; non-empty in state Merge
  fetchHead,   \* the for-merge entry of FETCH_HEAD (and the tracking ref), 0 if none
  \* the remote
  remote,      \* the commit of the remote branch, 0 when unborn
  \* what each worker's operation has read so far
  op,
  \* history variables, read by the properties only
  torn,        \* clones whose branch was born by a Pull that has not checked it out
  spoilt       \* a commit was made in a torn clone

objects == <<count, parents, tree, anc>>
disk == <<head, index, conflicted, mergeHead, fetchHead>>
ghosts == <<torn, spoilt>>
vars == <<objects, disk, remote, op, ghosts>>

CommitId == 1..MaxCommits
Tip == 0..MaxCommits

PC == {"idle", "stage", "reset", "push",
       "tree", "head", "state", "resolve", "heads", "create", "cleanup",
       "fetch", "analyse", "merge", "branch", "checkout"}

OpState == [pc : PC, tree : SUBSET Change, clash : BOOLEAN, born : BOOLEAN,
            merging : BOOLEAN, tip : Tip, heads : SUBSET CommitId,
            initial : BOOLEAN, seen : Tip]

\* No operation in progress: the operation's GitRepository is disposed of.
Idle == [pc |-> "idle", tree |-> {}, clash |-> FALSE, born |-> FALSE,
         merging |-> FALSE, tip |-> 0, heads |-> {}, initial |-> FALSE, seen |-> 0]

At(w, label) == op[w].pc = label
Calls(w, name) == At(w, "idle") /\ name \in Ops
Return(w) == op' = [op EXCEPT ![w] = Idle]
Goto(w, label) == op' = [op EXCEPT ![w].pc = label]

\* The history of commit d contains commit a.
Contains(d, a) == a = 0 \/ a = d \/ a \in anc[d]
AncestorsOf(P) == P \cup UNION {anc[p] : p \in P}

\* git_repository_is_empty: unborn, and no reference of any kind yet.
IsEmpty(c) == head[c] = 0 /\ fetchHead[c] = 0

TypeOK ==
  /\ count \in Tip
  /\ parents \in [Tip -> SUBSET CommitId]
  /\ tree \in [Tip -> SUBSET Change]
  /\ anc \in [Tip -> SUBSET CommitId]
  /\ head \in [Clone -> Tip]
  /\ index \in [Clone -> SUBSET Change]
  /\ conflicted \in [Clone -> BOOLEAN]
  /\ mergeHead \in [Clone -> SUBSET CommitId]
  /\ fetchHead \in [Clone -> Tip]
  /\ remote \in Tip
  /\ op \in [Worker -> OpState]
  /\ torn \subseteq Clone
  /\ spoilt \in BOOLEAN

Init ==
  /\ count = 0
  /\ parents = [k \in Tip |-> {}]
  /\ tree = [k \in Tip |-> {}]
  /\ anc = [k \in Tip |-> {}]
  /\ head = [c \in Clone |-> 0]
  /\ index = [c \in Clone |-> {}]
  /\ conflicted = [c \in Clone |-> FALSE]
  /\ mergeHead = [c \in Clone |-> {}]
  /\ fetchHead = [c \in Clone |-> 0]
  /\ remote = 0
  /\ op = [w \in Worker |-> Idle]
  /\ torn = {}
  /\ spoilt = FALSE

-----------------------------------------------------------------------------
(***************************************************************************)
(* GitClient::Stage                                                        *)
(***************************************************************************)

\* The index is loaded from disk.
StageLoad(w) ==
  /\ Calls(w, "stage")
  /\ op' = [op EXCEPT ![w] = [Idle EXCEPT !.pc = "stage",
                                          !.tree = index[Place[w]],
                                          !.clash = conflicted[Place[w]]]]
  /\ UNCHANGED <<objects, disk, remote, ghosts>>

\* One path is added, which resolves its conflict if it had one, and the
\* loaded index is written back whole.
StageWrite(w) ==
  /\ At(w, "stage")
  /\ \E x \in Change, resolved \in BOOLEAN :
       /\ index' = [index EXCEPT ![Place[w]] = op[w].tree \cup {x}]
       /\ conflicted' = [conflicted EXCEPT ![Place[w]] = op[w].clash /\ ~resolved]
  /\ Return(w)
  /\ UNCHANGED <<objects, head, mergeHead, fetchHead, remote, ghosts>>

-----------------------------------------------------------------------------
(***************************************************************************)
(* GitClient::Commit, called by the user or at the end of a Pull.          *)
(***************************************************************************)

\* repo.Index->CreateTree: fails on an index with conflicts.
CreateTree(w) ==
  /\ Calls(w, "commit") \/ At(w, "tree")
  /\ IF conflicted[Place[w]]
     THEN Return(w)
     ELSE op' = [op EXCEPT ![w] = [Idle EXCEPT !.pc = "head",
                                               !.tree = index[Place[w]]]]
  /\ UNCHANGED <<objects, disk, remote, ghosts>>

\* head = repo.HeadReference, null when unborn.
ReadHead(w) ==
  /\ At(w, "head")
  /\ op' = [op EXCEPT ![w] = [@ EXCEPT !.pc = "state",
                                       !.born = head[Place[w]] # 0]]
  /\ UNCHANGED <<objects, disk, remote, ghosts>>

\* state = repo.RepositoryState
ReadState(w) ==
  /\ At(w, "state")
  /\ op' = [op EXCEPT ![w] = [@ EXCEPT !.pc = "resolve",
                                       !.merging = mergeHead[Place[w]] # {}]]
  /\ UNCHANGED <<objects, disk, remote, ghosts>>

\* repo.ResolveReference(head): looks the branch up again.
ResolveHead(w) ==
  /\ At(w, "resolve")
  /\ op' = [op EXCEPT ![w] = [@ EXCEPT !.pc = "heads",
                                       !.tip = IF op[w].born
                                               THEN head[Place[w]] ELSE 0]]
  /\ UNCHANGED <<objects, disk, remote, ghosts>>

\* In state Merge, the parents are "Head + the merged nodes".  repo.MergeHeads
\* yields nothing when MERGE_HEAD cannot be read (any more).
\* Mutant: a merge takes only its first parent.
ReadNoMergeHeads(w) ==
  /\ At(w, "heads")
  /\ op' = [op EXCEPT ![w].pc = "create"]
  /\ UNCHANGED <<objects, disk, remote, ghosts>>

ReadMergeHeads(w) ==
  /\ At(w, "heads")
  /\ op' = [op EXCEPT ![w] = [@ EXCEPT !.pc = "create",
                                       !.heads = IF op[w].merging
                                                 THEN mergeHead[Place[w]] ELSE {}]]
  /\ UNCHANGED <<objects, disk, remote, ghosts>>

\* Mutants: an unborn HEAD taken for a parent; the merged nodes left out.
CommitParentsUnborn(w) == {op[w].tip} \cup op[w].heads
CommitParentsOne(w) == {op[w].tip} \ {0}
CommitParents(w) == ({op[w].tip} \ {0}) \cup op[w].heads

\* git_commit_create with UpdateReference HEAD: refused unless the branch is
\* still at the first parent.  Mutant: the branch is overwritten.
CanCreateAlways(w) == TRUE
CanCreate(w) == head[Place[w]] = op[w].tip

\* Where Commit goes once the commit exists.
AfterCreate(w) == IF op[w].merging THEN "cleanup" ELSE "idle"

CreateCommit(w) ==
  LET c == Place[w]
      k == count + 1
  IN /\ At(w, "create")
     /\ CanCreate(w)
     /\ count < MaxCommits
     /\ count' = k
     /\ parents' = [parents EXCEPT ![k] = CommitParents(w)]
     /\ tree' = [tree EXCEPT ![k] = op[w].tree]
     /\ anc' = [anc EXCEPT ![k] = AncestorsOf(CommitParents(w))]
     /\ head' = [head EXCEPT ![c] = k]
     /\ op' = [op EXCEPT ![w] = [Idle EXCEPT !.pc = AfterCreate(w)]]
     /\ spoilt' = (spoilt \/ c \in torn)
     /\ torn' = torn \ {c}
     /\ UNCHANGED <<index, conflicted, mergeHead, fetchHead, remote>>

CreateRefused(w) ==
  /\ At(w, "create")
  /\ ~CanCreate(w)
  /\ Return(w)
  /\ UNCHANGED <<objects, disk, remote, ghosts>>

\* repo.CleanupState: MERGE_HEAD is removed, whoever wrote it.
Cleanup(w) ==
  /\ At(w, "cleanup")
  /\ mergeHead' = [mergeHead EXCEPT ![Place[w]] = {}]
  /\ Return(w)
  /\ UNCHANGED <<objects, head, index, conflicted, fetchHead, remote, ghosts>>

-----------------------------------------------------------------------------
(***************************************************************************)
(* GitClient::Pull                                                         *)
(***************************************************************************)

\* An empty repository pulls from "origin"; any other one needs a HEAD branch
\* that tracks a remote branch.  A clone's branch tracks, so only an unborn one
\* is turned away, with "There is no tracking information".
PullAccepted(c) == IsEmpty(c) \/ head[c] # 0

PullLocate(w) ==
  /\ Calls(w, "pull")
  /\ PullAccepted(Place[w])
  /\ op' = [op EXCEPT ![w] = [Idle EXCEPT !.pc = "fetch",
                                          !.initial = IsEmpty(Place[w])]]
  /\ UNCHANGED <<objects, disk, remote, ghosts>>

\* rm->Fetch writes FETCH_HEAD; rm->GetHeads yields what the remote advertised.
PullFetch(w) ==
  /\ At(w, "fetch")
  /\ fetchHead' = [fetchHead EXCEPT ![Place[w]] = remote]
  /\ op' = [op EXCEPT ![w] = [@ EXCEPT !.pc = "analyse", !.seen = remote]]
  /\ UNCHANGED <<objects, head, index, conflicted, mergeHead, remote, ghosts>>

\* What repo.MergeAnalysis(repo.LastFetchResult) makes of FETCH_HEAD.  Nothing
\* fetched is an error, and so is an unborn branch that is not the initial one.
AfterAnalysis(w) ==
  LET c == Place[w]
  IN CASE fetchHead[c] = 0 -> "idle"
       [] fetchHead[c] # 0 /\ head[c] = 0 ->
            IF op[w].initial THEN "branch" ELSE "idle"
       [] OTHER -> IF Contains(head[c], fetchHead[c]) THEN "idle" ELSE "merge"

PullAnalyse(w) ==
  /\ At(w, "analyse")
  /\ IF AfterAnalysis(w) = "idle" THEN Return(w) ELSE Goto(w, AfterAnalysis(w))
  /\ UNCHANGED <<objects, disk, remote, ghosts>>

\* The best common ancestors of two commits, "no commit" if they share none.
\* Mutant: our commit taken for the base, as a fast-forward would.
MergeBasesOurs(o, t) == {o}
Common(o, t) == ({o} \cup anc[o]) \cap ({t} \cup anc[t])
MergeBases(o, t) ==
  IF Common(o, t) = {} THEN {0}
  ELSE {b \in Common(o, t) : \A d \in Common(o, t) : b \notin anc[d]}

\* The three-way merge of o and t over the base b.
MergedTree(o, t, b) ==
  (tree[o] \cap tree[t]) \cup ((tree[o] \cup tree[t]) \ tree[b])

\* Only changes on both sides can conflict.
MayConflict(o, t, b) == ~(tree[o] \subseteq tree[b]) /\ ~(tree[t] \subseteq tree[b])

\* git_merge accepts staged changes only where they equal the merge's result.
Differ(S, T) == (S \ T) \cup (T \ S)
StagedFits(c, merged) ==
  /\ ~conflicted[c]
  /\ Differ(index[c], tree[head[c]]) \cap Differ(index[c], merged) = {}

\* repo.Merge(repo.LastFetchResult): FETCH_HEAD is read again; MERGE_HEAD and the
\* index are written.  Without conflicts, and with CommitOnSuccess, Pull commits.
PullMerge(w) ==
  LET c == Place[w]
      theirs == fetchHead[c]
  IN /\ At(w, "merge")
     /\ \E b \in MergeBases(head[c], theirs), clash, commit \in BOOLEAN :
          LET merged == MergedTree(head[c], theirs, b)
          IN /\ StagedFits(c, merged)
             /\ clash => MayConflict(head[c], theirs, b)
             /\ index' = [index EXCEPT ![c] = merged]
             /\ conflicted' = [conflicted EXCEPT ![c] = clash]
             /\ IF commit /\ ~clash THEN Goto(w, "tree") ELSE Return(w)
     /\ mergeHead' = [mergeHead EXCEPT ![c] = {theirs}]
     /\ UNCHANGED <<objects, head, fetchHead, remote, ghosts>>

\* git_merge fails on staged or local changes it would overwrite, and then
\* removes the MERGE_HEAD it wrote over.
PullMergeRefused(w) ==
  LET c == Place[w]
      theirs == fetchHead[c]
  IN /\ At(w, "merge")
     /\ \/ "edit" \in Ops
        \/ \E b \in MergeBases(head[c], theirs) :
             ~StagedFits(c, MergedTree(head[c], theirs, b))
     /\ mergeHead' = [mergeHead EXCEPT ![c] = {}]
     /\ Return(w)
     /\ UNCHANGED <<objects, head, index, conflicted, fetchHead, remote, ghosts>>

\* The initial checkout of an empty repository: the first advertised head becomes
\* the local branch HEAD already points at.  Without one, or when the branch exists
\* by now, that is an error...
PullBranch(w) ==
  LET c == Place[w]
  IN /\ At(w, "branch")
     /\ IF head[c] = 0 /\ op[w].seen # 0
        THEN /\ head' = [head EXCEPT ![c] = op[w].seen]
             /\ torn' = torn \cup {c}
             /\ Goto(w, "checkout")
        ELSE /\ Return(w)
             /\ UNCHANGED <<head, torn>>
     /\ UNCHANGED <<objects, index, conflicted, mergeHead, fetchHead, remote, spoilt>>

\* ... and git_checkout_head fills the index.  Mutant: it is not called.
PullNoCheckout(w) ==
  LET c == Place[w]
  IN /\ At(w, "checkout")
     /\ torn' = torn \ {c}
     /\ Return(w)
     /\ UNCHANGED <<objects, head, index, conflicted, mergeHead, fetchHead, remote, spoilt>>

PullCheckout(w) ==
  LET c == Place[w]
  IN /\ At(w, "checkout")
     /\ index' = [index EXCEPT ![c] = @ \cup tree[head[c]]]
     /\ torn' = torn \ {c}
     /\ Return(w)
     /\ UNCHANGED <<objects, head, conflicted, mergeHead, fetchHead, remote, spoilt>>

-----------------------------------------------------------------------------
(***************************************************************************)
(* GitClient::Push                                                         *)
(***************************************************************************)

\* git_remote_push: the local branch is compared with what the remote
\* advertises; one that does not contain it "cannot be pushed".
\* Mutant: every push is forced.
CanPushForced(c) == head[c] # 0
CanPush(c) == head[c] # 0 /\ Contains(head[c], remote)

PushAdvertise(w) ==
  /\ Calls(w, "push")
  /\ CanPush(Place[w])
  /\ op' = [op EXCEPT ![w] = [Idle EXCEPT !.pc = "push",
                                          !.tip = head[Place[w]],
                                          !.seen = remote]]
  /\ UNCHANGED <<objects, disk, remote, ghosts>>

\* The remote moves its branch, if it is still at what it advertised.
PushUpdate(w) ==
  /\ At(w, "push")
  /\ remote' = IF remote = op[w].seen THEN op[w].tip ELSE remote
  /\ Return(w)
  /\ UNCHANGED <<objects, disk, ghosts>>

-----------------------------------------------------------------------------
(***************************************************************************)
(* GitRepository::Reset                                                    *)
(***************************************************************************)

\* HeadReference->TargetId; an unborn branch has no HeadReference to ask.
ResetRead(w) ==
  /\ Calls(w, "reset")
  /\ head[Place[w]] # 0
  /\ op' = [op EXCEPT ![w] = [Idle EXCEPT !.pc = "reset", !.tip = head[Place[w]]]]
  /\ UNCHANGED <<objects, disk, remote, ghosts>>

\* git_reset to it.  Mode Default (soft) is refused in the middle of a merge;
\* Mixed and Hard also reset the index and end the merge.
ResetSoft(w) ==
  LET c == Place[w]
  IN /\ At(w, "reset")
     /\ mergeHead[c] = {} /\ ~conflicted[c]
     /\ head' = [head EXCEPT ![c] = op[w].tip]
     /\ Return(w)
     /\ UNCHANGED <<objects, index, conflicted, mergeHead, fetchHead, remote, ghosts>>

ResetFull(w) ==
  LET c == Place[w]
  IN /\ At(w, "reset")
     /\ head' = [head EXCEPT ![c] = op[w].tip]
     /\ index' = [index EXCEPT ![c] = tree[op[w].tip]]
     /\ conflicted' = [conflicted EXCEPT ![c] = FALSE]
     /\ mergeHead' = [mergeHead EXCEPT ![c] = {}]
     /\ torn' = torn \ {c}
     /\ Return(w)
     /\ UNCHANGED <<objects, fetchHead, remote, spoilt>>

-----------------------------------------------------------------------------
\* An operation ends early, at any point: a libgit2 call fails, a callback
\* throws, the connection breaks or the process ends.  What it wrote stays.
Abort(w) ==
  /\ ~At(w, "idle")
  /\ Return(w)
  /\ UNCHANGED <<objects, disk, remote, ghosts>>

Commit(w) == \/ CreateTree(w) \/ ReadHead(w) \/ ReadState(w) \/ ResolveHead(w)
             \/ ReadMergeHeads(w) \/ CreateCommit(w) \/ CreateRefused(w) \/ Cleanup(w)
Pull(w) == \/ PullLocate(w) \/ PullFetch(w) \/ PullAnalyse(w) \/ PullMerge(w)
           \/ PullMergeRefused(w) \/ PullBranch(w) \/ PullCheckout(w)
Stage(w) == StageLoad(w) \/ StageWrite(w)
Push(w) == PushAdvertise(w) \/ PushUpdate(w)
Reset(w) == ResetRead(w) \/ ResetSoft(w) \/ ResetFull(w)

Next == \E w \in Worker :
          Stage(w) \/ Commit(w) \/ Pull(w) \/ Push(w) \/ Reset(w) \/ Abort(w)

Spec == Init /\ [][Next]_vars

-----------------------------------------------------------------------------
(***************************************************************************)
(* Properties                                                              *)
(***************************************************************************)

\* At most one worker uses a clone: the threads and processes of one working
\* copy take turns.
Solo == \A v, w \in Worker : Place[v] = Place[w] => v = w

\* A commit never silently drops a change one of its parents has: the tree
\* Commit writes from the index before it looks at HEAD and MERGE_HEAD fits the
\* parents it then reads, through merges, conflicts, resets and operations cut
\* short at any point.  This ends with the first commit made in a clone whose
\* initial Pull was cut short between Branches->Create and git_checkout_head: its
\* branch has a tip, its index is empty, and the commit deletes everything.
CoversParents ==
  ~spoilt => \A k \in 1..count : \A p \in parents[k] : tree[p] \subseteq tree[k]

\* What is checked in is still in the index of every clone that was checked out.
IndexCoversHead ==
  ~spoilt => \A c \in Clone \ torn : tree[head[c]] \subseteq index[c]

\* Commit removes MERGE_HEAD only after the commits it lists have become part
\* of the branch's history: a crash anywhere in Commit loses no merge.
CleanupSafe ==
  \A w \in Worker : At(w, "cleanup") =>
    \A m \in mergeHead[Place[w]] : Contains(head[Place[w]], m)

\* A commit made in state Merge has the merged nodes among its parents, as the
\* comment in GitClient::Commit says: "Head + the merged nodes".
MergeHasMergedNodes ==
  [][\A w \in Worker :
       At(w, "create") /\ op'[w].pc = "cleanup" =>
         /\ mergeHead[Place[w]] # {}
         /\ mergeHead[Place[w]] \subseteq parents'[count']]_vars

\* Everything a clone has fetched, and every merge it has under way, is still
\* in the history of the remote branch, whatever the other clones push.
FetchedOnRemote ==
  \A c \in Clone :
    /\ Contains(remote, fetchHead[c])
    /\ \A m \in mergeHead[c] : Contains(fetchHead[c], m)

\* No branch, local or remote, ever loses a commit: every step is a step of
\* GitHistory or leaves the branches alone.
History == INSTANCE GitHistory
KeepsHistory == History!HSpec

\* A Pull of a clone nobody else is using is never turned away with "There is no
\* tracking information for the current branch": every clone's branch has it.
TrackingIsFound ==
  \A c \in Clone :
    (\A w \in Worker : Place[w] = c => At(w, "idle")) => PullAccepted(c)
=============================================================================
