# SharpGit in TLA+

SharpGit is a C++/CLI client library over libgit2: `GitClient` offers
operations such as Stage, Commit, Pull and Push, and the Plumbing classes wrap
the objects of libgit2. This directory holds TLA+ modules of the parts of it
whose behaviour over time is hard to test, the TLC configurations that check
them on small instances, and proofs, checked by TLAPS, of what matters most.

Paths below are relative to `src/src/SharpGit/` in the repository.

## Inventory

| Component | State | Operations | Interacts with |
|---|---|---|---|
| Exchange of commits (`GitClient/GitCommitCmd.cpp`, `GitPull.cpp`, `GitPush.cpp`, `GitReset.cpp`, `Plumbing/GitRepository.cpp`, `GitRemote.cpp`) | on disk: HEAD's branch, index, MERGE_HEAD, FETCH_HEAD, the objects; at the remote: its branch | Commit, Pull, Push, Reset, Merge, Fetch, Stash | libgit2; other threads and processes on the same clone; other clones through the remote |
| Stage and index (`GitClient/GitStage.cpp`, `GitUnstage.cpp`, `GitDelete.cpp`, `Plumbing/GitIndex.*`) | a copy of the index in memory, the index on disk | Stage, Unstage, Delete, Add, Remove, Write, CreateTree | the working directory; Commit reads what it writes |
| Library initialization (`GitClientContext.cpp`, `.h`) | `ensurer` (process), `_aprInitialized` and its lock (AppDomain) | EnsureInitialized, from every constructor of GitBase and GitPool | all threads and AppDomains of the process |
| Credentials and callbacks (`GitClient/GitClient.cpp`, `GitClient.h`, `Plumbing/GitRemote.*`) | list of handlers and the cursor into it (client), `_authNr` (operation), `_continue` (attempt) | the callbacks libgit2 makes, the retry loop of `GitRemote::Push` | handlers of the application; the remote |
| Errors (`GitClientContext.cpp`) | `_threadException` per thread | WrapError, GitException::Create, HandleGitError | every callback that throws |
| Handle lifetime (`Plumbing/GitObject.h`, `GitReference.*`, `GitRepository.*`, `GitIndex.*`) | the native pointer of each wrapper, what a repository has cached | Open, Lookup, Dispose, finalization, in any order | the finalizer thread of the garbage collector |
| Pools (`GitClientContext.*`) | an apr pool per operation | creation, Dispose | - |
| Status (`GitClient/GitStatus*`) | none beyond a walk | Status, with an event handler per entry | index, working directory |
| Differences and trees (`Plumbing/DiffEnumerator.h`, `GitTree.*`) | a chain of walkers for each of two or three trees, and their pending entries | MoveNext, Reset | the object database, which may not have a subtree |
| Branches and references (`Plumbing/GitBranch.cpp`, `GitReference.cpp`, `GitRefSpec.cpp`) | cached names and targets | Create, Delete, tracking lookups | Pull, Push |
| Clone and Init (`GitClient/GitClone.cpp`, `GitInit.cpp`) | a new repository | Clone, Init | everything after it |
| Configuration, paths, objects and identifiers | none of their own | lookups, normalisation, views | - |

The vendored `from_svn/`, the build and packaging files and the user interface
stub carry none of the library's own logic.

### What is hard here

* **Interleaving with others.** No operation of `GitClient` locks a repository.
  Each opens its own `GitRepository`, reads and writes the disk in several
  libgit2 calls, and another thread, process or clone may act between two of
  them. Commit writes a tree from the index, *then* looks HEAD up, *then* asks
  for the repository state, *then* looks HEAD up again, *then* reads MERGE_HEAD.
* **Failure half way.** Every libgit2 call can fail, every callback can throw,
  and the process can end. What was written by then stays, and there is no
  undo: a Pull may end between the fetch and the creation of the branch, a
  Commit between the new commit and the removal of MERGE_HEAD.
* **Distribution.** The remote's branch moves between the moment a push has
  read it and the moment it is updated.
* **Start-up.** Every constructor may race to initialize libraries the whole
  process shares, under a lock that each AppDomain has for itself.
* **Callbacks and retries** (credentials), **order of disposal** (handles), and
  **merge joins** over sorted sequences (Stage, DiffEnumerator).

`PROJECT.json` lists each of these hazards at its line, with the properties
that would catch it.

### What makes each component correct

* Exchange: a branch, local or remote, never loses a commit; a commit never
  takes back a change of one of its parents; a merge is recorded with all its
  parents, and forgotten only once it is part of the branch; whatever a clone
  has fetched stays part of what is published.
* Initialization: nobody returns before the libraries are ready, an AppDomain
  initializes nothing twice, everybody gets through.
* Stage: the index afterwards has what is asked for of the path, all the others
  are left alone, and a tree can be written of it.
* Status: every entry is reported, in order, after the directories it is in, and
  no path twice.
* Credentials: every handler is asked in turn, the loop ends, and a refused
  credential is not offered for ever.
* Errors: the exception of a callback reaches the caller of the call it was
  thrown in, and no other.
* Lifetime: nothing native is used after it was released, nothing is released
  twice, and what nobody can reach is released in the end.
* Differences: every entry of each tree is reported once, in one row with its
  counterparts, and the enumeration ends wherever a subtree is missing.

## Modules

    GitHistory          abstract: branches only grow
      ^ implemented by
    GitExchange         Stage, Commit, Pull, Push, Reset over several clones
      MCGitExchange     who works where, symmetry
      GitExchange_proofs   types, what was fetched, GitHistory, merges

    OnceInit            abstract: ready before anybody returns, everybody returns
      ^ implemented by
    EnsureInit          GitBase::EnsureInitialized
      MCEnsureInit      who runs in which AppDomain
      EnsureInit_proofs

    StageIndex          Stage, Unstage, Delete on the entries of one index
      MCStageIndex      a directory, a file in it, a neighbour; two orders
      StageIndex_proofs
    StatusWalk          the walk of Status over a status list
      MCStatusWalk      small lists in several orders
      StatusWalk_proofs
    Credentials         handlers, attempts and errors of one client's operations
      MCCredentials
      Credentials_proofs
    TreeDiff            the merge join of walks over two or three trees
      MCTreeDiff        small trees, nested, shared and with lost subtrees
      TreeDiff_proofs   chains of walkers, the merge join, repetition
    Handles             a repository, its wrappers, a user and the finalizer
      MCHandles
      Handles_proofs

    PathLemmas          lemmas about sequences, prefixes and least numbers

The modules meet at these points: the index `StageIndex` works on is the one
`StageLoad` reads and `StageWrite` writes in `GitExchange`, where it is a set of
changes; each Push of `GitExchange` is an operation of `Credentials`, whose failure
is `Abort` there; every one of them begins with `EnsureInit`; and the
repository that each of them opens and disposes of is the one of `Handles`.

### GitExchange

A *worker* is a thread or process running one operation at a time on the clone
`Place[w]`. What a `GitRepository` instance and the local variables of the
operation hold is `op[w]`; its `pc` says which libgit2 call comes next. Every
call that reads or writes shared state is one action:

| Code | Actions |
|---|---|
| `GitClient::Stage` | `StageLoad`, `StageWrite`: the index is loaded, changed and written back whole |
| `GitClient::Commit` | `CreateTree`, `ReadHead`, `ReadState`, `ResolveHead`, `ReadMergeHeads`, `CreateCommit` or `CreateRefused`, `Cleanup`, in the order of the code |
| `GitClient::Pull` | `PullLocate`, `PullFetch`, `PullAnalyse`, then `PullBranch` and `PullCheckout` in an empty clone, `PullMerge` or `PullMergeRefused` in another, and after a clean merge the actions of Commit |
| `GitClient::Push`, `PushAll` | `PushAdvertise`, `PushUpdate` |
| `GitRepository::Reset` | `ResetRead`, then `ResetSoft` or `ResetFull` |
| `HandleGitError`, an exception, a killed process | `Abort`, enabled after every step |

Data is abstracted to what the properties tell apart. A commit is a number; a
tree, and the index, is the *set of changes* it incorporates, so that "this
commit takes back that change" is a set inclusion and a three-way merge is set
algebra (`MergedTree`). Stage only adds changes; taking a change back on
purpose would be a change of its own. A conflict is resolved by keeping both
sides. The working directory is not a variable: `"edit"` among the operations
says that it may at any time hold modifications a merge refuses to overwrite.
`torn` and `spoilt` are history variables that only properties read.

libgit2 is external and modelled by what the code relies on: a commit that
updates HEAD is refused unless the branch is still at the first parent; a push
is refused unless the local branch contains the advertised one, and the remote
updates only what it advertised; `git_merge` accepts staged changes only where
they equal the result, and on failure removes the MERGE_HEAD it wrote.

### EnsureInit

One action per statement of `EnsureInitialized`. `ensurer` is a native static,
of which a process has one; the project is compiled with `/clr` (`CLRSupport`
in `SharpGit.vcxproj`), where a managed static such as `_ensurerLock` and
`_aprInitialized` exists once per AppDomain. A thread may call again and
again. The test of `_aprInitialized` and its setting (`Check`, `Mark`) are two
steps.

The libraries are per process. A call of a native initializer begins
(`CallsNative`) and ends (`NativeReturns`), and a library is in `ready` when the
first such call has ended. Since AppDomains do not share the lock, a second
call may begin meanwhile, and what it does is the library's business:
`apr_initialize` counts its calls and returns at once, `svn_utf_initialize2`
does the work again as long as nobody has finished it, and libgit2 waits. The
model lets a later call do either, go in or return at once. What an initializer
does that runs before the library it needs is ready is not modelled.
`called` is what the threads of each AppDomain have called on, `native` the
threads that are inside.

### StageIndex

The index is the set of its entries, `(path, stage, blob)`, ordered by
`Sooner`: by path, then by stage. There are two orders of paths. `Paths` has them as
strings are ordered, where `a.c` comes between the directory `a` and
`a/x`; it is how Stage compares (`compare_strict` and `strcmp`, `Position`).
`Listed` has them as libgit2 keeps the index (`Place`), which is the same or,
where core.ignorecase is set, without regard to case. The model takes any two
orders in which a directory comes before what is in it
(`PathsAssumption`, `ListedAssumption`); no two paths differ in nothing but case.
Each operation is one step, because it works on its own copy
and writes that back. What `git_index_add` and `git_index_add_bypath` do with
entries the new one cannot coexist with is external (`Beside`, `AddedByPath`).

| Code | Definitions |
|---|---|
| loop of `GitClient::Stage` | `Compared` is the entry the loop stops at for the path, the first of the index that is not a lesser string; `Hidden`, that it does so before it comes to the path's own; `StageFile`, `StageNothing`, `StageFolder` are its branches |
| loop of `GitClient::Unstage` | `Unstaged` |
| `GitIndex::Remove` | `Removed`, with the position that is skipped after each removal |
| `GitClient::Delete` | `Delete`, with and without `KeepLocal` |
| `GitIndex::CreateTree` | `Commit` |

The operations are modelled for one path, and that is all they can do: for a
second path `repo.Locate` finds the repository open (`GitStage.cpp:76`).

### StatusWalk

The loop of `GitRepository::Status` after libgit2 has made the list: one
iteration is `Take`, any number of `Pop` and `Push`, and `Report`. `sb` is the
string buffer of that name. `Throw` is an event handler that throws.

The model takes a list in any order. libgit2 sorts it by raw path, or without
regard to case if `SortCaseInsensitive` of `GitStatusArgs` is set
(`GitStatus.cpp:86`), and the path the walk looks at may be the old one of a
renamed file. What a property needs of the list is its premise: `BelowRoot`, which
the pathspec gives; `InPairs`, that a path has at most two entries in a row; and
`InOrder`, what sorting by raw path gives, where the entries below a directory are
together, behind an entry for the directory itself.

### Credentials

One thread runs operations of one client one after the other. `push` passes
the client's callbacks on; `fetch` does not (`GitRemote::Fetch` ignores its
argument `cb`) and so never has a credential to retry with; `checkout` stands
for the operations with checkout callbacks and a single attempt (CheckOut, Reset,
Clone), `merge` for the libgit2 calls of Pull whose result goes to `GIT_THROW`
instead of `HandleGitError`. Between two callbacks libgit2 may do anything, but a
callback that fails cancels a checkout. Handlers are hooked
and unhooked wherever the user's code runs. `thrown` is `_threadException`; its
value `"earlier"` says that an operation before this one has left it behind.
`declined`, `supplied` and `unhooked` are history variables.

### TreeDiff

A directory is the sequence of its entries, each with a *key*, the rank of the
name that `GitTreeEntry::CompareTo` compares. `walker[s]` is the chain of
`GitTreeDescendantsWalker`s of a side, outermost first: `MoveNext` of the
innermost one with an entry left moves on and those inside it are dropped
(`Moved`), and one for the subtree it has come to is put inside (`Nested`).
`have` is `_haveLeft`, `_haveRight` and `_haveBase`. `Directory` may be any set of
directories that has the subtrees of its members, of any depth. A position in a
tree, as in `passes`, is the sequence of the numbers of the entries that lead
there (`At`, `Leads`); `Place` is a set of positions that has those of the
trees compared.

| Code | Definitions |
|---|---|
| `DiffEnumerator::MoveNext`, `DiffBaseEnumerator::MoveNext` | `MoveNext`, `MoveNextThrows`, `MoveNextEnds`; the sides are asked in the order of the code, up to the one that throws (`Asked`) |
| the cascade of comparisons behind it | `Foremost` for left and right, `WithBase` |
| `Reset` | `Reset`: left and right start anew, a base goes on where it is |
| `GitTreeDescendantsWalker::MoveNext` | `Advanced`, `Throws` |

A subtree that is not in the object database is *lost*: `AsTree` gives null and
the constructor of the inner walker throws, out of `MoveNext`. The caller of the
model goes on enumerating. `passes` records what `Current` was.

### Handles

The user's thread opens a repository, gets wrappers from it, makes native calls
on them, drops references and disposes of anything; the finalizer thread takes
what `Reached` does not contain, in any order. `Obj`, `Ref`, `Conf` and `Ind` are
the classes that differ in what they do: `GitObject` (with `GitTree`, `GitCommit`
and the like), `GitReference`, `GitConfiguration`, and `GitIndex` with
`GitObjectDatabase`, which have no reference to their repository ("no detach").

| Code | Actions |
|---|---|
| `Open`, `Locate`, `CreateAndOpen` | `Open` |
| lookups, `GitBranch::Reference`, `Configuration`, `Index`, `ObjectDatabase` | `Lookup`, `ByName`, `Configuration`, `Index`, `IndexAgain` |
| `Handle`, with `IsDisposed` of each class, and the native call behind it | `Call`, `Return` |
| destructors and finalizers | `Dispose` and `Finalize` begin a *job*; its steps are `FreeNative` and `Null`, and for a repository `Clear` (twice), `FreeRepository` and `Close`. `Clear` takes the cached wrappers that `ClearReferences` disposes of one by one in fewer steps |

The reachability of managed objects is external: the model uses what the .NET
collector documents, that an object is not kept alive by a native call that only
has its native pointer. The user may `Drop` a wrapper at any time, also during a
call on it. `frees`, `made` and `calling` are what the properties need.

## What the runs show

| Run | Instance | Shows |
|---|---|---|
| `solo` | 2 clones with a worker each, 1 change, 3 commits, all operations | types; `CleanupSafe`, `FetchedOnRemote`, `MergeHasMergedNodes`; every step is one of `GitHistory` |
| `changes` | 2 clones, 2 changes that may conflict, 3 commits, no Reset | `CoversParents`, `IndexCoversHead`: no commit takes back a change |
| `shared` | 2 workers on one clone, 1 on another, 3 commits | `FetchedOnRemote`, `KeepsHistory` survive workers that share a clone |
| `merge_race` | as `shared`, 4 commits | violated: `MergeHasMergedNodes` |
| `first_pull` | 2 clones | violated: `TrackingIsFound` |
| `two_domains` | 4 threads, two in each of two AppDomains | types, `ReturnsReady`, `InitializesOnce`, `PublishesFirst`, and `EnsureInit` implements `OnceInit`, liveness included |
| `index` | 3 paths (a directory, a file in it, a path between them), 2 contents, conflicts with 2 or 3 stages; the index is sorted otherwise than Stage compares | types; `NoCollision`, `StagedAsInWork`, `UnstagedAsInHead`, `OthersKept`, `HalfDeleted` |
| `status` | all lists made of 8 entries, all lists of 5 entries sorted without regard to case, and of 5 renamed files; walks of 3 roots, all options | types; `ParentFirst`, `EntriesKept`, `OnceUnlessReplaced` |
| `status_twice` | the lists without entries for directories | violated: `ReportedOnce` |
| `credentials` | 3 handlers, 3 attempts, 2 invocations in each | types; `EveryoneAsked`, `DeclinedOnce`, `OwnException`, `RetriedOnlyWithCredential`, `Ends` |
| `diff` | 20 x 6 x 3 combinations of trees, with and without a base, and one Reset at any point | types; `EachOnce`, `MergedInOrder`, `Repeats`, `Ends` |
| `handles` | one wrapper of each class, two openings, the user and the finalizer | types; `FreedOnce`, `CallsSafe`, `NothingLeaks` |

**Bounds.** `MaxCommits` bounds the commits created altogether. A merge needs
three commits (two that diverge and the merge), a second merge of the same
nodes four, so 3 reaches a complete merge with its pull and its push in either
clone, and 4 (in `merge_race`) the one after it. Two clones are
enough for a remote branch to move under a clone's feet; a third adds only more
of the same movement. One change tells "has it" from "has it not"; two are
needed for a conflict. Two workers on a clone are enough for every pair of
steps; the proofs do without bounds on clones, workers and changes.
In `index` the three paths are the smallest set with a path, something below it
and something between the two, which is where walks over sorted paths
go wrong; `a.c` is between `A` and `A/x` in an index sorted without regard to case,
and the greatest of the three as a string, which also lets it hide `A/x` from
Stage. One conflict exists at a time. The 8 entries of `status` add a second
level and an entry whose directories have no other entry. Three handlers
let one be skipped between two others, and three attempts (instead of 15) let a
credential of the first be mistaken for one of the second. Four threads in two
AppDomains let one wait for the lock of each while the others do the work or take
the fast path. The other threads of an AppDomain may never call, so the behaviours of a single one are
among them. The 5 entries of `status` that are sorted without regard to case make the
walk leave directories on two levels and come back to them. The trees of `diff` have at most three entries and three levels,
which is a directory inside a directory (`Places` has the positions up to that
depth), and names such as `a`, `a.c` and `a/`,
whose order is where comparisons of paths and of names part; `MaxPasses` allows
one Reset. In `handles` two openings let what belongs to the first be mistaken for
the second's, and `MaxHeld` leaves the user free to hold most of the wrappers
at once; the proofs do without either bound. In runs that use symmetry the
permuted values occur in no other constant.

**The violations**

* `merge_race`: Commit asks for the repository state and reads MERGE_HEAD
  later. When another worker finishes the merge in between, `MergeHeads` answers
  a failed read with an empty array (`Plumbing/GitRepository.cpp:494`), and what
  was to be "Head + the merged nodes" (`GitClient/GitCommitCmd.cpp:138`) has one
  parent. The counterexample needs two workers on one clone.
* `first_pull`: the initial Pull of a clone of an empty repository fails after
  the fetch has written its references. From then on the repository is not
  empty, HEAD is still unborn, and every Pull ends with "There is no tracking
  information for the current branch" (`GitClient/GitPull.cpp:37`), although the
  tracking information is there. The only ways out are a Reset by other tools
  or a first commit unrelated to the remote's history.
* `status_twice`: for `a/b` that has become a directory, in a list `a/b`, `a/b/x`
  whose first entry makes the walk enter `a`: `sb` stays at `a`, as line 287 of
  `GitStatus.cpp` is reached only by entries in the directory the walk is
  at. `a/b` is reported as an entry and once more as the directory of `a/b/x`,
  where the test of replaced trees removes every path from its list of expected
  ones once (`StatusTests.cs:214`). `OnceUnlessReplaced` is what remains true.

**What is true only with exceptions.** The properties name what the code does
not promise, and each exception is a step of the model:

* `ReturnsReady` excuses two AppDomains that initialize the libraries at the same
  time (`Raced`). An initializer that only counts its second call lets that
  AppDomain go on, publish and return while the first is still inside; from then on
  every thread takes the fast path. The property says that what is missing then is
  being initialized by a thread inside its initializer. With one AppDomain nobody
  returns early (`OneDomainReturnsReady`). `PublishesFirst`, the assertion
  `Debug::Assert(v == 1)` of `GitClientContext.cpp:50`, excuses the same race: both
  AppDomains publish, and for the second one it does not hold. `ImplementsOnce` maps
  the `ready` of `OnceInit` to `ReadyOrRaced`, which is `Ready` until there has been a
  race.
* `StagedAsInWork` excuses a missing file that another entry hides. In an index
  sorted without regard to case `a` comes before `B`, but as a string it is the
  greater one: the walk for `B` ends at `a`, Stage succeeds, and `B` stays in the index.
  Without core.ignorecase this cannot happen (`MissingIsUnstaged`). It also
  excuses a file that has replaced a directory, where Stage only removes what is
  in the directory (it takes a second Stage to add the file), and a conflict of
  several entries, of which the first is removed.
* `HalfDeleted` says what is left of the recursive Delete: it skips the entry behind
  each one it removes, so that up to half of the directory stays in the index.
* `OnceUnlessReplaced` is about lists in the order of their raw paths. With
  `SortCaseInsensitive` the walk meets `a/x`, `A/y`, `a/z` and introduces `a`
  twice; `ParentFirst` and `EntriesKept` hold for such lists too.
* `CoversParents` and `IndexCoversHead` leave out a clone whose branch was created by
  an initial Pull that ended before the checkout (`torn`, `spoilt`), and `KeepsHistory`
  one that is reset while another worker uses it. Both go wrong in the code.
* `CallsSafe` excuses a wrapper that the user lets go of during its own call
  (no `GC::KeepAlive` follows any call); an *abandoned* index or object database,
  whose repository can be finalized under it; an object of a disposed
  repository, since `GitObject::IsDisposed` says "and" where the other classes
  say "or" (`GitObject.h`); a reference whose lookup by name has failed; and what
  belongs to an earlier opening of the same repository.
* `FreedOnce` excuses an abandoned index, which the user's thread and the finalizer may
  release at the same time. `NothingLeaks` leaves out a repository opened again
  after Dispose, whose finalizer is suppressed for good.
* `MergedInOrder` is about listings that ascend. Those of nested trees seldom do,
  because entries are compared by their own names, and then one path of both
  sides may come in two rows; `EachOnce` holds all the same. Nor does a base go back
  to its start when left and right are Reset.

**Fairness.** `EnsureInit` assumes weak fairness of each thread's steps inside
`EnsureInitialized`: a running thread keeps running, and a lock that stays free
is obtained; an initializer that was called returns. Since a caller is inside the lock only once per AppDomain
before the fast path opens, weak fairness is enough. Calling is not fair:
nobody has to. `Credentials` assumes weak fairness of the thread's steps within
an operation: the thread runs, handlers and libgit2 return, and libgit2 does not
ask for credentials more than `MaxCalls` times in one attempt. `TreeDiff` assumes
weak fairness of `Forward`: its caller goes on enumerating, and need not
Reset. `Handles` assumes that native calls return, that a release begun on a
thread goes on, and that the collector runs now and then; the user need
do nothing at all. `StatusWalk`,
`StageIndex` and `GitExchange` are checked for safety only; the code has no
scheduler of its own there, and an operation may always be abandoned.

## What is proved

Every safety property of a passing run is also a theorem, for every value of the
constants: any number of clones, workers, changes and commits, threads and
AppDomains, handlers and attempts, wrappers and openings, and any paths, status
lists and trees that the named assumptions admit. Hypotheses beyond those (`Solo`,
`NoResetRace`, `OneDomain`, `Listed = Paths`) are named below. A proof module has the
inductive invariants; what they say, and why the property alone is not enough:

**GitExchange**

* `TypeCorrect` - `TypeOK`. Not inductive as it stands: a merge takes FETCH_HEAD
  for a commit, so the invariant adds that a worker about to merge has
  fetched something (`SomethingFetched`), which needs that FETCH_HEAD never goes
  back to nothing, and that in turn that a published branch goes on existing.
* `FetchedStaysOnRemote` - `FetchedOnRemote`. The invariant: every ancestor of a
  commit exists (`Known`), ancestry is transitive (`Descent`), a push under way
  has a tip that contains what it saw (`PushForward`). A push is then the only
  step that moves the remote, and it moves it forward.
* `BranchesKeepHistory` - `GitExchange` implements `GitHistory`, under
  `NoResetRace`: whoever resets a clone is its only worker. Without it the
  theorem is false: Reset moves the branch to the tip it read earlier, and drops
  a commit another worker has made since. With it, `Steady` says that what a
  resetting worker has read is still the tip.
* `SoloCoversParents`, `SoloIndexCoversHead` - `CoversParents` and
  `IndexCoversHead`, under `Solo`. Neither is inductive: what a merge writes depends
  on the trees of the merge base, of which only the history is known. The
  invariant `CoverInv` says that trees only grow along the history (`Grown`: a
  common ancestor's tree is in both sides, so `MergedTree` is their union whichever
  base is taken), that an index has what was checked in and what is being
  merged (`Indexed`), and that what the worker has read of its clone is still so
  (`Loaded`). `OnlyWritesWrite` and `OnlyOwnClone` leave nine of the steps, and one of
  the clones, to look at.
* `SoloCleanupSafe`, `SoloMergeHasMergedNodes` - with one worker per clone
  (`Solo`) the merge is recorded before MERGE_HEAD is removed, wherever Commit is
  cut short. The invariant `MergeRead` says that what Commit has read of the merge
  is still so; `OnlyOwnOp`, that no other worker's step changes what it has read.
  `merge_race` shows that `Solo` cannot be dropped from the second.

**EnsureInit**

* `NobodyReturnsEarly` - `ReturnsReady`, for threads in any AppDomains. The
  invariant says of each label which libraries its AppDomain has called on
  (`Through`), and of each of those that it is ready or that somebody is inside its
  initializer (`Underway`).
* `OneDomainReturnsReady` - under `OneDomain` nobody returns before all are ready,
  since then there is no race.
* `InitializedOnce` - `InitializesOnce`: what an AppDomain has done by each label, and
  that only the holder of its lock is between two of them.
* `ImplementsOnceSafely` - the safety part of `ImplementsOnce`: every step of
  `EnsureInit` is one of `OnceInit` or leaves its variables alone, also in a race
  (`ReadyStays`).
* `PublishedOnce` - `PublishesFirst`. Who is about to publish is the first, because an
  AppDomain that is through with the libraries has no thread on the way there.

**StageIndex**

* `TypeCorrect`, `TreeCanBeWritten` - `TypeOK` and `NoCollision`, from `StageInv`: an
  index has one entry for a path and stage, no file of it is above another
  (`Apart`), and the tree of HEAD, written from such an index, is one itself, so that
  what Unstage takes from it does no harm.
* `StagedIsInWork`, `UnstagedIsInHead` - `StagedAsInWork` and `UnstagedAsInHead`.
  The step is the loop's: `ComparedIsFirst`, the entry the loop stops at is the first
  of the index that is not a lesser string, and `ComparedIsOwn`, it is the path's own
  if there is one that is not hidden.
* `MissingIsUnstaged` - under `Listed = Paths`, where the index is sorted as Stage
  compares, nothing is ever hidden.
* `OthersAreKept` - `OthersKept`. `Removed` walks over positions while it removes, which
  the module states as a recursive function of the positions. `AlternatesExists`
  shows that there is one; that it only takes doomed entries is
  `RemovedIsDoomed`.
* `HalfIsDeleted` - `HalfDeleted`. A doomed entry that stays comes right after one that is
  removed, and no two after the same (`RemovedIsHalf`).

**StatusWalk**

* `TypeCorrect` - `TypeOK`. The invariant says that the entry is the last one taken and
  that `sb` is above it when directories are entered.
* `DirectoriesFirst` - `ParentFirst`, for a list in any order. `Located`: the directory the walk is at has been
  reported, or is still the one above the root. `ParentFirst` itself then says that
  of those above it, so that leaving one keeps `Located`.
* `ReportedOnceUnlessReplaced` - `OnceUnlessReplaced`. `Fresh`: what was reported
  leads to entries already taken (`Behind`), and leads to one still to come
  only if `sb` has not left it (`Ahead`). This is where the property's premise
  `InOrder` is needed: what is below a directory is one stretch of it (`Stretch`).
* `EveryEntryReported` - `EntriesKept`. `Counted`: there are as many events for entries as
  entries were taken, without the second ones of a pair (`Rank`), and three in
  a row never are for one path (`NoTriple`).

**Credentials**

* `NobodyIsSkipped`, `NobodyIsAskedTwice` - `EveryoneAsked` and `DeclinedOnce`, for
  any handlers, attempts and invocations. The invariant `Walked`: from an operation's first
  invocation on, the handlers below the cursor are exactly those that have
  declined, and the handlers are all different. Hooking appends, which keeps it;
  unhooking does not, and both properties exclude it.
* `CausesAreOwn` - `OwnException`: between two operations `_threadException` is empty,
  because `HandleGitError` empties it whatever the outcome. `GIT_THROW` does so only on
  an error, which is enough because a checkout with a failed callback is one.
* `RetriesArePaid` - `RetriedOnlyWithCredential`.
* `TypeCorrect`: the cursor stays within the list, because a list without duplicates is
  no longer than there are handlers, and the invocations of an operation are paid
  by the attempts it has used up (`Counted`).
* `EveryStepUsesUp` - every step of an operation lowers `Left`, a tuple of numbers, in
  lexicographic order: the attempts, how far the one under way is, the
  invocations it has left, and the handlers that may still be asked. Hooking,
  unhooking and callbacks that throw do not raise it. So an operation takes finitely many
  steps, which is what `Ends` rests on.

**TreeDiff**

* `TakenAreLeast`, `SomethingIsTaken` - lemmas about `WithBase`, for any keys: the
  rows consist of exactly the sides whose entry is the least, and no call that
  has an entry reports none.
* `TypeCorrect`, `EveryEntryOnce` - `TypeOK` and `EachOnce`. A chain of walkers stands for
  what is *to come* of its tree: the positions that leave its way for a later
  entry (`ToCome`). The invariant `DiffInv` says of each side that every entry it
  lists has been reported or is to come, the former before the latter (`Idle`), with
  a found entry that waits for its turn between them (`Come`). `AdvancedMeans` is the
  step: `MoveNext` of a chain comes to the least of what is to come, at any depth.
  A walker that throws has passed nothing but the lost subtree.
* `RowsInOrder` - `MergedInOrder`. `MergeInv` adds that every row has one name (`Single`),
  that the rows ascend (`Ascending`), and that the names reported are before
  every name still ahead of any side (`Passed`); `TakenAreLeast` keeps that.
* `PassesRepeat` - `Repeats`. The property compares two histories, so the invariant
  says what each of them is: a prefix of the only one there can be. `RepeatInv`: the
  state of a pass is reached from the start by a finite number of steps of
  a function (`Following`), and of two such states the rows of one begin
  those of the other (`ReachedNest`). It holds without a base only, which Reset leaves
  where it is.
* `EveryCallAdvances` - every call of `MoveNext` ends the enumeration or leaves strictly
  fewer entries of some side to be reported, and more of none, also when it throws. This
  is what `Ends` rests on; that a caller who goes on comes to the end is then a
  matter of fairness.

**Handles**

* `TypeCorrect`, `ReleasedOnce`, `NothingReleasedInUse` - `TypeOK`,
  `FreedOnce` and `CallsSafe`, for any wrappers and openings. The invariant `Inv`: a
  native object that was released is pointed to only by a wrapper some thread is
  about to set to null (`Native`, and `Opened` for the repository); the finalizer is at
  work on what the user cannot reach (`Apart`); nobody has anything to do with what
  has not been made (`Fresh`). `Apart` rests on `ReachShrinks`: what the user cannot
  reach stays out of reach. It has no such hold on an index that the finalizer disposes of
  together with its repository, which is exactly the exception of the properties.
* `LeakedCanBeTaken`, `FinalizersRunOnce` - what `NothingLeaks` rests on: whatever has
  leaked has a finalizer that may run, or a thread is releasing it, and a finalizer
  runs once at most. The invariant `Secured`: a wrapper that has a native object, or a
  name it can get one by, is armed unless it is being released.

Positions, runs and the entries of an index are of any number, and the library's
theorems of induction take an operator as a parameter, which the provers cannot
instantiate. The proofs go by the least counterexample instead (`LeastNatural` of
`PathLemmas`): that is how the recursive function `At` is known to have a value at
every position of a tree (`WayExists`), and that a chain of walkers stands where it
leads (`ChainAt`).

**Only model-checked.** Liveness: `Ends` of `Credentials` and of `TreeDiff`,
`NothingLeaks`, and the liveness part of `ImplementsOnce`. Fairness and ENABLED
are out of the prover's reach. The bounds of the runs apply to these four; what is
proved of the first three is that no step is in vain, as named above.

## What is not modelled

* In the modelled files: Stash, CheckOut and Fetch on their own; RevertCommit,
  after which Commit refuses with "Invalid repository state" (`GitCommitCmd.cpp:151`) until somebody cleans
  it up; several branches and remotes (each clone has the one branch it
  tracks); the contents of callbacks; an operation begun inside a callback;
  Stage of several paths; the options of Status and what an event tells; `Clone`
  itself, a clone being complete before it is used. A crash *inside* a libgit2
  call, which is atomic here.
* `GitPool`: every operation makes its own and disposes of it on return, and no
  other thread sees it. Configuration, branches in general and the path tools:
  lookups and normalisation without state of their own, which leave nothing for an
  interleaving to go wrong in.
* The vendored Subversion sources (`src/from_svn`), which make up nine tenths of the
  lines of the repository; build scripts; the user interface stub. Objects,
  identifiers, wording of messages: views and formatting without state. SharpGit itself is some
  12,400 lines, of which a good part are properties, argument checks and
  conversions; the definitions here stand for about 1,800 of them.

## Seen on the way

Not properties of any run, and not claimed by any document, but worth knowing for
whoever maintains the code:

* `DiffBaseEnumerable::GetEnumerator` passes `(base, left, right)` to a constructor
  whose parameters are `(left, right, base)`, and `HasRight` of the difference
  tests `_left` (`Plumbing/DiffEnumerator.h`). `TreeDiff` models the enumerator
  with the names its constructor gives them.
* `GitRepository::References` makes a new collection each time and never stores
  it; `Index` and `ObjectDatabase` go on returning the wrapper the user has
  disposed of.

## Plan

Done: the exchange of commits, initialization, the index, the walk of Status,
credentials and errors, differences, and the lifetime of handles. Left:

1. Operations begun inside a callback, which share the cursor and the
   `_threadException` of the one under way.
2. `Branch`, `Config`: creation, tracking and lookups with several remotes, and
   PushAll over them; Stash and RevertCommit as further operations of
   `GitExchange`.
3. The prefix logic of the path tools as pure operators.
4. Proofs: that the order of `EveryStepUsesUp` bounds the number of steps by a number;
   the invariants of what items 1 and 2 add.
