------------------------------- MODULE Handles -------------------------------
(***************************************************************************)
(* Who releases what: a GitRepository, the managed wrappers of the native  *)
(* objects it hands out, the thread that uses them, and the finalizer of   *)
(* the garbage collector, which takes what that thread cannot reach any    *)
(* more.                                                                   *)
(*                                                                         *)
(* GitObject, GitReference and GitConfiguration have a reference to their  *)
(* repository; GitIndex ("no detach") and GitObjectDatabase have none.     *)
(***************************************************************************)
EXTENDS Naturals, FiniteSets

CONSTANTS Obj, Ref, Conf, Ind,   \* the wrappers that may be made, by their class;
                                 \* Ind are GitIndex and GitObjectDatabase
          Repo,                  \* the GitRepository
          None,
          MaxOpens,              \* bound: how often the repository is opened
          MaxHeld                \* bound: how many references the user has at a time

Wrapper == Obj \cup Ref \cup Conf \cup Ind
Linked == Obj \cup Ref \cup Conf
Thread == {"user", "finalizer"}

ASSUME DistinctAssumption ==
  /\ Repo \notin Wrapper /\ None \notin Wrapper \cup {Repo}
  /\ Linked \cap Ind = {} /\ Obj \cap (Ref \cup Conf) = {} /\ Ref \cap Conf = {}
ASSUME BoundAssumption == MaxOpens \in Nat /\ MaxHeld \in Nat

VARIABLES opens,    \* how often the repository has been opened
          open,     \* _repository is not null
          cached,   \* _configuration and _indexRef or _dbRef of the repository, or None
          made,     \* wrapper -> the opening its native object belongs to, 0 if not made
          handle,   \* the wrappers whose native pointer is not null
          named,    \* the GitReferences that know their _name only
          frees,    \* how often the native object of a wrapper, or of Repo, was released
          held,     \* what the user has a reference to
          armed,    \* whose finalizer has neither run nor been suppressed
          job,      \* thread -> the releases it is in the middle of
          calling   \* the wrapper a native call of the user is at work on

vars == <<opens, open, cached, made, handle, named, frees, held, armed, job, calling>>

\* A release: of the repository, which is at one of its steps, and inside that, or
\* alone, of a wrapper.
Jobs == [repo : {"no", "config", "index", "free", "null"},
         wrapper : Wrapper \cup {None},
         at : {"no", "free", "null"}]
Job(step, w) == [repo |-> step, wrapper |-> w, at |-> IF w = None THEN "no" ELSE "free"]
Free == Job("no", None)
Release(x) == IF x = Repo THEN Job("config", None) ELSE Job("no", x)

TypeOK ==
  /\ opens \in 0..MaxOpens
  /\ open \in BOOLEAN
  /\ cached \in [{"config", "index"} -> Wrapper \cup {None}]
  /\ made \in [Wrapper -> 0..MaxOpens]
  /\ handle \subseteq Wrapper
  /\ named \subseteq Ref
  /\ frees \in [Wrapper \cup {Repo} -> Nat]
  /\ held \subseteq Wrapper \cup {Repo}
  /\ armed \subseteq Wrapper \cup {Repo}
  /\ job \in [Thread -> Jobs]
  /\ \A t \in Thread : job[t].at = "no" <=> job[t].wrapper = None
  /\ calling \in Wrapper \cup {None}

\* gcnew GitRepository(), not opened yet.
Init == /\ opens = 0 /\ open = FALSE
        /\ cached = [f \in {"config", "index"} |-> None]
        /\ made = [w \in Wrapper |-> 0]
        /\ handle = {} /\ named = {}
        /\ frees = [x \in Wrapper \cup {Repo} |-> 0]
        /\ held = {Repo} /\ armed = {Repo}
        /\ job = [t \in Thread |-> Free]
        /\ calling = None

\* What the collector takes for reachable: not what a native call is at work on, when
\* nobody looks at its wrapper afterwards.
Roots == held \cup {job["user"].wrapper} \cup {x \in {Repo} : job["user"].repo # "no"}
RepoReached == Roots \cap (Linked \cup {Repo}) # {}
Reached == Roots \cup IF RepoReached THEN {Repo, cached["config"], cached["index"]} ELSE {}

-----------------------------------------------------------------------------
(***************************************************************************)
(* The user.                                                               *)
(***************************************************************************)
Idle == job["user"] = Free /\ calling = None

\* Open, Locate and CreateAndOpen: AssertNotOpen.
Open ==
  /\ Idle /\ Repo \in held /\ ~open /\ opens < MaxOpens
  /\ opens' = opens + 1 /\ open' = TRUE
  /\ UNCHANGED <<cached, made, handle, named, frees, held, armed, job, calling>>

Hold(x) == held' = held \cup {x} /\ Cardinality(held') <= MaxHeld

\* A wrapper of something of the open repository comes to the user.
Make(w) ==
  /\ Idle /\ Repo \in held /\ open /\ made[w] = 0
  /\ made' = [made EXCEPT ![w] = opens]
  /\ Hold(w)
  /\ armed' = armed \cup {w}
  /\ UNCHANGED <<opens, open, frees, job, calling>>

\* Lookup, HeadReference and the like: AssertOpen, and the native object is there.
Lookup(w) ==
  /\ w \in Obj \cup Ref
  /\ Make(w)
  /\ handle' = handle \cup {w}
  /\ UNCHANGED <<cached, named>>

\* A GitReference made from its name, as GitBranch::Reference does.
ByName(w) ==
  /\ w \in Ref
  /\ Make(w)
  /\ named' = named \cup {w}
  /\ UNCHANGED <<cached, handle>>

\* Configuration makes another wrapper each time, and knows the last one only.
Configuration(w) ==
  /\ w \in Conf
  /\ Make(w)
  /\ handle' = handle \cup {w}
  /\ cached' = [cached EXCEPT !["config"] = w]
  /\ UNCHANGED named

\* Index and ObjectDatabase make one and keep it, disposed or not.
Index(w) ==
  /\ w \in Ind /\ cached["index"] = None
  /\ Make(w)
  /\ handle' = handle \cup {w}
  /\ cached' = [cached EXCEPT !["index"] = w]
  /\ UNCHANGED named

IndexAgain ==
  /\ Idle /\ Repo \in held /\ cached["index"] # None
  /\ Hold(cached["index"])
  /\ UNCHANGED <<opens, open, cached, made, handle, named, frees, armed, job, calling>>

\* GitObject::Repository, GitReference::Repository.
TakeRepository ==
  /\ Idle /\ held \cap (Obj \cup Ref) # {}
  /\ Hold(Repo)
  /\ UNCHANGED <<opens, open, cached, made, handle, named, frees, armed, job, calling>>

\* IsDisposed of each class.  That of GitObject has "and" where the others have "or".
\* Mutant: GitReference does not look at its repository.
IsDisposedAlone(w) == CASE w \in Obj -> w \notin handle /\ open
                        [] w \in Ref -> w \notin handle \cup named
                        [] w \in Conf -> ~open \/ w \notin handle
                        [] w \in Ind -> w \notin handle

IsDisposed(w) == CASE w \in Obj -> w \notin handle /\ open
                   [] w \in Ref -> ~open \/ w \notin handle \cup named
                   [] w \in Conf -> ~open \/ w \notin handle
                   [] w \in Ind -> w \notin handle

\* Handle is asked for, which throws if it IsDisposed, and a native call begins.  A
\* reference that has its name only looks itself up now, and ignores a failure.
Call(w) ==
  /\ Idle /\ w \in held /\ ~IsDisposed(w)
  /\ calling' = w
  /\ \/ w \in handle /\ UNCHANGED <<made, handle, named>>
     \/ /\ w \in named
        /\ made' = [made EXCEPT ![w] = opens]
        /\ handle' = handle \cup {w}
        /\ named' = named \ {w}
     \/ w \notin handle /\ UNCHANGED <<made, handle, named>>
  /\ UNCHANGED <<opens, open, cached, frees, held, armed, job>>

Return ==
  /\ calling # None
  /\ calling' = None
  /\ UNCHANGED <<opens, open, cached, made, handle, named, frees, held, armed, job>>

\* The user needs something no longer, perhaps while a call on it is under way.
Drop(x) ==
  /\ job["user"] = Free /\ x \in held
  /\ held' = held \ {x}
  /\ UNCHANGED <<opens, open, cached, made, handle, named, frees, armed, job, calling>>

\* Dispose: the destructor, and GC::SuppressFinalize behind it.
Dispose(x) ==
  /\ Idle /\ x \in held
  /\ job' = [job EXCEPT !["user"] = Release(x)]
  /\ UNCHANGED <<opens, open, cached, made, handle, named, frees, held, armed, calling>>

-----------------------------------------------------------------------------
(***************************************************************************)
(* Releasing, by the user's Dispose or by the finalizer.                   *)
(***************************************************************************)

\* The finalizer takes what cannot be reached, in any order.  That of GitRepository,
\* unlike its destructor, does nothing when _repository is null.
\* Mutant: GitReference has no finalizer.
FinalizeNoRef(x) ==
  /\ job["finalizer"] = Free
  /\ x \in armed \ (Reached \cup Ref)
  /\ armed' = armed \ {x}
  /\ job' = [job EXCEPT !["finalizer"] = IF x = Repo /\ ~open THEN Free ELSE Release(x)]
  /\ UNCHANGED <<opens, open, cached, made, handle, named, frees, held, calling>>

Finalize(x) ==
  /\ job["finalizer"] = Free
  /\ x \in armed \ Reached
  /\ armed' = armed \ {x}
  /\ job' = [job EXCEPT !["finalizer"] = IF x = Repo /\ ~open THEN Free ELSE Release(x)]
  /\ UNCHANGED <<opens, open, cached, made, handle, named, frees, held, calling>>

Inside(t, step) == job[t].wrapper = None /\ job[t].repo = step

\* ClearReferences deletes what is cached, if anything is, one after the other.
\* Mutant: it does not ask whether anything is.
ClearUntested(t, field, next) ==
  /\ Inside(t, field)
  /\ job' = [job EXCEPT ![t] = [Job(next, cached[field]) EXCEPT !.at = "free"]]
  /\ UNCHANGED <<opens, open, cached, made, handle, named, frees, held, armed, calling>>

Clear(t, field, next) ==
  /\ Inside(t, field)
  /\ job' = [job EXCEPT ![t] = Job(next, cached[field])]
  /\ UNCHANGED <<opens, open, cached, made, handle, named, frees, held, armed, calling>>

\* It forgets them, and git_repository_free: of a null pointer that does nothing.
FreeRepository(t) ==
  /\ Inside(t, "free")
  /\ cached' = [f \in {"config", "index"} |-> None]
  /\ frees' = IF open THEN [frees EXCEPT ![Repo] = @ + 1] ELSE frees
  /\ job' = [job EXCEPT ![t].repo = "null"]
  /\ UNCHANGED <<opens, open, made, handle, named, held, armed, calling>>

\* _repository = nullptr, and SuppressFinalize.
Close(t) ==
  /\ Inside(t, "null")
  /\ open' = FALSE
  /\ armed' = armed \ {Repo}
  /\ job' = [job EXCEPT ![t] = Free]
  /\ UNCHANGED <<opens, cached, made, handle, named, frees, held, calling>>

\* git_object_free and its like: of a null pointer they do nothing.
FreeNative(t) ==
  /\ job[t].at = "free"
  /\ frees' = IF job[t].wrapper \in handle THEN [frees EXCEPT ![job[t].wrapper] = @ + 1]
              ELSE frees
  /\ job' = [job EXCEPT ![t].at = "null"]
  /\ UNCHANGED <<opens, open, cached, made, handle, named, held, armed, calling>>

\* The pointer is set to null, and SuppressFinalize.  Mutant: the pointer is kept.
NullKept(t) ==
  /\ job[t].at = "null"
  /\ named' = named \ {job[t].wrapper}
  /\ armed' = armed \ {job[t].wrapper}
  /\ job' = [job EXCEPT ![t].wrapper = None, ![t].at = "no"]
  /\ UNCHANGED <<opens, open, cached, made, handle, frees, held, calling>>

Null(t) ==
  /\ job[t].at = "null"
  /\ handle' = handle \ {job[t].wrapper}
  /\ named' = named \ {job[t].wrapper}
  /\ armed' = armed \ {job[t].wrapper}
  /\ job' = [job EXCEPT ![t].wrapper = None, ![t].at = "no"]
  /\ UNCHANGED <<opens, open, cached, made, frees, held, calling>>

Step(t) == \/ Clear(t, "config", "index") \/ Clear(t, "index", "free")
           \/ FreeRepository(t) \/ Close(t) \/ FreeNative(t) \/ Null(t)

User == \/ Open \/ IndexAgain \/ TakeRepository
        \/ \E w \in Wrapper : \/ Lookup(w) \/ ByName(w) \/ Configuration(w) \/ Index(w)
                              \/ Call(w)
        \/ \E x \in Wrapper \cup {Repo} : Drop(x) \/ Dispose(x)

Collect == \E x \in Wrapper \cup {Repo} : Finalize(x)

Next == User \/ Return \/ Collect \/ \E t \in Thread : Step(t)

\* Native calls return, releases go on, and the collector runs now and then; the user
\* need do nothing at all.
Spec == /\ Init /\ [][Next]_vars
        /\ WF_vars(Return) /\ WF_vars(Collect) /\ \A t \in Thread : WF_vars(Step(t))

-----------------------------------------------------------------------------
(***************************************************************************)
(* Properties                                                              *)
(***************************************************************************)

\* The index and the object database may be used, and disposed of, by a user who has
\* let go of their repository, whose finalizer disposes of them as well: they have no
\* reference that would keep it.
Abandoned(w) == w \in Ind /\ ~RepoReached

\* Nothing native is released twice, whatever the user disposes of, in whatever order
\* and how often, and whatever the finalizer and the repository's ClearReferences
\* release too; except for an abandoned index, which two threads may release.
FreedOnce == /\ \A w \in Wrapper : frees[w] <= 1 \/ Abandoned(w)
             /\ frees[Repo] <= opens

\* While a native call is at work on the native object of a wrapper, this has not
\* been released, and the repository it belongs to is open.  Not so for
\*   - a wrapper the user has let go of meanwhile (nothing keeps it alive),
\*   - an abandoned index,
\*   - an object, and even one that was disposed of, when the repository has been
\*     disposed of (IsDisposed of GitObject says no),
\*   - a reference whose lookup by name has failed,
\*   - an earlier opening of a repository that was disposed of and opened again.
Excused(w) == \/ w \notin held
              \/ Abandoned(w)
              \/ w \in Obj /\ ~open
              \/ w \in named
              \/ made[w] < opens
CallsSafe == calling # None =>
  \/ Excused(calling)
  \/ /\ calling \in handle /\ frees[calling] = 0
     /\ calling \in Linked => open /\ made[calling] = opens

\* What the user can no longer reach is released in the long run: the native objects
\* of all wrappers, also when the repository has forgotten them or was disposed of
\* before, and the repository.  But the finalizer of a repository is suppressed for
\* good when it was disposed of, and what is opened after that stays open.
Leaked == {w \in handle : w \notin Reached}
          \cup {x \in {Repo} : open /\ ~RepoReached /\ x \in armed}
NothingLeaks == <>[](Leaked = {})
=============================================================================
