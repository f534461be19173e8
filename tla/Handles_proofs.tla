--------------------------- MODULE Handles_proofs ---------------------------
(***************************************************************************)
(* Theorems about Handles, for any wrappers and any number of openings.    *)
(***************************************************************************)
EXTENDS Handles, TLAPS

-----------------------------------------------------------------------------
(***************************************************************************)
(* Types.                                                                  *)
(***************************************************************************)
LEMMA JobType ==
  ASSUME NEW step \in {"no", "config", "index", "free", "null"},
         NEW w \in Wrapper \cup {None}
  PROVE  /\ Job(step, w) \in Jobs
         /\ Job(step, w).at = "no" <=> Job(step, w).wrapper = None
BY DEF Job, Jobs

LEMMA ReleaseType ==
  ASSUME NEW x \in Wrapper \cup {Repo}
  PROVE  /\ Release(x) \in Jobs
         /\ Release(x).at = "no" <=> Release(x).wrapper = None
<1>1. CASE x = Repo
  <2>1. Release(x) = Job("config", None)
    BY <1>1 DEF Release
  <2>2. QED BY <2>1, JobType
<1>2. CASE x # Repo
  <2>1. Release(x) = Job("no", x) /\ x \in Wrapper \cup {None}
    BY <1>2 DEF Release
  <2>2. QED BY <2>1, JobType
<1>3. QED BY <1>1, <1>2

LEMMA FreeIs == Free = [repo |-> "no", wrapper |-> None, at |-> "no"]
BY DEF Free, Job

LEMMA TypeInit == Init => TypeOK
<1> SUFFICES ASSUME Init PROVE TypeOK
  OBVIOUS
<1>1. Free \in Jobs /\ Free.at = "no" /\ Free.wrapper = None
  BY FreeIs DEF Jobs
<1>2. /\ job \in [Thread -> Jobs]
      /\ \A t \in Thread : job[t].at = "no" <=> job[t].wrapper = None
  BY <1>1 DEF Init
<1>3. opens \in 0..MaxOpens /\ made \in [Wrapper -> 0..MaxOpens]
  BY BoundAssumption DEF Init
<1>4. frees \in [Wrapper \cup {Repo} -> Nat]
  BY DEF Init
<1>5. /\ open \in BOOLEAN /\ calling \in Wrapper \cup {None}
      /\ cached \in [{"config", "index"} -> Wrapper \cup {None}]
      /\ handle \subseteq Wrapper /\ named \subseteq Ref
      /\ held \subseteq Wrapper \cup {Repo} /\ armed \subseteq Wrapper \cup {Repo}
  BY DEF Init
<1>6. QED BY <1>2, <1>3, <1>4, <1>5 DEF TypeOK

LEMMA TypeStep == TypeOK /\ [Next]_vars => TypeOK'
<1> SUFFICES ASSUME TypeOK, [Next]_vars PROVE TypeOK'
  OBVIOUS
<1> USE DistinctAssumption, BoundAssumption DEF TypeOK, Thread, Wrapper
<1>1. CASE Open
  BY <1>1 DEF Open
<1>2. ASSUME NEW w \in Wrapper, Lookup(w) PROVE TypeOK'
  BY <1>2 DEF Lookup, Make, Hold
<1>3. ASSUME NEW w \in Wrapper, ByName(w) PROVE TypeOK'
  BY <1>3 DEF ByName, Make, Hold
<1>4. ASSUME NEW w \in Wrapper, Configuration(w) PROVE TypeOK'
  BY <1>4 DEF Configuration, Make, Hold
<1>5. ASSUME NEW w \in Wrapper, Index(w) PROVE TypeOK'
  BY <1>5 DEF Index, Make, Hold
<1>6. CASE IndexAgain
  BY <1>6 DEF IndexAgain, Hold
<1>7. CASE TakeRepository
  BY <1>7 DEF TakeRepository, Hold
<1>8. ASSUME NEW w \in Wrapper, Call(w) PROVE TypeOK'
  BY <1>8 DEF Call
<1>9. CASE Return
  BY <1>9 DEF Return
<1>10. ASSUME NEW x \in Wrapper \cup {Repo}, Drop(x) PROVE TypeOK'
  BY <1>10 DEF Drop
<1>11. ASSUME NEW x \in Wrapper \cup {Repo}, Dispose(x) PROVE TypeOK'
  BY <1>11, ReleaseType DEF Dispose, Jobs
<1>12. ASSUME NEW x \in Wrapper \cup {Repo}, Finalize(x) PROVE TypeOK'
  BY <1>12, ReleaseType, JobType DEF Finalize, Jobs, Free
<1>13. ASSUME NEW t \in Thread, NEW field \in {"config", "index"},
              NEW next \in {"index", "free"}, Clear(t, field, next)
       PROVE  TypeOK'
  BY <1>13, JobType DEF Clear, Jobs
<1>14. ASSUME NEW t \in Thread, FreeRepository(t) PROVE TypeOK'
  BY <1>14 DEF FreeRepository, Jobs
<1>15. ASSUME NEW t \in Thread, Close(t) PROVE TypeOK'
  <2>1. Free \in Jobs /\ Free.at = "no" /\ Free.wrapper = None
    BY FreeIs DEF Jobs
  <2>2. QED BY <1>15, <2>1 DEF Close
<1>16. ASSUME NEW t \in Thread, FreeNative(t) PROVE TypeOK'
  BY <1>16 DEF FreeNative, Jobs
<1>17. ASSUME NEW t \in Thread, Null(t) PROVE TypeOK'
  BY <1>17 DEF Null, Jobs
<1>18. CASE UNCHANGED vars
  BY <1>18 DEF vars
<1>19. QED
  BY <1>1, <1>2, <1>3, <1>4, <1>5, <1>6, <1>7, <1>8, <1>9, <1>10, <1>11, <1>12, <1>13,
     <1>14, <1>15, <1>16, <1>17, <1>18 DEF Next, User, Collect, Step

\* Every variable keeps its type; a thread that releases a wrapper knows which.
THEOREM TypeCorrect == Spec => []TypeOK
BY TypeInit, TypeStep, PTL DEF Spec

-----------------------------------------------------------------------------
(***************************************************************************)
(* The invariant.                                                          *)
(***************************************************************************)

\* What is cached is of its class; during a call the user's thread does nothing else;
\* what has been made belongs to an opening so far.
Shape == /\ cached["config"] \in Conf \cup {None}
         /\ cached["index"] \in Ind \cup {None}
         /\ calling # None => job["user"] = Free
         /\ \A w \in Wrapper : made[w] <= opens
         /\ open => opens # 0

\* Nobody has anything to do with a wrapper that has not been made.
Fresh == \A w \in Wrapper : made[w] = 0 =>
           /\ w \notin handle \cup named \cup held \cup armed
           /\ w # cached["config"] /\ w # cached["index"]
           /\ \A t \in Thread : w # job[t].wrapper
           /\ frees[w] = 0

\* The finalizer is at work on what the user cannot reach, except for an index it
\* disposes of together with its repository.
Apart == /\ job["finalizer"].repo # "no" => ~RepoReached
         /\ /\ job["finalizer"].wrapper # None
            /\ job["finalizer"].repo = "no"
            => job["finalizer"].wrapper \notin Reached

\* The wrappers FreedOnce speaks of.
Kept(w) == w \in Linked \/ RepoReached

\* A native object that was released is still pointed to only by a wrapper some
\* thread is about to set to null.
Native == \A w \in Wrapper :
  /\ Kept(w) => /\ frees[w] <= 1
                /\ w \in handle => \/ frees[w] = 0
                                   \/ \E t \in Thread : job[t].wrapper = w /\ job[t].at = "null"
  /\ w \in named => w \notin handle /\ frees[w] = 0

\* The same for the repository, of which each opening is released once.
Opened == /\ frees[Repo] <= opens
          /\ open => frees[Repo] < opens \/ \E t \in Thread : job[t].repo = "null"

Inv == TypeOK /\ Shape /\ Fresh /\ Apart /\ Native /\ Opened

-----------------------------------------------------------------------------
(***************************************************************************)
(* What can be reached.                                                    *)
(***************************************************************************)
Reaching ==
  /\ RepoReached <=> \/ Repo \in held
                     \/ job["user"].repo # "no"
                     \/ \E w \in Linked : w \in held \/ w = job["user"].wrapper
  /\ \A w \in Wrapper : w \in Reached <=>
       \/ w \in held
       \/ w = job["user"].wrapper
       \/ RepoReached /\ (w = cached["config"] \/ w = cached["index"])
  /\ Repo \in Reached <=> RepoReached

LEMMA ReachingHolds == TypeOK => Reaching
<1> SUFFICES ASSUME TypeOK PROVE Reaching
  OBVIOUS
<1>1. /\ job["user"].wrapper \in Wrapper \cup {None}
      /\ cached["config"] \in Wrapper \cup {None} /\ cached["index"] \in Wrapper \cup {None}
  BY DEF TypeOK, Thread, Jobs
<1>2. /\ Repo \notin Wrapper /\ Repo # None /\ None \notin Wrapper
      /\ Linked \subseteq Wrapper
  BY DistinctAssumption DEF Linked, Wrapper
<1>3. \A x : x \in Roots <=> \/ x \in held
                             \/ x = job["user"].wrapper
                             \/ x = Repo /\ job["user"].repo # "no"
  BY DEF Roots
<1>4. RepoReached <=> \E x \in Linked \cup {Repo} : x \in Roots
  BY DEF RepoReached
<1>5. \A x : x \in Reached <=>
               \/ x \in Roots
               \/ RepoReached /\ (x = Repo \/ x = cached["config"] \/ x = cached["index"])
  BY DEF Reached
<1>6. RepoReached <=> \/ Repo \in held
                      \/ job["user"].repo # "no"
                      \/ \E w \in Linked : w \in held \/ w = job["user"].wrapper
  BY <1>1, <1>2, <1>3, <1>4
<1>7. \A w \in Wrapper : w \in Reached <=>
       \/ w \in held
       \/ w = job["user"].wrapper
       \/ RepoReached /\ (w = cached["config"] \/ w = cached["index"])
  BY <1>2, <1>3, <1>5
<1>8. Repo \in Reached <=> RepoReached
  BY <1>1, <1>2, <1>3, <1>4, <1>5
<1>9. QED BY <1>6, <1>7, <1>8 DEF Reaching

LEMMA ReachingNext == TypeOK' => Reaching'
BY ReachingHolds, PTL

\* Nothing the user cannot reach comes back, except for a wrapper just being made.
LEMMA ReachShrinks ==
  ASSUME Inv, [Next]_vars
  PROVE  /\ RepoReached' => RepoReached
         /\ \A w \in Wrapper : w \in Reached' => w \in Reached \/ made[w] = 0
<1> USE DistinctAssumption
<1>0. TypeOK /\ TypeOK' /\ Reaching /\ Reaching' /\ Linked \subseteq Wrapper
  BY TypeStep, ReachingHolds, ReachingNext DEF Inv, Linked, Wrapper
<1> DEFINE Goal == /\ RepoReached' => RepoReached
                   /\ \A w \in Wrapper : w \in Reached' => w \in Reached \/ made[w] = 0
<1>1. CASE UNCHANGED <<held, job, cached>>
  BY <1>0, <1>1 DEF Reaching
<1>2. ASSUME NEW w \in Wrapper, Make(w), UNCHANGED job,
             cached' = cached \/ \E f \in {"config", "index"} : cached' = [cached EXCEPT ![f] = w]
      PROVE  Goal
  <2>1. Repo \in held /\ made[w] = 0 /\ held' = held \cup {w} /\ RepoReached
    BY <1>2, <1>0 DEF Make, Hold, Reaching
  <2>2. \A f \in {"config", "index"} : cached'[f] = cached[f] \/ cached'[f] = w
    BY <1>2, <1>0 DEF TypeOK
  <2>3. QED BY <2>1, <2>2, <1>2, <1>0 DEF Reaching
<1>3. CASE IndexAgain
  <2>1. held' = held \cup {cached["index"]} /\ Repo \in held /\ UNCHANGED <<job, cached>>
    BY <1>3 DEF IndexAgain, Hold
  <2>2. QED BY <2>1, <1>0 DEF Reaching
<1>4. CASE TakeRepository
  <2>1. /\ held' = held \cup {Repo} /\ UNCHANGED <<job, cached>>
        /\ \E w \in Linked : w \in held
    BY <1>4 DEF TakeRepository, Hold, Linked
  <2>2. QED BY <2>1, <1>0 DEF Reaching
<1>5. ASSUME NEW x \in Wrapper \cup {Repo}, Drop(x) PROVE Goal
  BY <1>5, <1>0 DEF Drop, Reaching
<1>6. ASSUME NEW x \in Wrapper \cup {Repo}, Dispose(x) PROVE Goal
  <2>1. /\ UNCHANGED <<held, cached>> /\ x \in held
        /\ job'["user"] = Release(x)
    BY <1>6, <1>0 DEF Dispose, TypeOK, Thread
  <2>2. /\ x = Repo => Release(x).repo = "config" /\ Release(x).wrapper = None
        /\ x # Repo => Release(x).repo = "no" /\ Release(x).wrapper = x
    BY DEF Release, Job
  <2>3. QED BY <2>1, <2>2, <1>0 DEF Reaching, Wrapper
<1>7. CASE UNCHANGED <<held, cached>> /\ job'["user"] = job["user"]
  BY <1>7, <1>0 DEF Reaching
<1>8. ASSUME NEW x \in Wrapper \cup {Repo}, Finalize(x) PROVE Goal
  BY <1>7, <1>8, <1>0 DEF Finalize, TypeOK, Thread
<1>9. ASSUME NEW t \in Thread, NEW field \in {"config", "index"}, NEW next \in {"index", "free"},
             Clear(t, field, next)
      PROVE  Goal
  <2>1. /\ UNCHANGED <<held, cached>> /\ job[t].repo = field
        /\ job' = [job EXCEPT ![t] = Job(next, cached[field])]
    BY <1>9 DEF Clear, Inside
  <2>2. CASE t = "user"
    <3>1. job'["user"].wrapper = cached[field] /\ RepoReached
      BY <2>1, <2>2, <1>0 DEF TypeOK, Thread, Job, Reaching
    <3>2. QED BY <3>1, <2>1, <1>0 DEF Reaching
  <2>3. CASE t # "user"
    BY <2>1, <2>3, <1>7, <1>0 DEF TypeOK, Thread
  <2>4. QED BY <2>2, <2>3
<1>10. ASSUME NEW t \in Thread, FreeRepository(t) PROVE Goal
  <2>1. /\ held' = held /\ \A f \in {"config", "index"} : cached'[f] = None
        /\ job[t].repo = "free" /\ job' = [job EXCEPT ![t].repo = "null"]
    BY <1>10 DEF FreeRepository, Inside
  <2>2. /\ job'["user"].wrapper = job["user"].wrapper
        /\ job'["user"].repo = job["user"].repo \/ (t = "user" /\ job["user"].repo = "free")
    BY <2>1, <1>0 DEF TypeOK, Thread, Jobs
  <2>3. \A w \in Wrapper : w # None
    OBVIOUS
  <2>4. QED BY <2>1, <2>2, <2>3, <1>0 DEF Reaching
<1>11. ASSUME NEW t \in Thread, Close(t) PROVE Goal
  <2>1. UNCHANGED <<held, cached>> /\ job' = [job EXCEPT ![t] = Free]
    BY <1>11 DEF Close
  <2>2. job'["user"] = job["user"] \/ (job'["user"].wrapper = None /\ job'["user"].repo = "no")
    BY <2>1, <1>0, FreeIs DEF TypeOK, Thread
  <2>3. QED BY <2>1, <2>2, <1>0 DEF Reaching
<1>12. ASSUME NEW t \in Thread, FreeNative(t) \/ Null(t) PROVE Goal
  <2>1. /\ UNCHANGED <<held, cached>> /\ job'["user"].repo = job["user"].repo
        /\ job'["user"].wrapper \in {job["user"].wrapper, None}
    BY <1>12, <1>0 DEF FreeNative, Null, TypeOK, Thread, Jobs
  <2>2. QED BY <2>1, <1>0 DEF Reaching
<1>13. ASSUME NEW w \in Wrapper, Lookup(w) \/ ByName(w) \/ Configuration(w) \/ Index(w) PROVE Goal
  BY <1>13, <1>2 DEF Lookup, ByName, Configuration, Index, Make
<1>14. CASE Open
  BY <1>14, <1>1 DEF Open
<1>15. CASE Return
  BY <1>15, <1>1 DEF Return
<1>16. ASSUME NEW w \in Wrapper, Call(w) PROVE Goal
  BY <1>16, <1>1 DEF Call
<1>17. CASE UNCHANGED vars
  BY <1>17, <1>1 DEF vars
<1>18. QED
  BY <1>3, <1>4, <1>5, <1>6, <1>8, <1>9, <1>10, <1>11, <1>12, <1>13, <1>14, <1>15, <1>16, <1>17
     DEF Next, User, Collect, Step

-----------------------------------------------------------------------------
(***************************************************************************)
(* The steps keep the invariant.                                           *)
(***************************************************************************)

\* Neither Free nor a released wrapper is anything but what it says.
LEMMA ReleaseIs ==
  ASSUME NEW x \in Wrapper \cup {Repo}
  PROVE  /\ x = Repo => /\ Release(x).repo = "config" /\ Release(x).wrapper = None
                        /\ Release(x).at = "no"
         /\ x # Repo => /\ Release(x).repo = "no" /\ Release(x).wrapper = x
                        /\ Release(x).at \in {"no", "free"}
BY DEF Release, Job

LEMMA ShapeStep == Inv /\ [Next]_vars => Shape'
<1> SUFFICES ASSUME Inv, [Next]_vars PROVE Shape'
  OBVIOUS
<1> USE DistinctAssumption, FreeIs
<1>0. TypeOK /\ TypeOK' /\ Shape /\ opens \in Nat /\ made \in [Wrapper -> Nat]
  BY TypeStep, BoundAssumption DEF Inv, TypeOK
<1>1. CASE Open
  BY <1>0, <1>1 DEF Open, Shape, Idle
<1>2. ASSUME NEW w \in Wrapper, Make(w), UNCHANGED <<calling, job, opens, open>>,
             \/ cached' = cached
             \/ w \in Conf /\ cached' = [cached EXCEPT !["config"] = w]
             \/ w \in Ind /\ cached' = [cached EXCEPT !["index"] = w]
      PROVE  Shape'
  <2>1. \A v \in Wrapper : made'[v] <= opens'
    BY <1>0, <1>2 DEF Make, Shape
  <2>2. cached'["config"] \in Conf \cup {None} /\ cached'["index"] \in Ind \cup {None}
    BY <1>0, <1>2 DEF Shape, TypeOK
  <2>3. QED BY <2>1, <2>2, <1>0, <1>2 DEF Shape
<1>3. ASSUME NEW w \in Wrapper, Lookup(w) \/ ByName(w) \/ Configuration(w) \/ Index(w)
      PROVE  Shape'
  BY <1>2, <1>3 DEF Lookup, ByName, Configuration, Index, Make
<1>4. CASE IndexAgain \/ TakeRepository
  BY <1>0, <1>4 DEF IndexAgain, TakeRepository, Shape
<1>5. ASSUME NEW w \in Wrapper, Call(w) PROVE Shape'
  <2>1. UNCHANGED <<opens, open, cached, job>> /\ job["user"] = Free
    BY <1>5 DEF Call, Idle
  <2>2. made' = made \/ made' = [made EXCEPT ![w] = opens]
    BY <1>5 DEF Call
  <2>3. QED BY <2>1, <2>2, <1>0 DEF Shape
<1>6. CASE Return
  BY <1>0, <1>6 DEF Return, Shape
<1>7. ASSUME NEW x \in Wrapper \cup {Repo}, Drop(x) \/ Dispose(x) PROVE Shape'
  BY <1>0, <1>7 DEF Drop, Dispose, Idle, Shape
<1>8. ASSUME NEW x \in Wrapper \cup {Repo}, Finalize(x) PROVE Shape'
  BY <1>0, <1>8 DEF Finalize, Shape, TypeOK, Thread
<1>9. ASSUME NEW t \in Thread, Step(t) PROVE Shape'
  <2>1. UNCHANGED <<opens, made, calling>> /\ open' \in {open, FALSE}
    BY <1>9 DEF Step, Clear, FreeRepository, Close, FreeNative, Null
  <2>2. cached' = cached \/ \A f \in {"config", "index"} : cached'[f] = None
    BY <1>9 DEF Step, Clear, FreeRepository, Close, FreeNative, Null
  <2>3. \E j : job' = [job EXCEPT ![t] = j]
    BY <1>9 DEF Step, Clear, FreeRepository, Close, FreeNative, Null
  <2>4. job[t] # Free
    BY <1>9 DEF Step, Inside, Clear, FreeRepository, Close, FreeNative, Null
  <2>5. calling' # None => job'["user"] = Free
    BY <2>1, <2>3, <2>4, <1>0 DEF Shape, TypeOK, Thread
  <2>6. cached'["config"] \in Conf \cup {None} /\ cached'["index"] \in Ind \cup {None}
    BY <2>2, <1>0 DEF Shape
  <2>7. (\A w \in Wrapper : made'[w] <= opens') /\ (open' => opens' # 0)
    <3>1. \A w \in Wrapper : made[w] <= opens
      BY <1>0 DEF Shape
    <3>2. open' => open
      BY <2>1
    <3>3. QED BY <2>1, <3>1, <3>2, <1>0 DEF Shape
  <2>8. QED BY <2>5, <2>6, <2>7 DEF Shape
<1>10. CASE UNCHANGED vars
  BY <1>0, <1>10 DEF vars, Shape
<1>11. QED
  BY <1>1, <1>3, <1>4, <1>5, <1>6, <1>7, <1>8, <1>9, <1>10 DEF Next, User, Collect

LEMMA FreshStep == Inv /\ [Next]_vars => Fresh'
<1> SUFFICES ASSUME Inv, [Next]_vars PROVE Fresh'
  OBVIOUS
<1> USE DistinctAssumption, FreeIs
<1>0. TypeOK /\ TypeOK' /\ Shape /\ Fresh /\ opens \in Nat /\ Linked \subseteq Wrapper
  BY TypeStep, BoundAssumption DEF Inv, TypeOK, Linked, Wrapper
<1>1. CASE UNCHANGED <<cached, made, handle, named, frees, held, armed, job>>
  BY <1>0, <1>1 DEF Fresh
<1>2. ASSUME NEW w \in Wrapper, Make(w),
             handle' \subseteq handle \cup {w}, named' \subseteq named \cup {w},
             cached' = cached \/ \E f \in {"config", "index"} : cached' = [cached EXCEPT ![f] = w]
      PROVE  Fresh'
  <2>1. made' = [made EXCEPT ![w] = opens] /\ opens # 0
    BY <1>0, <1>2 DEF Make, Shape
  <2>2. /\ held' = held \cup {w} /\ armed' = armed \cup {w}
        /\ UNCHANGED <<frees, job>>
    BY <1>2 DEF Make, Hold
  <2>3. \A f \in {"config", "index"} : cached'[f] \in {cached[f], w}
    BY <1>0, <1>2 DEF TypeOK
  <2>4. SUFFICES ASSUME NEW v \in Wrapper, made'[v] = 0
                 PROVE  /\ v \notin handle' \cup named' \cup held' \cup armed'
                        /\ v # cached'["config"] /\ v # cached'["index"]
                        /\ \A t \in Thread : v # job'[t].wrapper
                        /\ frees'[v] = 0
    BY DEF Fresh
  <2>5. v # w /\ made[v] = 0
    BY <2>1, <2>4, <1>0 DEF TypeOK
  <2>6. QED BY <2>2, <2>3, <2>5, <1>2, <1>0 DEF Fresh
<1>3. ASSUME NEW w \in Wrapper, Lookup(w) \/ ByName(w) \/ Configuration(w) \/ Index(w)
      PROVE  Fresh'
  <2>1. Make(w)
    BY <1>3 DEF Lookup, ByName, Configuration, Index
  <2>2. handle' \subseteq handle \cup {w} /\ named' \subseteq named \cup {w}
    BY <1>3 DEF Lookup, ByName, Configuration, Index
  <2>3. cached' = cached \/ \E f \in {"config", "index"} : cached' = [cached EXCEPT ![f] = w]
    BY <1>3 DEF Lookup, ByName, Configuration, Index
  <2>4. QED BY <2>1, <2>2, <2>3, <1>2
<1>4. CASE IndexAgain \/ TakeRepository
  <2>1. /\ held' \subseteq held \cup {cached["index"], Repo}
        /\ UNCHANGED <<cached, made, handle, named, frees, armed, job>>
    BY <1>4 DEF IndexAgain, TakeRepository, Hold
  <2>2. QED BY <2>1, <1>0 DEF Fresh
<1>5. ASSUME NEW w \in Wrapper, Call(w) PROVE Fresh'
  <2>1. /\ handle' \subseteq handle \cup named /\ named' \subseteq named
        /\ made' = made \/ (made' = [made EXCEPT ![w] = opens] /\ w \in named)
    <3>1. CASE UNCHANGED <<made, handle, named>>
      BY <3>1
    <3>2. CASE /\ w \in named /\ made' = [made EXCEPT ![w] = opens]
               /\ handle' = handle \cup {w} /\ named' = named \ {w}
      BY <3>2
    <3>3. QED BY <1>5, <3>1, <3>2 DEF Call
  <2>3. \A v \in Wrapper : made'[v] = 0 => made[v] = 0
    <3>1. CASE made' = made
      BY <3>1
    <3>2. CASE made' = [made EXCEPT ![w] = opens] /\ w \in named
      <4>1. made[w] # 0 /\ made[w] <= opens /\ made \in [Wrapper -> Nat]
        BY <3>2, <1>0, BoundAssumption DEF Fresh, Shape, TypeOK
      <4>2. opens # 0
        BY <4>1, <1>0
      <4>3. QED BY <4>1, <4>2, <3>2
    <3>3. QED BY <3>1, <3>2, <2>1
  <2>2. UNCHANGED <<cached, frees, held, armed, job>>
    BY <1>5 DEF Call
  <2>4. QED BY <2>1, <2>2, <2>3, <1>0 DEF Fresh
<1>6. ASSUME NEW x \in Wrapper \cup {Repo}, Drop(x) PROVE Fresh'
  BY <1>6, <1>0 DEF Drop, Fresh
<1>7. ASSUME NEW x \in Wrapper \cup {Repo}, Dispose(x) \/ Finalize(x) PROVE Fresh'
  <2>1. /\ UNCHANGED <<cached, made, handle, named, frees, held>> /\ armed' \subseteq armed
        /\ x \in held \cup armed
        /\ \E t \in Thread, j \in {Free, Release(x)} : job' = [job EXCEPT ![t] = j]
    BY <1>7 DEF Dispose, Finalize, Thread
  <2>2. \A t \in Thread : job'[t].wrapper \in {job[t].wrapper, None, x}
    BY <2>1, <1>0, ReleaseIs DEF TypeOK
  <2>3. QED BY <2>1, <2>2, <1>0 DEF Fresh
<1>8. ASSUME NEW t \in Thread, Step(t) PROVE Fresh'
  <2>1. /\ handle' \subseteq handle /\ named' \subseteq named /\ armed' \subseteq armed
        /\ UNCHANGED <<made, held>>
    BY <1>8 DEF Step, Clear, FreeRepository, Close, FreeNative, Null
  <2>2. cached' = cached \/ \A f \in {"config", "index"} : cached'[f] = None
    BY <1>8 DEF Step, Clear, FreeRepository, Close, FreeNative, Null
  <2>3. \A u \in Thread :
          job'[u].wrapper \in {job[u].wrapper, None, cached["config"], cached["index"]}
    <3>1. CASE \E field \in {"config", "index"}, next \in {"index", "free"} : Clear(t, field, next)
      BY <3>1, <1>0 DEF Clear, Job, TypeOK
    <3>2. CASE FreeRepository(t) \/ FreeNative(t) \/ Null(t)
      BY <3>2, <1>0 DEF FreeRepository, FreeNative, Null, TypeOK, Jobs
    <3>3. CASE Close(t)
      BY <3>3, <1>0 DEF Close, TypeOK
    <3>4. QED BY <3>1, <3>2, <3>3, <1>8 DEF Step
  <2>4. \A v \in Wrapper : v \notin handle => frees'[v] = frees[v]
    BY <1>8, <1>0 DEF Step, Clear, FreeRepository, Close, FreeNative, Null, TypeOK
  <2>5. QED BY <2>1, <2>2, <2>3, <2>4, <1>0 DEF Fresh
<1>9. QED
  BY <1>1, <1>3, <1>4, <1>5, <1>6, <1>7, <1>8
     DEF Next, User, Collect, Open, Return, vars

LEMMA ApartStep == Inv /\ [Next]_vars => Apart'
<1> SUFFICES ASSUME Inv, [Next]_vars PROVE Apart'
  OBVIOUS
<1> USE DistinctAssumption, FreeIs
<1>0. TypeOK /\ TypeOK' /\ Apart /\ Reaching
  BY TypeStep, ReachingHolds DEF Inv
<1>1. /\ RepoReached' => RepoReached
      /\ \A w \in Wrapper : w \in Reached' => w \in Reached \/ made[w] = 0
  BY ReachShrinks
<1>2. \A w \in Wrapper : made[w] = 0 => w \notin armed /\ w # job["finalizer"].wrapper
  BY DEF Inv, Fresh, Thread
<1>3. CASE job'["finalizer"] = job["finalizer"]
  <2>1. job["finalizer"].wrapper \in Wrapper \cup {None}
    BY <1>0 DEF TypeOK, Thread, Jobs
  <2>2. QED BY <2>1, <1>0, <1>1, <1>2, <1>3 DEF Apart
<1>4. ASSUME NEW x \in Wrapper \cup {Repo}, Finalize(x) PROVE Apart'
  <2>1. x \in armed /\ x \notin Reached /\ job'["finalizer"] \in {Free, Release(x)}
    BY <1>4, <1>0 DEF Finalize, TypeOK, Thread
  <2>2. CASE job'["finalizer"] = Free
    BY <2>2 DEF Apart
  <2>3. CASE x = Repo /\ job'["finalizer"] = Release(x)
    BY <2>1, <2>3, <1>0, <1>1, ReleaseIs DEF Apart, Reaching
  <2>4. CASE x # Repo /\ job'["finalizer"] = Release(x)
    BY <2>1, <2>4, <1>1, <1>2, ReleaseIs DEF Apart
  <2>5. QED BY <2>1, <2>2, <2>3, <2>4
<1>5. CASE Step("finalizer")
  <2>1. CASE \E field \in {"config", "index"}, next \in {"index", "free"} :
               Clear("finalizer", field, next)
    BY <2>1, <1>0, <1>1 DEF Clear, Inside, Job, Apart, TypeOK, Thread
  <2>2. CASE FreeRepository("finalizer")
    BY <2>2, <1>0, <1>1 DEF FreeRepository, Inside, Apart, TypeOK, Thread, Jobs
  <2>3. CASE Close("finalizer")
    BY <2>3, <1>0 DEF Close, Apart, TypeOK, Thread
  <2>4. CASE FreeNative("finalizer")
    <3>1. /\ job'["finalizer"].repo = job["finalizer"].repo
          /\ job'["finalizer"].wrapper = job["finalizer"].wrapper
          /\ job["finalizer"].wrapper \in Wrapper \cup {None}
      BY <2>4, <1>0 DEF FreeNative, TypeOK, Thread, Jobs
    <3>2. QED BY <3>1, <1>0, <1>1, <1>2 DEF Apart
  <2>5. CASE Null("finalizer")
    BY <2>5, <1>0, <1>1 DEF Null, Apart, TypeOK, Thread, Jobs
  <2>6. QED BY <2>1, <2>2, <2>3, <2>4, <2>5, <1>5 DEF Step
<1>6. CASE Step("user")
  BY <1>3, <1>6, <1>0 DEF Step, Clear, FreeRepository, Close, FreeNative, Null, TypeOK, Thread
<1>7. CASE User \/ Return \/ UNCHANGED vars
  <2>1. CASE UNCHANGED job
    BY <2>1, <1>3
  <2>2. ASSUME NEW x \in Wrapper \cup {Repo}, Dispose(x) PROVE Apart'
    BY <2>2, <1>3, <1>0 DEF Dispose, TypeOK, Thread
  <2>3. QED
    BY <2>1, <2>2, <1>7
       DEF User, Open, IndexAgain, TakeRepository, Lookup, ByName, Configuration, Index, Make,
           Call, Drop, Return, vars
<1>8. QED
  BY <1>4, <1>5, <1>6, <1>7 DEF Next, Collect, Thread

\* Only one thread releases what the user can reach or has let go of, and only one the
\* repository.
LEMMA Exclusive ==
  ASSUME Inv
  PROVE  /\ \A w \in Wrapper :
              job["finalizer"].wrapper = w /\ Kept(w) => w \notin Reached
         /\ \A w \in Wrapper :
              w \in held \/ w = job["user"].wrapper => w \in Reached
         /\ \A w \in Wrapper, t, u \in Thread :
              Kept(w) /\ job[t].wrapper = w /\ job[u].wrapper = w => t = u
         /\ \A t, u \in Thread : job[t].repo # "no" /\ job[u].repo # "no" => t = u
<1> USE DistinctAssumption
<1>0. TypeOK /\ Apart /\ Reaching
  BY ReachingHolds DEF Inv
<1>1. ASSUME NEW w \in Wrapper, job["finalizer"].wrapper = w, Kept(w) PROVE w \notin Reached
  <2>1. CASE job["finalizer"].repo = "no"
    BY <1>1, <2>1, <1>0 DEF Apart
  <2>2. CASE job["finalizer"].repo # "no"
    BY <1>1, <2>2, <1>0 DEF Apart, Reaching, Kept
  <2>3. QED BY <2>1, <2>2
<1>2. \A w \in Wrapper : w \in held \/ w = job["user"].wrapper => w \in Reached
  BY <1>0 DEF Reaching
<1>3. \A w \in Wrapper, t, u \in Thread :
        Kept(w) /\ job[t].wrapper = w /\ job[u].wrapper = w => t = u
  BY <1>1, <1>2 DEF Thread
<1>4. \A t, u \in Thread : job[t].repo # "no" /\ job[u].repo # "no" => t = u
  BY <1>0 DEF Thread, Apart, Reaching
<1>5. QED BY <1>1, <1>2, <1>3, <1>4

LEMMA OpenedStep == Inv /\ [Next]_vars => Opened'
<1> SUFFICES ASSUME Inv, [Next]_vars PROVE Opened'
  OBVIOUS
<1> USE DistinctAssumption, FreeIs
<1>0. TypeOK /\ Shape /\ Opened /\ opens \in Nat /\ frees[Repo] \in Nat
  BY BoundAssumption DEF Inv, TypeOK
<1>1. CASE Open
  BY <1>0, <1>1 DEF Open, Opened
<1>2. CASE /\ UNCHANGED <<opens, open>> /\ frees'[Repo] = frees[Repo]
           /\ \A t \in Thread : job[t].repo = "null" => job'[t].repo = "null"
  BY <1>0, <1>2 DEF Opened
<1>3. ASSUME NEW x \in Wrapper \cup {Repo}, Dispose(x) \/ Finalize(x) PROVE Opened'
  <2>1. UNCHANGED <<opens, open, frees>>
    BY <1>3 DEF Dispose, Finalize
  <2>2. \E t \in Thread, j \in {Free, Release(x)} : job[t] = Free /\ job' = [job EXCEPT ![t] = j]
    BY <1>3 DEF Dispose, Finalize, Thread, Idle
  <2>3. QED BY <2>1, <2>2, <1>0, <1>2 DEF TypeOK
<1>4. ASSUME NEW t \in Thread, NEW field \in {"config", "index"}, NEW next \in {"index", "free"},
             Clear(t, field, next)
      PROVE  Opened'
  BY <1>4, <1>2, <1>0 DEF Clear, Inside, TypeOK
<1>5. ASSUME NEW t \in Thread, FreeRepository(t) PROVE Opened'
  <2>1. /\ job[t].repo = "free" /\ job'[t].repo = "null" /\ UNCHANGED <<opens, open>>
        /\ frees'[Repo] = IF open THEN frees[Repo] + 1 ELSE frees[Repo]
    BY <1>5, <1>0 DEF FreeRepository, Inside, TypeOK, Jobs
  <2>2. ~\E u \in Thread : job[u].repo = "null"
    BY <2>1, Exclusive
  <2>3. QED BY <2>1, <2>2, <1>0 DEF Opened
<1>6. ASSUME NEW t \in Thread, Close(t) PROVE Opened'
  BY <1>6, <1>0 DEF Close, Opened
<1>7. ASSUME NEW t \in Thread, FreeNative(t) \/ Null(t) PROVE Opened'
  <2>1. job[t].wrapper \in Wrapper
    BY <1>7, <1>0 DEF FreeNative, Null, TypeOK, Jobs
  <2>2. UNCHANGED <<opens, open>> /\ frees'[Repo] = frees[Repo]
    BY <2>1, <1>7, <1>0 DEF FreeNative, Null, TypeOK
  <2>3. \A u \in Thread : job'[u].repo = job[u].repo
    BY <1>7, <1>0 DEF FreeNative, Null, TypeOK, Jobs
  <2>4. QED BY <2>2, <2>3, <1>2
<1>8. CASE UNCHANGED <<opens, open, frees, job>>
  BY <1>8, <1>2
<1>9. QED
  BY <1>1, <1>3, <1>4, <1>5, <1>6, <1>7, <1>8
     DEF Next, User, Collect, Step, IndexAgain, TakeRepository, Lookup, ByName, Configuration,
         Index, Make, Call, Drop, Return, vars

LEMMA NativeStep == Inv /\ [Next]_vars => Native'
<1> SUFFICES ASSUME Inv, [Next]_vars PROVE Native'
  OBVIOUS
<1> USE DistinctAssumption, FreeIs
<1>0. TypeOK /\ Fresh /\ Native
  BY DEF Inv
<1>1. \A w \in Wrapper : Kept(w)' => Kept(w)
  BY ReachShrinks DEF Kept
<1>2. CASE /\ UNCHANGED <<handle, named, frees>>
           /\ \A t \in Thread : job[t].at = "null" =>
                job'[t].at = "null" /\ job'[t].wrapper = job[t].wrapper
  BY <1>0, <1>1, <1>2 DEF Native
<1>3. ASSUME NEW w \in Wrapper, Make(w),
             \/ handle' = handle \cup {w} /\ named' = named
             \/ named' = named \cup {w} /\ handle' = handle
      PROVE  Native'
  <2>1. /\ frees[w] = 0 /\ w \notin handle \cup named
        /\ UNCHANGED <<frees, job>>
    BY <1>0, <1>3 DEF Make, Fresh
  <2>2. QED BY <2>1, <1>0, <1>1, <1>3 DEF Native
<1>4. ASSUME NEW w \in Wrapper, Lookup(w) \/ ByName(w) \/ Configuration(w) \/ Index(w)
      PROVE  Native'
  BY <1>3, <1>4 DEF Lookup, ByName, Configuration, Index
<1>5. ASSUME NEW w \in Wrapper, Call(w) PROVE Native'
  <2>1. UNCHANGED <<frees, job>>
    BY <1>5 DEF Call
  <2>2. CASE UNCHANGED <<handle, named>>
    BY <2>1, <2>2, <1>2
  <2>3. CASE w \in named /\ handle' = handle \cup {w} /\ named' = named \ {w}
    BY <2>1, <2>3, <1>0, <1>1 DEF Native
  <2>4. QED BY <2>2, <2>3, <1>5 DEF Call
<1>6. ASSUME NEW x \in Wrapper \cup {Repo}, Dispose(x) \/ Finalize(x) PROVE Native'
  <2>1. UNCHANGED <<handle, named, frees>>
    BY <1>6 DEF Dispose, Finalize
  <2>2. \E t \in Thread, j \in {Free, Release(x)} : job[t] = Free /\ job' = [job EXCEPT ![t] = j]
    BY <1>6 DEF Dispose, Finalize, Thread, Idle
  <2>3. QED BY <2>1, <2>2, <1>0, <1>2 DEF TypeOK
<1>7. ASSUME NEW t \in Thread, NEW field \in {"config", "index"}, NEW next \in {"index", "free"},
             Clear(t, field, next)
      PROVE  Native'
  BY <1>7, <1>2, <1>0 DEF Clear, Inside, TypeOK
<1>8. ASSUME NEW t \in Thread, Close(t) PROVE Native'
  <2>1. job[t].at # "null" /\ job' = [job EXCEPT ![t] = Free] /\ UNCHANGED <<handle, named, frees>>
    BY <1>8, <1>0 DEF Close, Inside, TypeOK
  <2>2. QED BY <2>1, <1>2, <1>0 DEF TypeOK
<1>9. ASSUME NEW t \in Thread, FreeRepository(t) PROVE Native'
  <2>1. /\ UNCHANGED <<handle, named>>
        /\ \A w \in Wrapper : frees'[w] = frees[w]
    BY <1>9, <1>0 DEF FreeRepository, TypeOK
  <2>2. \A u \in Thread : job'[u].at = job[u].at /\ job'[u].wrapper = job[u].wrapper
    BY <1>9, <1>0 DEF FreeRepository, TypeOK, Jobs
  <2>3. QED BY <2>1, <2>2, <1>0, <1>1 DEF Native
<1>10. ASSUME NEW t \in Thread, FreeNative(t) PROVE Native'
  <2> DEFINE x == job[t].wrapper
  <2>1. x \in Wrapper /\ job[t].at = "free" /\ UNCHANGED <<handle, named>>
    BY <1>10, <1>0 DEF FreeNative, TypeOK, Jobs
  <2>2. /\ job'[t].at = "null" /\ job'[t].wrapper = x
        /\ \A u \in Thread : u # t => job'[u] = job[u]
    BY <1>10, <1>0 DEF FreeNative, TypeOK, Jobs
  <2>3. frees' = IF x \in handle THEN [frees EXCEPT ![x] = @ + 1] ELSE frees
    BY <1>10 DEF FreeNative
  <2>4. x \in handle /\ Kept(x) => frees[x] = 0
    BY <2>1, <1>0, Exclusive DEF Native
  <2>5. ASSUME NEW w \in Wrapper
        PROVE  /\ Kept(w)' => /\ frees'[w] <= 1
                              /\ w \in handle' =>
                                   \/ frees'[w] = 0
                                   \/ \E u \in Thread : job'[u].wrapper = w /\ job'[u].at = "null"
               /\ w \in named' => w \notin handle' /\ frees'[w] = 0
    <3>1. CASE w = x /\ x \in handle
      <4>1. frees'[w] = frees[w] + 1 /\ frees[w] \in Nat /\ w \notin named
        BY <3>1, <2>1, <2>3, <1>0 DEF TypeOK, Native
      <4>2. QED BY <4>1, <3>1, <2>1, <2>2, <2>4, <1>1
    <3>2. CASE ~(w = x /\ x \in handle)
      <4>1. frees'[w] = frees[w]
        BY <3>2, <2>3, <1>0 DEF TypeOK
      <4>2. \A u \in Thread : job[u].wrapper = w /\ job[u].at = "null" =>
              job'[u].wrapper = w /\ job'[u].at = "null"
        BY <2>1, <2>2
      <4>3. QED BY <4>1, <4>2, <2>1, <1>0, <1>1 DEF Native
    <3>3. QED BY <3>1, <3>2
  <2>6. QED BY <2>5 DEF Native
<1>11. ASSUME NEW t \in Thread, Null(t) PROVE Native'
  <2>1. /\ handle' = handle \ {job[t].wrapper} /\ named' = named \ {job[t].wrapper}
        /\ UNCHANGED frees
    BY <1>11 DEF Null
  <2>2. \A u \in Thread : u # t => job'[u] = job[u]
    BY <1>11, <1>0 DEF Null, TypeOK
  <2>3. QED BY <2>1, <2>2, <1>0, <1>1 DEF Native
<1>12. CASE UNCHANGED <<handle, named, frees, job>>
  BY <1>12, <1>2
<1>13. QED
  BY <1>4, <1>5, <1>6, <1>7, <1>8, <1>9, <1>10, <1>11, <1>12
     DEF Next, User, Collect, Step, Open, IndexAgain, TakeRepository, Drop, Return, vars

LEMMA InvInit == Init => Inv
<1> SUFFICES ASSUME Init PROVE Inv
  OBVIOUS
<1> USE DistinctAssumption, FreeIs
<1>1. TypeOK
  BY TypeInit
<1>2. Shape
  BY DEF Init, Shape
<1>3. Fresh
  BY DEF Init, Fresh
<1>4. Apart
  BY DEF Init, Apart, Thread
<1>5. Native
  BY DEF Init, Native
<1>6. Opened
  BY DEF Init, Opened
<1>7. QED BY <1>1, <1>2, <1>3, <1>4, <1>5, <1>6 DEF Inv

LEMMA InvStep == Inv /\ [Next]_vars => Inv'
BY TypeStep, ShapeStep, FreshStep, ApartStep, NativeStep, OpenedStep DEF Inv

\* Nothing native is released twice, for any wrappers and however often the repository
\* is opened, except for an index whose repository the user has let go of.
THEOREM ReleasedOnce == Spec => []FreedOnce
<1>1. Inv => FreedOnce
  BY DEF Inv, Native, Opened, Kept, FreedOnce, Abandoned, Wrapper, Linked
<1>2. QED BY InvInit, InvStep, <1>1, PTL DEF Spec

-----------------------------------------------------------------------------
(***************************************************************************)
(* Native calls.                                                           *)
(***************************************************************************)

\* A call begins on what IsDisposed lets pass.
LEMMA CallBegins ==
  ASSUME Inv, NEW w \in Wrapper, Call(w)
  PROVE  CallsSafe'
<1> USE DistinctAssumption, FreeIs
<1>0. TypeOK /\ Shape /\ Fresh /\ Native /\ opens \in Nat /\ made \in [Wrapper -> Nat]
  BY BoundAssumption DEF Inv, TypeOK
<1>1. /\ calling' = w /\ w \in held /\ job["user"] = Free /\ ~IsDisposed(w)
      /\ UNCHANGED <<opens, open, cached, frees, held, job>>
  BY DEF Call, Idle
<1>2. CASE ~Kept(w)
  <2>1. Abandoned(w) /\ (Abandoned(w) <=> Abandoned(w)')
    BY <1>1, <1>2 DEF Kept, Abandoned, RepoReached, Roots, Wrapper, Linked
  <2>2. QED BY <2>1, <1>1 DEF CallsSafe, Excused
<1>3. CASE Kept(w)
  <2>1. w \in handle => frees[w] = 0
    <3>1. \A t \in Thread : ~(job[t].wrapper = w /\ job[t].at = "null")
      BY <1>1, <1>3, Exclusive DEF Thread
    <3>2. QED BY <3>1, <1>0, <1>3 DEF Native
  <2>2. w \in named => w \in Ref /\ w \notin handle /\ frees[w] = 0
    BY <1>0 DEF Native, TypeOK
  <2>3. made[w] <= opens
    BY <1>0 DEF Shape
  <2>4. /\ w \in Obj => w \in handle \/ ~open
        /\ w \in Ref => open /\ w \in handle \cup named
        /\ w \in Conf => open /\ w \in handle
        /\ w \in Ind => w \in handle
    BY <1>1 DEF IsDisposed, Linked
  <2>5. CASE w \in handle /\ UNCHANGED <<made, handle, named>>
    <3>1. open \/ w \in Obj \/ w \in Ind
      BY <2>4 DEF Wrapper
    <3>2. QED BY <2>1, <2>3, <2>5, <3>1, <1>0, <1>1 DEF CallsSafe, Excused, Linked
  <2>6. CASE /\ w \in named /\ made' = [made EXCEPT ![w] = opens]
             /\ handle' = handle \cup {w}
    BY <2>2, <2>4, <2>6, <1>0, <1>1 DEF CallsSafe, Excused
  <2>7. CASE w \notin handle /\ UNCHANGED <<made, handle, named>>
    BY <2>4, <2>7, <1>1 DEF CallsSafe, Excused, Wrapper
  <2>8. QED BY <2>5, <2>6, <2>7 DEF Call
<1>4. QED BY <1>2, <1>3

LEMMA CallsStep == Inv /\ CallsSafe /\ [Next]_vars => CallsSafe'
<1> SUFFICES ASSUME Inv, CallsSafe, [Next]_vars PROVE CallsSafe'
  OBVIOUS
<1> USE DistinctAssumption, FreeIs
<1>0. TypeOK /\ TypeOK' /\ Shape /\ Reaching /\ Apart
  BY TypeStep, ReachingHolds DEF Inv
<1>1. RepoReached' => RepoReached
  BY ReachShrinks
<1>2. CASE calling = None
  <2>1. calling' = None \/ \E w \in Wrapper : Call(w)
    BY <1>2 DEF Next, User, Collect, Step, Open, IndexAgain, TakeRepository, Lookup, ByName,
                Configuration, Index, Make, Drop, Dispose, Return, Finalize, Clear,
                FreeRepository, Close, FreeNative, Null, vars
  <2>2. QED BY <2>1, CallBegins DEF CallsSafe
<1>3. CASE calling # None
  <2>1. calling \in Wrapper /\ job["user"] = Free
    BY <1>3, <1>0 DEF TypeOK, Shape
  <2>2. CASE \/ UNCHANGED vars
             \/ \E x \in Wrapper \cup {Repo} : Drop(x) \/ Finalize(x)
    <3>1. /\ UNCHANGED <<opens, open, made, handle, named, frees, calling>>
          /\ held' \subseteq held
      BY <2>2 DEF vars, Drop, Finalize
    <3>2. QED BY <3>1, <1>1, <1>3 DEF CallsSafe, Excused, Abandoned
  <2>3. CASE Return
    BY <2>3 DEF Return, CallsSafe
  <2>4. ASSUME \/ \E field \in {"config", "index"}, next \in {"index", "free"} :
                    Clear("finalizer", field, next)
               \/ FreeRepository("finalizer")
        PROVE  CallsSafe'
    <3>1. /\ UNCHANGED <<opens, open, made, handle, named, held, calling>>
          /\ frees'[calling] = frees[calling]
      BY <2>1, <2>4, <1>0 DEF Clear, FreeRepository, TypeOK
    <3>2. QED BY <3>1, <1>1, <1>3 DEF CallsSafe, Excused, Abandoned
  <2>5. CASE Close("finalizer")
    <3>1. /\ UNCHANGED <<opens, made, handle, named, frees, held, calling>>
          /\ open' = FALSE /\ ~RepoReached
      BY <2>5, <1>0 DEF Close, Inside, Apart
    <3>2. calling \in held => calling \in Ind
      BY <3>1, <2>1, <1>0 DEF Reaching, Wrapper, Linked
    <3>3. QED BY <3>1, <3>2, <1>1 DEF CallsSafe, Excused, Abandoned
  <2>6. CASE FreeNative("finalizer") \/ Null("finalizer")
    <3> DEFINE x == job["finalizer"].wrapper
    <3>1. x \in Wrapper
      BY <2>6, <1>0 DEF FreeNative, Null, TypeOK, Thread, Jobs
    <3>2. /\ UNCHANGED <<opens, open, made, held, calling>>
          /\ handle \subseteq handle' \cup {x} /\ named \subseteq named' \cup {x}
          /\ \A w \in Wrapper : w # x => frees'[w] = frees[w]
      BY <2>6, <1>0 DEF FreeNative, Null, TypeOK
    <3>3. CASE calling = x
      <4>1. calling \notin held \/ ~Kept(x)
        BY <3>1, <3>3, Exclusive
      <4>2. calling' \notin held' \/ (calling' \in Ind /\ ~RepoReached')
        BY <4>1, <3>1, <3>2, <3>3, <1>1 DEF Kept, Wrapper, Linked
      <4>3. QED BY <4>2 DEF CallsSafe, Excused, Abandoned
    <3>4. CASE calling # x
      BY <3>2, <3>4, <2>1, <1>1, <1>3 DEF CallsSafe, Excused, Abandoned
    <3>5. QED BY <3>3, <3>4
  <2>7. ~Step("user")
    BY <2>1 DEF Step, Inside, Clear, FreeRepository, Close, FreeNative, Null
  <2>8. \/ UNCHANGED vars
        \/ \E x \in Wrapper \cup {Repo} : Drop(x) \/ Finalize(x)
        \/ Return
        \/ Step("finalizer")
    BY <2>7, <1>3 DEF Next, User, Collect, Thread, Idle, Open, IndexAgain, TakeRepository,
                      Lookup, ByName, Configuration, Index, Make, Call, Dispose
  <2>9. QED BY <2>2, <2>3, <2>4, <2>5, <2>6, <2>8 DEF Step
<1>4. QED BY <1>2, <1>3

\* No native call is at work on what has been released, for any wrappers and any number
\* of openings, but for the cases Excused names.
THEOREM NothingReleasedInUse == Spec => []CallsSafe
<1>1. Init => CallsSafe
  BY DEF Init, CallsSafe
<1>2. QED BY InvInit, InvStep, CallsStep, <1>1, PTL DEF Spec

-----------------------------------------------------------------------------
(***************************************************************************)
(* What NothingLeaks rests on.                                             *)
(***************************************************************************)

\* Whoever may still have a native object to release will be finalized, or some thread
\* is releasing it.
Releasing == {job[t].wrapper : t \in Thread}
Secured == handle \cup named \subseteq armed \cup Releasing

\* What has leaked is the finalizer's to take, or some thread is releasing it.
LeakedIsTaken == \A x \in Leaked : x \in armed \ Reached \/ x \in Releasing

LEMMA SecuredStep == TypeOK /\ Secured /\ [Next]_vars => Secured'
<1> SUFFICES ASSUME TypeOK, Secured, [Next]_vars PROVE Secured'
  OBVIOUS
<1> USE DistinctAssumption, FreeIs
<1>1. Releasing = {job["user"].wrapper, job["finalizer"].wrapper}
      /\ Releasing' = {job["user"].wrapper, job["finalizer"].wrapper}'
  BY DEF Releasing, Thread
<1>2. job \in [Thread -> Jobs] /\ None \notin handle \cup named
  BY DEF TypeOK, Wrapper
<1>3. ASSUME NEW w \in Wrapper, Lookup(w) \/ ByName(w) \/ Configuration(w) \/ Index(w)
      PROVE  Secured'
  <2>1. armed' = armed \cup {w} /\ job' = job /\ handle' \cup named' \subseteq handle \cup named \cup {w}
    BY <1>3 DEF Lookup, ByName, Configuration, Index, Make
  <2>2. QED BY <1>1, <2>1 DEF Secured
<1>4. ASSUME NEW w \in Wrapper, Call(w) PROVE Secured'
  <2>1. armed' = armed /\ job' = job /\ handle' \cup named' = handle \cup named
    BY <1>4 DEF Call
  <2>2. QED BY <1>1, <2>1 DEF Secured
<1>5. ASSUME NEW x \in Wrapper \cup {Repo}, Dispose(x) PROVE Secured'
  <2>1. /\ UNCHANGED <<armed, handle, named>>
        /\ job["user"].wrapper = None /\ job'["finalizer"] = job["finalizer"]
    BY <1>2, <1>5 DEF Dispose, Idle, Thread
  <2>2. QED BY <1>1, <1>2, <2>1 DEF Secured
<1>6. ASSUME NEW x \in Wrapper \cup {Repo}, Finalize(x) PROVE Secured'
  <2>1. /\ UNCHANGED <<handle, named>> /\ armed' = armed \ {x}
        /\ job["finalizer"].wrapper = None /\ job'["user"] = job["user"]
    BY <1>2, <1>6 DEF Finalize, Thread
  <2>2. CASE x = Repo
    <3>1. Repo \notin handle \cup named
      BY DEF TypeOK, Wrapper
    <3>2. QED BY <1>1, <1>2, <2>1, <2>2, <3>1 DEF Secured
  <2>3. CASE x # Repo
    <3>1. job'["finalizer"].wrapper = x
      BY <1>2, <1>6, <2>3 DEF Finalize, Release, Job, Thread
    <3>2. QED BY <1>1, <1>2, <2>1, <3>1 DEF Secured
  <2>4. QED BY <2>2, <2>3
<1>7. ASSUME NEW t \in Thread, NEW field \in {"config", "index"},
             NEW next \in {"index", "free"}, Clear(t, field, next)
      PROVE  Secured'
  <2>1. /\ UNCHANGED <<armed, handle, named>> /\ job[t].wrapper = None
        /\ \A u \in Thread : u # t => job'[u] = job[u]
    BY <1>2, <1>7 DEF Clear, Inside
  <2>2. QED BY <1>1, <1>2, <2>1 DEF Secured, Thread
<1>8. ASSUME NEW t \in Thread, FreeRepository(t) \/ Close(t) \/ FreeNative(t) PROVE Secured'
  <2>1. UNCHANGED <<handle, named>> /\ armed \subseteq armed' \cup {Repo}
    BY <1>8 DEF FreeRepository, Close, FreeNative
  <2>2. \A u \in Thread : job[u].wrapper = None \/ job'[u].wrapper = job[u].wrapper
    BY <1>2, <1>8 DEF FreeRepository, Close, FreeNative, Inside, Jobs
  <2>3. Repo \notin handle \cup named
    BY DEF TypeOK, Wrapper
  <2>4. QED BY <1>1, <1>2, <2>1, <2>2, <2>3 DEF Secured, Thread
<1>9. ASSUME NEW t \in Thread, Null(t) PROVE Secured'
  <2>1. /\ handle' = handle \ {job[t].wrapper} /\ named' = named \ {job[t].wrapper}
        /\ armed' = armed \ {job[t].wrapper}
        /\ \A u \in Thread : u # t => job'[u] = job[u]
    BY <1>2, <1>9 DEF Null
  <2>2. QED BY <1>1, <2>1 DEF Secured, Thread
<1>10. CASE \/ UNCHANGED vars \/ Open \/ IndexAgain \/ TakeRepository \/ Return
            \/ \E x \in Wrapper \cup {Repo} : Drop(x)
  <2>1. UNCHANGED <<armed, job, handle, named>>
    BY <1>10 DEF vars, Open, IndexAgain, TakeRepository, Return, Drop
  <2>2. QED BY <1>1, <2>1 DEF Secured
<1>11. QED
  BY <1>3, <1>4, <1>5, <1>6, <1>7, <1>8, <1>9, <1>10 DEF Next, User, Collect, Step

\* Nothing that has leaked is forgotten, whoever has disposed of what before: its
\* finalizer is still to run and may run, or its release is under way.
THEOREM LeakedCanBeTaken == Spec => []LeakedIsTaken
<1>1. Init => Secured
  BY DEF Init, Secured
<1>2. TypeOK /\ Secured => LeakedIsTaken
  <2> SUFFICES ASSUME TypeOK, Secured, NEW x \in Leaked
               PROVE  x \in armed \ Reached \/ x \in Releasing
    BY DEF LeakedIsTaken
  <2>1. CASE x \in handle /\ x \notin Reached
    BY <2>1 DEF Secured
  <2>2. CASE x = Repo /\ ~RepoReached /\ x \in armed
    BY <2>2, ReachingHolds DEF Reaching
  <2>3. QED BY <2>1, <2>2 DEF Leaked
<1>3. QED BY TypeInit, TypeStep, SecuredStep, <1>1, <1>2, PTL DEF Spec

\* A wrapper that was made, or the repository, is not armed a second time.
ArmedOnce == /\ Repo \in armed' => Repo \in armed
             /\ \A w \in Wrapper : made[w] # 0 => /\ made'[w] # 0
                                                  /\ w \in armed' => w \in armed

\* Every finalizer runs once at most, so that there is an end to what the collector
\* has to do for any finite set of wrappers.
THEOREM FinalizersRunOnce == Spec => [][ArmedOnce]_vars
<1>1. Inv /\ [Next]_vars => [ArmedOnce]_vars
  <2> SUFFICES ASSUME Inv, Next PROVE ArmedOnce
    OBVIOUS
  <2> USE DistinctAssumption
  <2>1. made \in [Wrapper -> 0..MaxOpens] /\ opens \in Nat /\ MaxOpens \in Nat
    BY BoundAssumption DEF Inv, TypeOK
  <2>2. ASSUME NEW w \in Wrapper, Lookup(w) \/ ByName(w) \/ Configuration(w) \/ Index(w)
        PROVE  ArmedOnce
    <3>1. /\ armed' = armed \cup {w} /\ made[w] = 0 /\ made' = [made EXCEPT ![w] = opens]
      BY <2>2 DEF Lookup, ByName, Configuration, Index, Make
    <3>2. QED BY <2>1, <3>1 DEF ArmedOnce, Wrapper
  <2>3. ASSUME NEW w \in Wrapper, Call(w) PROVE ArmedOnce
    <3>1. /\ armed' = armed /\ ~IsDisposed(w)
          /\ made' = made \/ (w \in named /\ made' = [made EXCEPT ![w] = opens])
      BY <2>3 DEF Call
    <3>2. ASSUME w \in named PROVE opens # 0
      <4>1. w \in Ref /\ w \notin Obj
        BY <3>2 DEF Inv, TypeOK
      <4>2. open
        BY <3>1, <4>1 DEF IsDisposed, Linked
      <4>3. QED BY <4>2 DEF Inv, Shape
    <3>3. QED BY <2>1, <3>1, <3>2 DEF ArmedOnce
  <2>4. CASE ~\E w \in Wrapper : Lookup(w) \/ ByName(w) \/ Configuration(w) \/ Index(w) \/ Call(w)
    <3>1. armed' \subseteq armed /\ made' = made
      BY <2>4 DEF Next, User, Collect, Step, Open, IndexAgain, TakeRepository, Drop, Dispose,
                  Return, Finalize, Clear, FreeRepository, Close, FreeNative, Null
    <3>2. QED BY <3>1 DEF ArmedOnce
  <2>5. QED BY <2>2, <2>3, <2>4
<1>2. QED BY InvInit, InvStep, <1>1, PTL DEF Spec
=============================================================================
