----------------------------- MODULE EnsureInit -----------------------------
(***************************************************************************)
(* GitBase::EnsureInitialized, which the constructors of GitBase and       *)
(* GitPool call: threads of one process, in one or several AppDomains,     *)
(* make sure that the native libraries are initialized before they use     *)
(* them.                                                                   *)
(*                                                                         *)
(* "ensurer" is a native static, of which the process has one; the lock    *)
(* and _aprInitialized are managed statics, of which each AppDomain has    *)
(* its own.  The libraries are per process, and two AppDomains may be      *)
(* inside the initializer of one of them at the same time.                 *)
(***************************************************************************)
EXTENDS Naturals

CONSTANTS Thread,   \* the threads of the process
          Domain,   \* its AppDomains
          Home,     \* Home[t] is the AppDomain thread t runs in
          Nobody    \* the holder of a free lock

ASSUME HomeAssumption == Home \in [Thread -> Domain]
ASSUME NobodyAssumption == Nobody \notin Thread

VARIABLES ensurer,         \* 0: nothing done, 1: somebody has come by, 2: initialized
          lock,            \* AppDomain -> the thread that holds _ensurerLock
          aprInitialized,  \* AppDomain -> _aprInitialized
          called,          \* AppDomain -> the libraries its threads have called on
                           \*   to initialize themselves
          native,          \* the threads inside such a call
          ready,           \* the libraries of the process that are initialized
          pc               \* thread -> where in EnsureInitialized it is

libs == <<called, native, ready>>
vars == <<ensurer, lock, aprInitialized, called, native, ready, pc>>

\* apr_initialize and its pool, svn_utf_initialize2, git_libgit2_init, and
\* git_openssl_set_locking, which needs libgit2.
Library == {"apr", "utf", "git", "ssl"}
Critical == Library \cup {"check", "mark", "publish", "exit"}
PC == Critical \cup {"out", "enter", "back"}

TypeOK == /\ ensurer \in 0..2
          /\ lock \in [Domain -> Thread \cup {Nobody}]
          /\ aprInitialized \in [Domain -> BOOLEAN]
          /\ called \in [Domain -> SUBSET Library]
          /\ native \subseteq Thread
          /\ ready \subseteq Library
          /\ pc \in [Thread -> PC]

Init == /\ ensurer = 0
        /\ lock = [d \in Domain |-> Nobody]
        /\ aprInitialized = [d \in Domain |-> FALSE]
        /\ called = [d \in Domain |-> {}]
        /\ native = {}
        /\ ready = {}
        /\ pc = [t \in Thread |-> "out"]

Goto(t, label) == pc' = [pc EXCEPT ![t] = label]

\* A GitBase or a GitPool is made: InterlockedCompareExchange(&ensurer, 1, 0) < 2
Call(t) ==
  /\ pc[t] = "out"
  /\ ensurer' = IF ensurer = 0 THEN 1 ELSE ensurer
  /\ Goto(t, IF ensurer < 2 THEN "enter" ELSE "back")
  /\ UNCHANGED <<lock, aprInitialized, libs>>

\* Monitor::Enter(_ensurerLock).  Mutant: the lock is not taken.
EnterUnlocked(t) ==
  /\ pc[t] = "enter"
  /\ Goto(t, "check")
  /\ UNCHANGED <<ensurer, lock, aprInitialized, libs>>

Enter(t) ==
  /\ pc[t] = "enter"
  /\ lock[Home[t]] = Nobody
  /\ lock' = [lock EXCEPT ![Home[t]] = t]
  /\ Goto(t, "check")
  /\ UNCHANGED <<ensurer, aprInitialized, libs>>

\* if (!_aprInitialized)
Check(t) ==
  /\ pc[t] = "check"
  /\ Goto(t, IF aprInitialized[Home[t]] THEN "exit" ELSE "mark")
  /\ UNCHANGED <<ensurer, lock, aprInitialized, libs>>

\* _aprInitialized = true.  Mutant: the fast path is opened as early as that.
MarkPublishes(t) ==
  /\ pc[t] = "mark"
  /\ aprInitialized' = [aprInitialized EXCEPT ![Home[t]] = TRUE]
  /\ ensurer' = 2
  /\ Goto(t, "apr")
  /\ UNCHANGED <<lock, libs>>

Mark(t) ==
  /\ pc[t] = "mark"
  /\ aprInitialized' = [aprInitialized EXCEPT ![Home[t]] = TRUE]
  /\ Goto(t, "apr")
  /\ UNCHANGED <<ensurer, lock, libs>>

\* The libraries in the order they are initialized in.  Mutant: it goes on past
\* the last one.
AfterLost(l) == CASE l = "apr" -> "utf"
                  [] l = "utf" -> "git"
                  [] l = "git" -> "ssl"
                  [] l = "ssl" -> "ready"

After(l) == CASE l = "apr" -> "utf"
              [] l = "utf" -> "git"
              [] l = "git" -> "ssl"
              [] l = "ssl" -> "publish"

\* Somebody in the process has called for library l to be initialized.
Begun(l) == \E d \in Domain : l \in called[d]

\* The thread calls the initializer of a library.  The first one to do so does the
\* work.  What a later one meets depends on the library: apr_initialize counts and
\* returns at once, whether or not the first call has finished;
\* svn_utf_initialize2 does the work again until it is done; libgit2 waits.
CallsNative(t) ==
  /\ pc[t] \in Library /\ t \notin native
  /\ called' = [called EXCEPT ![Home[t]] = @ \cup {pc[t]}]
  /\ \/ native' = native \cup {t} /\ UNCHANGED pc
     \/ Begun(pc[t]) /\ Goto(t, After(pc[t])) /\ UNCHANGED native
  /\ UNCHANGED <<ensurer, lock, aprInitialized, ready>>

\* The initializer has done its work and returns.
NativeReturns(t) ==
  /\ t \in native
  /\ native' = native \ {t}
  /\ ready' = ready \cup {pc[t]}
  /\ Goto(t, After(pc[t]))
  /\ UNCHANGED <<ensurer, lock, aprInitialized, called>>

\* InterlockedExchange(&ensurer, 2)
Publish(t) ==
  /\ pc[t] = "publish"
  /\ ensurer' = 2
  /\ Goto(t, "exit")
  /\ UNCHANGED <<lock, aprInitialized, libs>>

\* finally: Monitor::Exit(_ensurerLock).  Mutant: only who initialized leaves it.
ExitHeld(t) ==
  /\ pc[t] = "exit"
  /\ Goto(t, "back")
  /\ UNCHANGED <<ensurer, lock, aprInitialized, libs>>

Exit(t) ==
  /\ pc[t] = "exit"
  /\ lock' = [lock EXCEPT ![Home[t]] = Nobody]
  /\ Goto(t, "back")
  /\ UNCHANGED <<ensurer, aprInitialized, libs>>

\* EnsureInitialized returns, and the thread may make another object later.
Return(t) ==
  /\ pc[t] = "back"
  /\ Goto(t, "out")
  /\ UNCHANGED <<ensurer, lock, aprInitialized, libs>>

Inside(t) == \/ Enter(t) \/ Check(t) \/ Mark(t) \/ CallsNative(t)
             \/ NativeReturns(t) \/ Publish(t) \/ Exit(t) \/ Return(t)

Next == \E t \in Thread : Call(t) \/ Inside(t)

\* A thread inside EnsureInitialized keeps running; nobody has to call it.
Spec == Init /\ [][Next]_vars /\ \A t \in Thread : WF_vars(Inside(t))

-----------------------------------------------------------------------------
(***************************************************************************)
(* Properties                                                              *)
(***************************************************************************)

Ready == ready = Library

\* All threads run in one AppDomain.
OneDomain == \A t, u \in Thread : Home[t] = Home[u]

\* Two AppDomains have both come to initialize the libraries.
Raced == \E t, u \in Thread : /\ Home[t] # Home[u]
                              /\ called[Home[t]] # {} /\ called[Home[u]] # {}

\* Every library is initialized.  The exception is a race of two AppDomains, which
\* do not share the lock: there, what is not initialized yet is being so by a thread
\* inside its initializer.
ReadyOrRaced ==
  \/ Ready
  \/ Raced /\ \A l \in Library \ ready : \E u \in native : pc[u] = l

\* No call returns before that, whichever of its three ways it takes: past the fast
\* path, after waiting for the thread that does the work, or after doing it.
ReturnsReady == \A t \in Thread : pc[t] = "back" => ReadyOrRaced

\* The threads of one AppDomain never call on a library twice, whoever waits for
\* the lock, and whatever another AppDomain does meanwhile.
InitializesOnce ==
  \A t \in Thread : pc[t] \in Library /\ t \notin native => pc[t] \notin called[Home[t]]

\* "Debug::Assert(v == 1)": who publishes finds that nobody has done so before, but
\* for a race of two AppDomains, after which both publish.
PublishesFirst == ~Raced => \A t \in Thread : pc[t] = "publish" => ensurer = 1

\* EnsureInitialized keeps OnceInit's promises, but for the race: nobody returns early,
\* what is ready stays so, and every call returns.
Once == INSTANCE OnceInit WITH calling <- {t \in Thread : pc[t] # "out"},
                               ready <- ReadyOrRaced
ImplementsOnce == Once!OSpec
=============================================================================
