----------------------------- MODULE Credentials -----------------------------
(***************************************************************************)
(* The operations of one GitClient that talk to libgit2 with callbacks of  *)
(* the user, one after the other on one thread: the credential handlers a  *)
(* Push asks, the attempts of GitRemote::Push and ::Fetch, and the way an  *)
(* exception of a callback takes through libgit2 back to the caller.       *)
(*                                                                         *)
(* What libgit2 does between two callbacks is left open: it may ask for    *)
(* credentials, call other callbacks, succeed or fail, whatever the last   *)
(* callback answered.  It asks at most MaxCalls times in one attempt.      *)
(***************************************************************************)
EXTENDS SequencesExt

CONSTANTS Handler,      \* the handlers that can be hooked
          MaxAttempts,  \* maxAttempts: how often a Push or a Fetch is tried
          MaxCalls      \* how often libgit2 asks for credentials in one attempt

ASSUME HandlerAssumption == IsFiniteSet(Handler)
ASSUME MaxAttemptsAssumption == MaxAttempts \in Nat \ {0}
ASSUME MaxCallsAssumption == MaxCalls \in Nat

VARIABLES
  hooked,    \* _credentialHandlers
  next,      \* _nextCredentialHandler
  kind,      \* the operation: push, fetch, checkout (CheckOut, Clone, Reset), or merge
             \* (the merge and the checkout of Pull), which ends in GIT_THROW
  pc,
  authNr,    \* _authNr of the operation's callbacks: how often they have asked
  attempts,  \* maxAttempts, as counted down
  continue,  \* GitAuthContext::_continue
  calls,     \* how often libgit2 has asked in this attempt
  failed,    \* the class of the error the attempt ended with
  thrown,    \* _threadException, and whether it is of the operation under way
  inner,     \* what the last operation reported as the cause of its error
  asked,     \* the handler that is being called
  \* history variables, read by the properties only
  declined,  \* the handlers that had nothing to offer to this operation
  supplied,  \* a handler has supplied a credential in this attempt
  unhooked   \* a handler was removed while this operation was under way

list == <<hooked, next>>
context == <<authNr, attempts, continue, calls>>
outcome == <<failed, thrown, inner>>
ghosts == <<declined, supplied, unhooked>>
vars == <<list, kind, pc, context, outcome, asked, ghosts>>

PC == {"idle", "attempt", "talk", "ask", "called", "failed", "ended"}
Kind == {"push", "fetch", "checkout", "merge"}
Remote == {"push", "fetch"}

\* GitError::Network, ::Ssh and ::SecureSockets, or any other class of error.
Class == {"none", "network", "other"}
Exception == {"none", "own", "earlier"}

Init ==
  /\ hooked = <<>> /\ next = 0
  /\ kind = "push" /\ pc = "idle"
  /\ authNr = 0 /\ attempts = 0 /\ calls = 0 /\ continue = FALSE
  /\ failed = "none" /\ thrown = "none" /\ inner = "none"
  /\ asked = {} /\ declined = {} /\ supplied = FALSE /\ unhooked = FALSE

-----------------------------------------------------------------------------
\* HookCredentials, whenever the user's code runs on the thread: between two
\* operations, in a handler that is being asked and in any other callback.
UserCode == pc \in {"idle", "called"} \/ (pc = "talk" /\ kind # "fetch")

Hook(h) ==
  /\ UserCode /\ ~Contains(hooked, h)
  /\ hooked' = Append(hooked, h)
  /\ UNCHANGED <<next, kind, pc, context, outcome, asked, ghosts>>

Unhook(h) ==
  /\ UserCode
  /\ \E k \in DOMAIN hooked : hooked[k] = h /\ hooked' = RemoveAt(hooked, k)
  /\ unhooked' = (pc # "idle")
  /\ UNCHANGED <<next, kind, pc, context, outcome, asked, declined, supplied>>

-----------------------------------------------------------------------------
\* An operation begins: a GitAuthContext, and callbacks with an _authNr of their
\* own.  Only Push and Fetch try again.
Begin(k) ==
  /\ pc = "idle"
  /\ pc' = "attempt" /\ kind' = k
  /\ attempts' = IF k \in Remote THEN MaxAttempts ELSE 1
  /\ authNr' = 0 /\ continue' = FALSE /\ calls' = 0
  /\ failed' = "none" /\ inner' = "none"
  /\ thrown' = IF thrown = "own" THEN "earlier" ELSE thrown
  /\ declined' = {} /\ supplied' = FALSE /\ unhooked' = FALSE
  /\ UNCHANGED <<list, asked>>

\* giterr_clear, authContext.Clear, and libgit2 is called.
\* Mutants: the context is not cleared; the callbacks are made anew.
AttemptUncleared ==
  /\ pc = "attempt"
  /\ pc' = "talk"
  /\ calls' = 0 /\ supplied' = FALSE /\ failed' = "none"
  /\ UNCHANGED <<list, kind, authNr, attempts, continue, thrown, inner, asked, declined, unhooked>>

AttemptAnew ==
  /\ pc = "attempt"
  /\ pc' = "talk"
  /\ authNr' = 0 /\ continue' = FALSE
  /\ calls' = 0 /\ supplied' = FALSE /\ failed' = "none"
  /\ UNCHANGED <<list, kind, attempts, thrown, inner, asked, declined, unhooked>>

Attempt ==
  /\ pc = "attempt"
  /\ pc' = "talk"
  /\ continue' = FALSE
  /\ calls' = 0 /\ supplied' = FALSE /\ failed' = "none"
  /\ UNCHANGED <<list, kind, authNr, attempts, thrown, inner, asked, declined, unhooked>>

\* The credentials callback, which only Push passes on: the first invocation of
\* an operation starts with the first handler.  Mutant: it goes on where it was.
AskOn ==
  /\ pc = "talk" /\ kind = "push" /\ calls < MaxCalls
  /\ pc' = "ask"
  /\ calls' = calls + 1 /\ authNr' = authNr + 1
  /\ UNCHANGED <<list, kind, attempts, continue, outcome, asked, ghosts>>

Ask ==
  /\ pc = "talk" /\ kind = "push" /\ calls < MaxCalls
  /\ pc' = "ask"
  /\ calls' = calls + 1 /\ authNr' = authNr + 1
  /\ next' = IF authNr = 0 THEN 0 ELSE next
  /\ UNCHANGED <<hooked, kind, attempts, continue, outcome, asked, ghosts>>

\* OnCredential: the next handler is asked...
CallHandler ==
  /\ pc = "ask" /\ next < Len(hooked)
  /\ pc' = "called" /\ asked' = {hooked[next + 1]}
  /\ UNCHANGED <<list, kind, context, outcome, ghosts>>

\* ... and sets a credential, which libgit2 is given,
Supply ==
  /\ pc = "called"
  /\ pc' = "talk" /\ asked' = {}
  /\ continue' = TRUE /\ supplied' = TRUE
  /\ UNCHANGED <<list, kind, authNr, attempts, calls, outcome, declined, unhooked>>

\* ... or has none, and it is the next one's turn,
\* (mutant: the cursor stays)
DeclineStays ==
  /\ pc = "called"
  /\ pc' = "ask" /\ asked' = {}
  /\ declined' = declined \cup asked
  /\ UNCHANGED <<list, kind, context, outcome, supplied, unhooked>>

Decline ==
  /\ pc = "called"
  /\ pc' = "ask" /\ asked' = {}
  /\ next' = next + 1
  /\ declined' = declined \cup asked
  /\ UNCHANGED <<hooked, kind, context, outcome, supplied, unhooked>>

\* ... or throws: its credential is freed, and WrapError keeps the exception.
HandlerThrows ==
  /\ pc = "called"
  /\ pc' = "talk" /\ asked' = {}
  /\ thrown' = "own"
  /\ UNCHANGED <<list, kind, context, failed, inner, ghosts>>

\* No handler is left: libgit2 is told that there is no credential.
Exhausted == pc = "ask" /\ next >= Len(hooked)

NoCredential ==
  /\ Exhausted
  /\ pc' = "talk"
  /\ UNCHANGED <<list, kind, context, outcome, asked, ghosts>>

\* Any other callback throws; Fetch passes none on.
CallbackThrows ==
  /\ pc = "talk" /\ kind # "fetch"
  /\ thrown' = "own"
  /\ UNCHANGED <<list, kind, pc, context, failed, inner, asked, ghosts>>

-----------------------------------------------------------------------------
\* libgit2 returns.  A callback that fails cancels a checkout.
Succeed ==
  /\ pc = "talk"
  /\ thrown = "own" => kind \in Remote
  /\ pc' = "ended"
  /\ UNCHANGED <<list, kind, context, outcome, asked, ghosts>>

Fail ==
  /\ pc = "talk"
  /\ pc' = "failed" /\ failed' \in {"network", "other"}
  /\ UNCHANGED <<list, kind, context, thrown, inner, asked, ghosts>>

\* while (--maxAttempts && authContext.Continue()), for an error of the network.
\* Mutant: the attempts are not counted.
RetryUncounted ==
  /\ pc = "failed"
  /\ pc' = IF failed = "network" /\ continue THEN "attempt" ELSE "ended"
  /\ UNCHANGED <<list, kind, context, outcome, asked, ghosts>>

Retry ==
  /\ pc = "failed"
  /\ LET again == failed = "network" /\ kind \in Remote IN
     /\ attempts' = IF again THEN attempts - 1 ELSE attempts
     /\ pc' = IF again /\ attempts' > 0 /\ continue THEN "attempt" ELSE "ended"
  /\ UNCHANGED <<list, kind, authNr, continue, calls, outcome, asked, ghosts>>

\* GitException::Create takes the exception of the thread as its inner exception,
\* and forgets it.  GIT_THROW does no more than that.
Cause == IF failed = "none" THEN "none" ELSE thrown

GitThrow ==
  /\ pc = "ended" /\ kind = "merge"
  /\ pc' = "idle"
  /\ inner' = Cause
  /\ thrown' = IF failed = "none" THEN thrown ELSE "none"
  /\ UNCHANGED <<list, kind, context, failed, asked, ghosts>>

\* HandleGitError throws an exception of no cause when libgit2 has set no error,
\* and finally the exception of the thread is forgotten in any case.
\* Mutant: only Create forgets it.
HandleGitErrorOnly ==
  /\ pc = "ended" /\ kind # "merge"
  /\ pc' = "idle"
  /\ inner' \in {Cause, "none"}
  /\ thrown' = IF failed = "none" THEN thrown ELSE "none"
  /\ UNCHANGED <<list, kind, context, failed, asked, ghosts>>

HandleGitError ==
  /\ pc = "ended" /\ kind # "merge"
  /\ pc' = "idle"
  /\ inner' \in {Cause, "none"}
  /\ thrown' = "none"
  /\ UNCHANGED <<list, kind, context, failed, asked, ghosts>>

-----------------------------------------------------------------------------
\* What the thread does once an operation has begun.
Step ==
  \/ Attempt \/ Ask \/ CallHandler \/ Supply \/ Decline \/ HandlerThrows \/ NoCredential
  \/ Succeed \/ Fail \/ Retry \/ GitThrow \/ HandleGitError

Next ==
  \/ \E h \in Handler : Hook(h) \/ Unhook(h)
  \/ \E k \in Kind : Begin(k)
  \/ CallbackThrows
  \/ Step

Spec == Init /\ [][Next]_vars

\* The thread runs, and libgit2 returns.
FairSpec == Spec /\ WF_vars(Step)

-----------------------------------------------------------------------------
\* The type invariant.  The handlers are all different, and the cursor never
\* points further than behind the longest list there was.
TypeOK ==
  /\ hooked \in Seq(Handler) /\ IsInjective(hooked)
  /\ next \in 0..Cardinality(Handler)
  /\ kind \in Kind /\ pc \in PC
  /\ authNr \in 0..(MaxAttempts * MaxCalls)
  /\ attempts \in 0..MaxAttempts
  /\ calls \in 0..MaxCalls
  /\ continue \in BOOLEAN /\ supplied \in BOOLEAN /\ unhooked \in BOOLEAN
  /\ failed \in Class /\ thrown \in Exception /\ inner \in Exception
  /\ asked \subseteq Handler /\ declined \subseteq Handler

\* OnCredential tells libgit2 that there is no credential only when each handler
\* has been asked by this operation and had none, whatever attempt that was in,
\* wherever the operation before had stopped, and also if it was hooked meanwhile.
\* (Not so when a handler is removed during the operation: the others move up
\* behind the cursor.)
EveryoneAsked ==
  Exhausted /\ ~unhooked => ToSet(hooked) \subseteq declined

\* A handler that had nothing to offer is not asked again by the same operation,
\* not even by the next attempt, whose callbacks are the same ones.
DeclinedOnce ==
  ~unhooked => asked \cap declined = {}

\* The exception an operation reports as the cause of its error is one that a
\* callback of this operation has thrown, never one left behind by an operation
\* before, not even if that one succeeded in spite of it.
OwnException ==
  inner # "earlier"

\* A Push is tried again only when a handler has supplied a credential in the
\* attempt that failed: what an earlier attempt was given does not count.
RetriedOnlyWithCredential ==
  [][pc = "failed" /\ pc' = "attempt" => supplied]_vars

\* Every operation ends, even if the remote refuses each credential and the
\* handlers always have another one.
Ends ==
  pc # "idle" ~> pc = "idle"
=============================================================================
