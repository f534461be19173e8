------------------------- MODULE Credentials_proofs --------------------------
(***************************************************************************)
(* Theorems about Credentials, for any handlers, any number of attempts    *)
(* and however often libgit2 asks.                                         *)
(***************************************************************************)
EXTENDS Credentials, FiniteSetTheorems, TLAPS

Typed ==
  /\ hooked \in Seq(Handler) /\ IsInjective(hooked)
  /\ next \in Nat /\ authNr \in Nat
  /\ pc \in PC /\ unhooked \in BOOLEAN

\* How far the operation has come with the handlers.  Before it asks for the first
\* time the cursor is where the operation before has left it; from then on the
\* handlers below the cursor are those that have declined.
Walked ==
  /\ authNr = 0 => declined = {}
  /\ authNr # 0 =>
       /\ next <= Len(hooked)
       /\ \A h \in Handler : h \in declined <=> \E k \in 1..next : hooked[k] = h
  /\ pc \in {"ask", "called"} => authNr # 0
  /\ pc = "called" => next < Len(hooked) /\ asked = {hooked[next + 1]}

Asking ==
  /\ asked \subseteq Handler /\ declined \subseteq Handler
  /\ pc # "called" => asked = {}
  /\ pc # "idle" /\ ~unhooked => Walked

Inv == Typed /\ Asking

LEMMA InvInit == Init => Inv
<1> SUFFICES ASSUME Init PROVE Inv
  OBVIOUS
<1>1. hooked \in Seq(Handler) /\ DOMAIN hooked = {}
  BY DEF Init
<1>2. IsInjective(hooked)
  BY <1>1, Zenon DEF IsInjective
<1>3. QED BY <1>1, <1>2 DEF Init, Inv, Typed, Asking, PC

\* Appending keeps what is there in its place.
LEMMA Appended ==
  ASSUME Typed, NEW h \in Handler, Hook(h)
  PROVE  /\ hooked' \in Seq(Handler) /\ IsInjective(hooked')
         /\ Len(hooked') = Len(hooked) + 1
         /\ \A k \in 1..Len(hooked) : hooked'[k] = hooked[k]
<1>1. /\ hooked' \in Seq(Handler) /\ Len(hooked') = Len(hooked) + 1
      /\ \A k \in 1..Len(hooked) : hooked'[k] = hooked[k]
      /\ hooked'[Len(hooked) + 1] = h
  BY DEF Hook, Typed
<1>2. \A k \in 1..Len(hooked) : hooked[k] # h
  BY DEF Hook, Contains
<1>3. IsInjective(hooked')
  BY <1>1, <1>2 DEF Typed, IsInjective
<1>4. QED BY <1>1, <1>3

\* The elements of two sequences, one behind the other.
LEMMA Concatenated ==
  ASSUME NEW S, NEW f \in Seq(S), NEW g \in Seq(S)
  PROVE  /\ f \o g \in Seq(S) /\ Len(f \o g) = Len(f) + Len(g)
         /\ \A j \in 1..Len(f) : (f \o g)[j] = f[j]
         /\ \A j \in (Len(f) + 1)..(Len(f) + Len(g)) : (f \o g)[j] = g[j - Len(f)]
OBVIOUS

\* What is behind the removed one moves up.
LEMMA Joined ==
  ASSUME NEW s \in Seq(Handler), NEW k \in 1..Len(s)
  PROVE  /\ RemoveAt(s, k) \in Seq(Handler) /\ Len(RemoveAt(s, k)) = Len(s) - 1
         /\ \A j \in 1..(Len(s) - 1) :
              RemoveAt(s, k)[j] = s[IF j < k THEN j ELSE j + 1]
<1> DEFINE front == SubSeq(s, 1, k - 1)
           back == SubSeq(s, k + 1, Len(s))
<1>1. /\ front \in Seq(Handler) /\ Len(front) = k - 1
      /\ \A j \in 1..(k - 1) : front[j] = s[j]
  OBVIOUS
<1>2. /\ back \in Seq(Handler) /\ Len(back) = Len(s) - k
      /\ \A j \in 1..(Len(s) - k) : back[j] = s[k + j]
  OBVIOUS
<1>3. RemoveAt(s, k) = front \o back
  BY DEF RemoveAt
<1> HIDE DEF front, back
<1>4. /\ front \o back \in Seq(Handler) /\ Len(front \o back) = Len(s) - 1
      /\ \A j \in 1..(k - 1) : (front \o back)[j] = front[j]
      /\ \A j \in k..(Len(s) - 1) : (front \o back)[j] = back[j - (k - 1)]
  <2>1. /\ front \o back \in Seq(Handler) /\ Len(front \o back) = Len(front) + Len(back)
        /\ \A j \in 1..Len(front) : (front \o back)[j] = front[j]
        /\ \A j \in (Len(front) + 1)..(Len(front) + Len(back)) :
             (front \o back)[j] = back[j - Len(front)]
    BY <1>1, <1>2, Concatenated
  <2>2. Len(s) \in Nat /\ Len(front) + 1 = k /\ Len(front) + Len(back) = Len(s) - 1
    BY <1>1, <1>2
  <2>3. QED BY <2>1, <2>2, <1>1
<1>5. \A j \in k..(Len(s) - 1) : back[j - (k - 1)] = s[j + 1]
  <2> TAKE j \in k..(Len(s) - 1)
  <2>1. j - (k - 1) \in 1..(Len(s) - k) /\ k + (j - (k - 1)) = j + 1
    OBVIOUS
  <2>2. QED BY <2>1, <1>2
<1>6. \A j \in 1..(Len(s) - 1) : RemoveAt(s, k)[j] = s[IF j < k THEN j ELSE j + 1]
  <2> TAKE j \in 1..(Len(s) - 1)
  <2>1. CASE j < k
    <3>1. j \in 1..(k - 1)
      BY <2>1
    <3>2. QED BY <2>1, <3>1, <1>1, <1>3, <1>4
  <2>2. CASE ~(j < k)
    <3>1. j \in k..(Len(s) - 1)
      BY <2>2
    <3>2. QED BY <2>2, <3>1, <1>3, <1>4, <1>5
  <2>3. QED BY <2>1, <2>2
<1>7. QED BY <1>3, <1>4, <1>6

\* Removing one keeps the others different.
LEMMA Removed ==
  ASSUME Typed, NEW h \in Handler, Unhook(h)
  PROVE  hooked' \in Seq(Handler) /\ IsInjective(hooked')
<1>1. PICK k \in 1..Len(hooked) : hooked' = RemoveAt(hooked, k)
  BY DEF Unhook, Typed
<1>2. /\ hooked' \in Seq(Handler) /\ Len(hooked') = Len(hooked) - 1
      /\ \A j \in 1..(Len(hooked) - 1) : hooked'[j] = hooked[IF j < k THEN j ELSE j + 1]
  BY <1>1, Joined DEF Typed
<1>3. \A i, j \in DOMAIN hooked : hooked[i] = hooked[j] => i = j
  BY DEF Typed, IsInjective
<1>4. \A i, j \in 1..(Len(hooked) - 1) : hooked'[i] = hooked'[j] => i = j
  <2> TAKE i, j \in 1..(Len(hooked) - 1)
  <2> DEFINE m == IF i < k THEN i ELSE i + 1
             n == IF j < k THEN j ELSE j + 1
  <2>1. m \in 1..Len(hooked) /\ n \in 1..Len(hooked) /\ (m = n => i = j)
    BY DEF Typed
  <2>2. hooked'[i] = hooked[m] /\ hooked'[j] = hooked[n]
    BY <1>2
  <2> HIDE DEF m, n
  <2>3. DOMAIN hooked = 1..Len(hooked)
    BY DEF Typed
  <2>4. QED BY <2>1, <2>2, <2>3, <1>3
<1>5. QED BY <1>2, <1>4 DEF IsInjective, Typed

LEMMA InvStep == Inv /\ [Next]_vars => Inv'
<1> SUFFICES ASSUME Inv, [Next]_vars PROVE Inv'
  OBVIOUS
<1> USE DEF Inv, Asking, list, context, outcome, ghosts
<1>1. ASSUME NEW h \in Handler, Hook(h) PROVE Inv'
  <2>1. Typed'
    BY <1>1, Appended DEF Hook, Typed
  <2>2. Walked => Walked'
    BY <1>1, Appended DEF Hook, Typed, Walked
  <2>3. QED BY <1>1, <2>1, <2>2 DEF Hook
<1>2. ASSUME NEW h \in Handler, Unhook(h) PROVE Inv'
  <2>1. Typed'
    BY <1>2, Removed DEF Unhook, Typed
  <2>2. QED BY <1>2, <2>1 DEF Unhook
<1>3. ASSUME NEW k \in Kind, Begin(k) PROVE Inv'
  BY <1>3 DEF Begin, Typed, Walked, PC
<1>4. CASE Attempt
  BY <1>4 DEF Attempt, Typed, Walked, PC
<1>5. CASE Ask
  <2>1. Typed'
    BY <1>5 DEF Ask, Typed, PC
  <2>2. Walked => Walked'
    BY <1>5 DEF Ask, Typed, Walked
  <2>3. QED BY <1>5, <2>1, <2>2 DEF Ask
<1>6. CASE CallHandler
  BY <1>6 DEF CallHandler, Typed, Walked, PC
<1>7. CASE Supply
  BY <1>7 DEF Supply, Typed, Walked, PC
<1>8. CASE Decline
  <2>1. Typed'
    BY <1>8 DEF Decline, Typed, PC
  <2>2. Walked => Walked'
    BY <1>8 DEF Decline, Typed, Walked
  <2>3. QED BY <1>8, <2>1, <2>2 DEF Decline
<1>9. CASE HandlerThrows
  BY <1>9 DEF HandlerThrows, Typed, Walked, PC
<1>10. CASE NoCredential
  BY <1>10 DEF NoCredential, Exhausted, Typed, Walked, PC
<1>11. CASE CallbackThrows
  BY <1>11 DEF CallbackThrows, Typed, Walked
<1>12. CASE Succeed
  BY <1>12 DEF Succeed, Typed, Walked, PC
<1>13. CASE Fail
  BY <1>13 DEF Fail, Typed, Walked, PC
<1>14. CASE Retry
  BY <1>14 DEF Retry, Typed, Walked, PC
<1>15. CASE HandleGitError
  BY <1>15 DEF HandleGitError, Typed, Walked, PC
<1>16. CASE GitThrow
  BY <1>16 DEF GitThrow, Typed, Walked, PC
<1>17. CASE UNCHANGED vars
  BY <1>17 DEF vars, Typed, Walked
<1>18. QED
  BY <1>1, <1>2, <1>3, <1>4, <1>5, <1>6, <1>7, <1>8, <1>9, <1>10, <1>11, <1>12, <1>13,
     <1>14, <1>15, <1>16, <1>17 DEF Next, Step

\* A Push gives up only when it has asked every handler, for any list of handlers
\* that grows meanwhile and over any number of attempts.
THEOREM NobodyIsSkipped == Spec => []EveryoneAsked
<1>1. Inv => EveryoneAsked
  BY DEF Inv, Typed, Asking, Walked, EveryoneAsked, Exhausted, ToSet
<1>2. QED BY InvInit, InvStep, <1>1, PTL DEF Spec

\* It asks nobody again who had nothing to offer.
THEOREM NobodyIsAskedTwice == Spec => []DeclinedOnce
<1>1. Inv => DeclinedOnce
  <2> SUFFICES ASSUME Inv, ~unhooked, pc = "called" PROVE asked \cap declined = {}
    BY DEF Inv, Asking, DeclinedOnce
  <2>1. /\ next < Len(hooked) /\ asked = {hooked[next + 1]}
        /\ \A h \in Handler : h \in declined <=> \E k \in 1..next : hooked[k] = h
    BY DEF Inv, Asking, Walked, Typed
  <2>2. \A k \in 1..next : hooked[k] # hooked[next + 1]
    BY <2>1 DEF Inv, Typed, IsInjective
  <2>3. hooked[next + 1] \in Handler
    BY <2>1 DEF Inv, Typed
  <2>4. QED BY <2>1, <2>2, <2>3
<1>2. QED BY InvInit, InvStep, <1>1, PTL DEF Spec

-----------------------------------------------------------------------------
\* Hooking and unhooking handlers leaves what an operation has come to as it is.
Aside == UNCHANGED <<kind, pc, context, outcome, supplied>>

\* A step of the client leaves its operation alone, starts one, runs into a callback
\* that throws, or takes the operation one step further.
LEMMA WhatHappens ==
  [Next]_vars => Aside \/ CallbackThrows \/ (\E k \in Kind : Begin(k)) \/ Step
BY DEF Next, Aside, Hook, Unhook, context, outcome, ghosts, vars

-----------------------------------------------------------------------------
\* Between two operations no exception is left in _threadException: HandleGitError
\* takes it away, and GIT_THROW finds none when there is no error.
Own ==
  /\ thrown \in {"none", "own"} /\ inner # "earlier"
  /\ pc = "idle" => thrown = "none"
  /\ pc = "failed" => failed # "none"
  /\ pc = "ended" /\ kind = "merge" /\ failed = "none" => thrown = "none"

\* What an operation reports as the cause of its error was thrown by one of its
\* own callbacks.
THEOREM CausesAreOwn == Spec => []OwnException
<1>1. Init => Own
  BY DEF Init, Own
<1>2. Own /\ [Next]_vars => Own'
  <2> SUFFICES ASSUME Own, [Next]_vars PROVE Own'
    OBVIOUS
  <2> USE DEF Own, outcome, context, Cause, Remote
  <2>1. CASE Aside
    BY <2>1 DEF Aside
  <2>2. CASE CallbackThrows \/ \E k \in Kind : Begin(k)
    BY <2>2 DEF CallbackThrows, Begin
  <2>3. CASE Step
    BY <2>3 DEF Step, Attempt, Ask, CallHandler, Supply, Decline, HandlerThrows,
                NoCredential, Exhausted, Succeed, Fail, Retry, GitThrow, HandleGitError
  <2>4. QED BY WhatHappens, <2>1, <2>2, <2>3
<1>3. Own => OwnException
  BY DEF Own, OwnException
<1>4. QED BY <1>1, <1>2, <1>3, PTL DEF Spec

-----------------------------------------------------------------------------
\* _continue is up exactly when a handler has supplied a credential in this attempt.
Paid == pc # "attempt" => (continue <=> supplied)

\* A Push is tried again only when the attempt that failed was given a credential.
THEOREM RetriesArePaid == Spec => RetriedOnlyWithCredential
<1>1. Init => Paid
  BY DEF Init, Paid
<1>2. Paid /\ [Next]_vars => Paid'
  <2> SUFFICES ASSUME Paid, [Next]_vars PROVE Paid'
    OBVIOUS
  <2> USE DEF Paid, context, ghosts
  <2>1. CASE Aside
    BY <2>1 DEF Aside
  <2>2. CASE CallbackThrows \/ \E k \in Kind : Begin(k)
    BY <2>2 DEF CallbackThrows, Begin
  <2>3. CASE Step
    BY <2>3 DEF Step, Attempt, Ask, CallHandler, Supply, Decline, HandlerThrows,
                NoCredential, Exhausted, Succeed, Fail, Retry, GitThrow, HandleGitError
  <2>4. QED BY WhatHappens, <2>1, <2>2, <2>3
<1>3. Paid /\ [Next]_vars => [pc = "failed" /\ pc' = "attempt" => supplied]_vars
  <2> SUFFICES ASSUME Paid, Next, pc = "failed", pc' = "attempt" PROVE supplied
    OBVIOUS
  <2>1. Retry
    BY DEF Next, Step, Hook, Unhook, Begin, CallbackThrows, Attempt, Ask, CallHandler, Supply,
           Decline, HandlerThrows, NoCredential, Exhausted, Succeed, Fail, GitThrow, HandleGitError
  <2>2. QED BY <2>1 DEF Retry, Paid
<1>4. QED BY <1>1, <1>2, <1>3, PTL DEF Spec, RetriedOnlyWithCredential

-----------------------------------------------------------------------------
\* The attempts used up bound the invocations, and a handler that is being called
\* bounds the cursor, wherever others have been removed meanwhile.
Used(n) == (MaxAttempts - n) * MaxCalls

Counted ==
  /\ attempts \in 0..MaxAttempts /\ calls \in 0..MaxCalls /\ authNr \in Nat
  /\ next \in 0..Cardinality(Handler)
  /\ pc = "called" => next < Cardinality(Handler)
  /\ pc \in {"talk", "ask", "called", "failed"} =>
       attempts > 0 /\ authNr <= Used(attempts) + calls
  /\ pc = "attempt" => attempts > 0 /\ authNr <= Used(attempts)
  /\ authNr <= MaxAttempts * MaxCalls

Valued ==
  /\ kind \in Kind /\ continue \in BOOLEAN /\ supplied \in BOOLEAN
  /\ failed \in Class /\ thrown \in Exception /\ inner \in Exception

LEMMA UsedUp ==
  ASSUME NEW n \in 1..MaxAttempts
  PROVE  /\ Used(n) \in Nat /\ Used(n) + MaxCalls = Used(n - 1)
         /\ Used(n - 1) <= MaxAttempts * MaxCalls
         /\ MaxAttempts * MaxCalls \in Nat
<1> USE MaxAttemptsAssumption, MaxCallsAssumption DEF Used
<1>1. \A i, j \in Nat : i * j \in Nat
  OBVIOUS
<1>2. \A i, j, k \in Nat : (i + k) * j = i * j + k * j
  OBVIOUS
<1>3. (MaxAttempts - n + 1) * MaxCalls = (MaxAttempts - n) * MaxCalls + 1 * MaxCalls
  BY <1>2
<1>4. MaxAttempts - (n - 1) = MaxAttempts - n + 1
  OBVIOUS
<1>5. MaxAttempts = (MaxAttempts - (n - 1)) + (n - 1)
  OBVIOUS
<1>6. MaxAttempts * MaxCalls = Used(n - 1) + (n - 1) * MaxCalls
  BY <1>2, <1>4, <1>5
<1>7. Used(n) \in Nat /\ Used(n - 1) \in Nat /\ (n - 1) * MaxCalls \in Nat
  BY <1>1, <1>4
<1>8. QED BY <1>1, <1>3, <1>4, <1>6, <1>7

\* There are no more handlers in the list than there are handlers.
LEMMA NoMoreThanThereAre ==
  ASSUME Typed PROVE Len(hooked) <= Cardinality(Handler)
<1>1. hooked \in Injection(1..Len(hooked), Handler)
  BY DEF Typed, IsInjective, Injection
<1>2. Cardinality(1..Len(hooked)) <= Cardinality(Handler)
  BY <1>1, HandlerAssumption, FS_Injection
<1>3. Cardinality(1..Len(hooked)) = Len(hooked)
  BY FS_Interval DEF Typed
<1>4. QED BY <1>2, <1>3

LEMMA CountedStep == Inv /\ Counted /\ Valued /\ [Next]_vars => (Counted /\ Valued)'
<1> SUFFICES ASSUME Inv, Counted, Valued, [Next]_vars PROVE (Counted /\ Valued)'
  OBVIOUS
<1>0. /\ Cardinality(Handler) \in Nat
      /\ MaxAttempts \in Nat \ {0} /\ MaxCalls \in Nat
  BY HandlerAssumption, FS_CardinalityType, MaxAttemptsAssumption, MaxCallsAssumption
<1>t. Typed
  BY DEF Inv
<1> USE <1>0 DEF Counted, Valued, list, context, outcome, ghosts
<1>1. ASSUME NEW h \in Handler, Hook(h) \/ Unhook(h) PROVE (Counted /\ Valued)'
  BY <1>1 DEF Hook, Unhook
<1>2. ASSUME NEW k \in Kind, Begin(k) PROVE (Counted /\ Valued)'
  <2>1. attempts' \in 1..MaxAttempts
    BY <1>2 DEF Begin
  <2>2. Used(attempts') \in Nat /\ MaxAttempts * MaxCalls \in Nat
    BY <2>1, UsedUp
  <2>3. Counted'
    BY <1>2, <2>1, <2>2 DEF Begin
  <2>4. Valued'
    BY <1>2 DEF Begin, Exception, Class
  <2>5. QED BY <2>3, <2>4
<1>3. CASE Attempt
  <2>1. Counted'
    <3>1. attempts \in 1..MaxAttempts
      BY <1>3 DEF Attempt
    <3>2. Used(attempts) \in Nat
      BY <3>1, UsedUp
    <3>3. QED BY <1>3, <3>2 DEF Attempt
  <2>2. continue' = FALSE /\ supplied' = FALSE /\ failed' = "none"
    BY <1>3 DEF Attempt
  <2>3. UNCHANGED <<kind, thrown, inner>>
    BY <1>3 DEF Attempt
  <2>4. Valued'
    BY <2>2, <2>3 DEF Class
  <2>5. QED BY <2>1, <2>4
<1>4. CASE Ask
  <2>1. attempts \in 1..MaxAttempts /\ authNr <= Used(attempts) + calls /\ calls < MaxCalls
    BY <1>4 DEF Ask
  <2>2. authNr + 1 <= MaxAttempts * MaxCalls
    BY <2>1, UsedUp
  <2>3. Used(attempts) \in Nat
    BY <2>1, UsedUp
  <2>4. QED BY <1>4, <2>1, <2>2, <2>3 DEF Ask
<1>5. CASE CallHandler
  BY <1>5, <1>t, NoMoreThanThereAre DEF CallHandler, Typed
<1>6. CASE Supply \/ Decline
  <2>1. Counted'
    BY <1>6 DEF Supply, Decline
  <2>2. Valued'
    BY <1>6 DEF Supply, Decline
  <2>3. QED BY <2>1, <2>2
<1>7. CASE HandlerThrows \/ CallbackThrows
  BY <1>7 DEF HandlerThrows, CallbackThrows, Exception
<1>8. CASE NoCredential \/ Succeed \/ Fail
  BY <1>8 DEF NoCredential, Exhausted, Succeed, Fail, Class
<1>9. CASE Retry
  <2>1. attempts \in 1..MaxAttempts /\ authNr <= Used(attempts) + calls
    BY <1>9 DEF Retry
  <2>2. authNr <= Used(attempts - 1)
    BY <2>1, UsedUp
  <2>3. QED BY <1>9, <2>1, <2>2 DEF Retry
<1>10. CASE HandleGitError \/ GitThrow
  BY <1>10 DEF HandleGitError, GitThrow, Cause, Exception
<1>11. CASE UNCHANGED vars
  BY <1>11 DEF vars
<1>12. QED
  BY <1>1, <1>2, <1>3, <1>4, <1>5, <1>6, <1>7, <1>8, <1>9, <1>10, <1>11 DEF Next, Step

\* Every variable keeps its type: the cursor never points further than behind the
\* longest list there was, and the callbacks of an operation are asked no more than
\* MaxCalls times in each of its attempts.
THEOREM TypeCorrect == Spec => []TypeOK
<1> DEFINE J == Inv /\ Counted /\ Valued
<1>1. Init => J
  <2> SUFFICES ASSUME Init PROVE Counted /\ Valued
    BY InvInit
  <2>1. /\ Cardinality(Handler) \in Nat /\ MaxCalls \in Nat
        /\ MaxAttempts \in Nat \ {0} /\ MaxAttempts * MaxCalls \in Nat
    BY HandlerAssumption, FS_CardinalityType, MaxAttemptsAssumption, MaxCallsAssumption, UsedUp
  <2>2. Counted
    BY <2>1 DEF Init, Counted
  <2>3. Valued
    BY DEF Init, Valued, Kind, Class, Exception
  <2>4. QED BY <2>2, <2>3
<1>2. J /\ [Next]_vars => J'
  BY InvStep, CountedStep
<1>3. J => TypeOK
  <2> SUFFICES ASSUME J PROVE TypeOK
    OBVIOUS
  <2>1. MaxAttempts * MaxCalls \in Nat
    BY MaxAttemptsAssumption, UsedUp
  <2>2. QED BY <2>1 DEF Inv, Typed, Asking, Counted, Valued, TypeOK
<1>4. QED BY <1>1, <1>2, <1>3, PTL DEF Spec

-----------------------------------------------------------------------------
(***************************************************************************)
(* No operation goes on for ever.                                          *)
(***************************************************************************)

Rank == [attempt |-> 4, talk |-> 3, ask |-> 3, called |-> 3, failed |-> 2, ended |-> 1, idle |-> 0]

\* What an operation has left: attempts; how far it is in the one under way; what
\* libgit2 may still ask in that; whether it waits for an answer; handlers that may be
\* asked for it; and whether the next one is still to be called.
Left == << attempts,
           Rank[pc],
           MaxCalls - calls,
           IF pc \in {"ask", "called"} THEN 1 ELSE 0,
           Cardinality(Handler) - next,
           IF pc = "ask" THEN 1 ELSE 0 >>

\* The order of such tuples, which is well-founded: that of their first difference.
Less(a, b) == \E n \in 1..6 : a[n] < b[n] /\ \A m \in 1..(n - 1) : a[m] = b[m]

\* A step of an operation leaves it with less, and what else the user's code does meanwhile
\* leaves it with what it had.
UsesUp == pc # "idle" => Less(Left', Left) \/ (~Step /\ Left' = Left)

\* A first difference at each of the six places.
LEMMA FirstDifference ==
  ASSUME NEW a, NEW b
  PROVE  /\ a[1] < b[1] => Less(a, b)
         /\ a[1] = b[1] /\ a[2] < b[2] => Less(a, b)
         /\ a[1] = b[1] /\ a[2] = b[2] /\ a[3] < b[3] => Less(a, b)
         /\ a[1] = b[1] /\ a[2] = b[2] /\ a[3] = b[3] /\ a[4] < b[4] => Less(a, b)
         /\ a[1] = b[1] /\ a[2] = b[2] /\ a[3] = b[3] /\ a[4] = b[4] /\ a[5] < b[5]
              => Less(a, b)
         /\ a[1] = b[1] /\ a[2] = b[2] /\ a[3] = b[3] /\ a[4] = b[4] /\ a[5] = b[5]
              /\ a[6] < b[6] => Less(a, b)
BY DEF Less

LEMMA LeftMeans ==
  ASSUME TypeOK
  PROVE  /\ Left \in [1..6 -> Nat]
         /\ Left[1] = attempts /\ Left[2] = Rank[pc] /\ Left[3] = MaxCalls - calls
         /\ Left[4] = IF pc \in {"ask", "called"} THEN 1 ELSE 0
         /\ Left[5] = Cardinality(Handler) - next
         /\ Left[6] = IF pc = "ask" THEN 1 ELSE 0
<1>1. Cardinality(Handler) \in Nat /\ MaxCalls \in Nat /\ MaxAttempts \in Nat
  BY HandlerAssumption, FS_CardinalityType, MaxCallsAssumption, MaxAttemptsAssumption
<1>2. /\ attempts \in Nat /\ MaxCalls - calls \in Nat /\ Cardinality(Handler) - next \in Nat
  BY <1>1 DEF TypeOK
<1>3. Rank[pc] \in Nat
  BY DEF TypeOK, PC, Rank
<1>4. QED BY <1>2, <1>3 DEF Left

\* Whatever the handlers, the remote and libgit2 do, an operation under way uses up what
\* it has with every step, so that it takes finitely many of them: the attempts
\* are counted, and within one the invocations are, and the handlers asked in each.
THEOREM EveryStepUsesUp == Spec => [](Left \in [1..6 -> Nat]) /\ [][UsesUp]_vars
<1>1. TypeOK => Left \in [1..6 -> Nat]
  BY LeftMeans
<1>2. TypeOK /\ TypeOK' /\ [Next]_vars => [UsesUp]_vars
  <2> SUFFICES ASSUME TypeOK, TypeOK', Next, pc # "idle"
               PROVE  Less(Left', Left) \/ (~Step /\ Left' = Left)
    BY DEF UsesUp
  <2>1. CASE Step
    <3> DEFINE a == Left'
               b == Left
    <3>1. /\ b[1] = attempts /\ b[2] = Rank[pc] /\ b[3] = MaxCalls - calls
          /\ b[4] = IF pc \in {"ask", "called"} THEN 1 ELSE 0
          /\ b[5] = Cardinality(Handler) - next
          /\ b[6] = IF pc = "ask" THEN 1 ELSE 0
      BY LeftMeans
    <3>2. /\ a[1] = attempts' /\ a[2] = Rank[pc'] /\ a[3] = MaxCalls - calls'
          /\ a[4] = IF pc' \in {"ask", "called"} THEN 1 ELSE 0
          /\ a[5] = Cardinality(Handler) - next'
          /\ a[6] = IF pc' = "ask" THEN 1 ELSE 0
      BY DEF Left
    <3>3. /\ Rank["attempt"] = 4 /\ Rank["talk"] = 3 /\ Rank["ask"] = 3 /\ Rank["called"] = 3
          /\ Rank["failed"] = 2 /\ Rank["ended"] = 1 /\ Rank["idle"] = 0
      BY DEF Rank
    <3>4. /\ Cardinality(Handler) \in Nat /\ MaxCalls \in Nat /\ MaxAttempts \in Nat
          /\ attempts \in Nat /\ calls \in Nat /\ next \in Nat
      BY HandlerAssumption, FS_CardinalityType, MaxCallsAssumption, MaxAttemptsAssumption
         DEF TypeOK
    <3> HIDE DEF a, b
    <3> USE DEF list, context
    <3>5. CASE Attempt
      <4>1. a[1] = b[1] /\ a[2] < b[2]
        BY <3>1, <3>2, <3>3, <3>5 DEF Attempt
      <4>2. QED BY <4>1, FirstDifference DEF a, b
    <3>6. CASE Ask
      <4>1. a[1] = b[1] /\ a[2] = b[2] /\ a[3] < b[3]
        BY <3>1, <3>2, <3>3, <3>4, <3>6 DEF Ask
      <4>2. QED BY <4>1, FirstDifference DEF a, b
    <3>7. CASE CallHandler
      <4>1. a[1] = b[1] /\ a[2] = b[2] /\ a[3] = b[3] /\ a[4] = b[4] /\ a[5] = b[5] /\ a[6] < b[6]
        BY <3>1, <3>2, <3>3, <3>7 DEF CallHandler
      <4>2. QED BY <4>1, FirstDifference DEF a, b
    <3>8. CASE Supply \/ HandlerThrows \/ NoCredential
      <4>1. a[1] = b[1] /\ a[2] = b[2] /\ a[3] = b[3] /\ a[4] < b[4]
        BY <3>1, <3>2, <3>3, <3>8 DEF Supply, HandlerThrows, NoCredential, Exhausted
      <4>2. QED BY <4>1, FirstDifference DEF a, b
    <3>9. CASE Decline
      <4>1. a[1] = b[1] /\ a[2] = b[2] /\ a[3] = b[3] /\ a[4] = b[4] /\ a[5] < b[5]
        BY <3>1, <3>2, <3>3, <3>4, <3>9 DEF Decline
      <4>2. QED BY <4>1, FirstDifference DEF a, b
    <3>10. CASE Succeed \/ Fail \/ GitThrow \/ HandleGitError
      <4>1. a[1] = b[1] /\ a[2] < b[2]
        BY <3>1, <3>2, <3>3, <3>10 DEF Succeed, Fail, GitThrow, HandleGitError
      <4>2. QED BY <4>1, FirstDifference DEF a, b
    <3>11. CASE Retry
      <4>1. a[1] < b[1] \/ (a[1] = b[1] /\ a[2] < b[2])
        BY <3>1, <3>2, <3>3, <3>4, <3>11 DEF Retry
      <4>2. QED BY <4>1, FirstDifference DEF a, b
    <3>12. QED
      BY <2>1, <3>5, <3>6, <3>7, <3>8, <3>9, <3>10, <3>11 DEF Step
  <2>2. CASE ~Step
    <3>1. \/ \E h \in Handler : Hook(h) \/ Unhook(h)
          \/ CallbackThrows
      BY <2>2 DEF Next, Begin
    <3>2. UNCHANGED <<attempts, pc, calls, next>>
      BY <3>1 DEF Hook, Unhook, CallbackThrows, context, list
    <3>3. QED BY <2>2, <3>2 DEF Left
  <2>3. QED BY <2>1, <2>2
<1>3. QED BY TypeCorrect, <1>1, <1>2, PTL DEF Spec
=============================================================================
