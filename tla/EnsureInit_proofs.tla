-------------------------- MODULE EnsureInit_proofs --------------------------
(***************************************************************************)
(* Theorems about EnsureInit, for any number of threads and AppDomains.    *)
(***************************************************************************)
EXTENDS EnsureInit, TLAPS

\* Who is between Monitor::Enter and Monitor::Exit holds the lock.
Locked == \A t \in Thread : pc[t] \in Critical => lock[Home[t]] = t

\* The libraries a thread has called on before it comes to a label.
Before(label) == CASE label = "utf" -> {"apr"}
                   [] label = "git" -> {"apr", "utf"}
                   [] label = "ssl" -> {"apr", "utf", "git"}
                   [] label \in {"publish", "exit"} -> Library
                   [] OTHER -> {}

\* An AppDomain's flag tells what its threads have done: nothing before it is up,
\* and who put it up does the work alone.
Alone ==
  /\ \A d \in Domain : ~aprInitialized[d] => called[d] = {}
  /\ \A t \in Thread : pc[t] = "mark" => ~aprInitialized[Home[t]]
  /\ \A t \in Thread : pc[t] \in Library \cup {"publish"} =>
       /\ aprInitialized[Home[t]]
       /\ called[Home[t]] = Before(pc[t]) \cup (IF t \in native THEN {pc[t]} ELSE {})

\* A flag is up while the work is under way, and after it.
Flagged ==
  \A d \in Domain : aprInitialized[d] =>
    \/ called[d] = Library
    \/ \E t \in Thread : Home[t] = d /\ pc[t] \in Library

\* What was called on is initialized, or somebody is inside its initializer.
Underway ==
  /\ \A t \in native : pc[t] \in Library
  /\ \A d \in Domain : \A l \in called[d] : l \in ready \/ \E u \in native : pc[u] = l

\* The threads of an AppDomain are through with all libraries, and have published that.
Through(d) == called[d] = Library /\ \A u \in Thread : Home[u] = d => pc[u] \notin Library \cup {"publish"}

\* Who leaves the lock, returns or takes the fast path does so when some AppDomain
\* is through; who goes for the lock has left its mark.
Finished ==
  /\ \A t \in Thread : pc[t] \notin {"out", "back"} => ensurer # 0
  /\ \A t \in Thread : pc[t] \in {"publish", "exit"} => called[Home[t]] = Library
  /\ \A t \in Thread : pc[t] = "back" => \E v \in Thread : Through(Home[v])
  /\ ensurer = 2 => \E v \in Thread : Through(Home[v])

Inv == TypeOK /\ Locked /\ Alone /\ Flagged /\ Underway /\ Finished

LEMMA InvInit == Init => Inv
BY HomeAssumption DEF Init, Inv, TypeOK, Locked, Alone, Flagged, Underway, Finished, PC, Critical, Library

\* No two threads of an AppDomain are behind its lock.
LEMMA OneInside ==
  ASSUME Locked, NEW t \in Thread, NEW u \in Thread, u # t, Home[u] = Home[t], pc[t] \in Critical
  PROVE  pc[u] \notin Critical
BY DEF Locked

LEMMA LockedStep == TypeOK /\ Locked /\ Underway /\ [Next]_vars => TypeOK' /\ Locked'
<1> SUFFICES ASSUME TypeOK, Locked, Underway, [Next]_vars PROVE TypeOK' /\ Locked'
  OBVIOUS
<1> USE HomeAssumption, NobodyAssumption
    DEF TypeOK, Locked, Underway, PC, Critical, Library, Goto, libs
<1>1. ASSUME NEW t \in Thread, Call(t) PROVE TypeOK' /\ Locked'
  BY <1>1 DEF Call
<1>2. ASSUME NEW t \in Thread, Enter(t) PROVE TypeOK' /\ Locked'
  BY <1>2 DEF Enter
<1>3. ASSUME NEW t \in Thread, Check(t) PROVE TypeOK' /\ Locked'
  BY <1>3 DEF Check
<1>4. ASSUME NEW t \in Thread, Mark(t) PROVE TypeOK' /\ Locked'
  BY <1>4 DEF Mark
<1>5. ASSUME NEW t \in Thread, CallsNative(t) PROVE TypeOK' /\ Locked'
  BY <1>5 DEF CallsNative, After
<1>6. ASSUME NEW t \in Thread, NativeReturns(t) PROVE TypeOK' /\ Locked'
  BY <1>6 DEF NativeReturns, After
<1>7. ASSUME NEW t \in Thread, Publish(t) PROVE TypeOK' /\ Locked'
  BY <1>7 DEF Publish
<1>8. ASSUME NEW t \in Thread, Exit(t) PROVE TypeOK' /\ Locked'
  BY <1>8 DEF Exit
<1>9. ASSUME NEW t \in Thread, Return(t) PROVE TypeOK' /\ Locked'
  BY <1>9 DEF Return
<1>10. CASE UNCHANGED vars
  BY <1>10 DEF vars
<1>11. QED
  BY <1>1, <1>2, <1>3, <1>4, <1>5, <1>6, <1>7, <1>8, <1>9, <1>10, TypeOK DEF Next, Inside


LEMMA AloneStep == Inv /\ [Next]_vars => Alone'
<1> SUFFICES ASSUME Inv, [Next]_vars PROVE Alone'
  OBVIOUS
<1> USE HomeAssumption, NobodyAssumption DEF Inv, TypeOK, PC, Critical, Library, Goto, libs
<1>1. ASSUME NEW t \in Thread, Call(t) PROVE Alone'
  BY <1>1 DEF Call, Alone, Before
<1>2. ASSUME NEW t \in Thread, Enter(t) PROVE Alone'
  BY <1>2 DEF Enter, Alone, Before
<1>3. ASSUME NEW t \in Thread, Check(t) PROVE Alone'
  BY <1>3 DEF Check, Alone, Before
<1>4. ASSUME NEW t \in Thread, Mark(t) PROVE Alone'
  <2>1. \A u \in Thread : u # t /\ Home[u] = Home[t] => pc[u] \notin Critical
    BY <1>4, OneInside DEF Mark
  <2>2. t \notin native
    BY <1>4 DEF Mark, Underway
  <2>3. QED BY <1>4, <2>1, <2>2 DEF Mark, Alone, Before
<1>5. ASSUME NEW t \in Thread, CallsNative(t) PROVE Alone'
  <2>1. \A u \in Thread : u # t /\ Home[u] = Home[t] => pc[u] \notin Critical
    BY <1>5, OneInside DEF CallsNative
  <2>2. aprInitialized[Home[t]] /\ called[Home[t]] = Before(pc[t])
    BY <1>5 DEF CallsNative, Alone
  <2>3. /\ called'[Home[t]] = Before(pc[t]) \cup {pc[t]}
        /\ \A d \in Domain : d # Home[t] => called'[d] = called[d]
    BY <1>5, <2>2 DEF CallsNative
  <2>4. Before(After(pc[t])) = Before(pc[t]) \cup {pc[t]}
    BY <1>5 DEF CallsNative, After, Before
  <2>5. After(pc[t]) \in Library \cup {"publish"}
    BY <1>5 DEF CallsNative, After
  <2>6. CASE native' = native \cup {t} /\ pc' = pc
    BY <1>5, <2>1, <2>2, <2>3, <2>6 DEF CallsNative, Alone
  <2>7. CASE native' = native /\ pc' = [pc EXCEPT ![t] = After(pc[t])]
    BY <1>5, <2>1, <2>2, <2>3, <2>4, <2>5, <2>7 DEF CallsNative, Alone
  <2>8. QED BY <1>5, <2>6, <2>7 DEF CallsNative
<1>6. ASSUME NEW t \in Thread, NativeReturns(t) PROVE Alone'
  <2>0. pc[t] \in Library
    BY <1>6 DEF NativeReturns, Underway
  <2>1. \A u \in Thread : u # t /\ Home[u] = Home[t] => pc[u] \notin Critical
    BY <2>0, OneInside
  <2>2. aprInitialized[Home[t]] /\ called[Home[t]] = Before(pc[t]) \cup {pc[t]}
    BY <1>6, <2>0 DEF NativeReturns, Alone
  <2>3. Before(After(pc[t])) = Before(pc[t]) \cup {pc[t]} /\ After(pc[t]) \in Library \cup {"publish"}
    BY <2>0 DEF After, Before
  <2>4. QED BY <1>6, <2>1, <2>2, <2>3 DEF NativeReturns, Alone
<1>7. ASSUME NEW t \in Thread, Publish(t) PROVE Alone'
  BY <1>7 DEF Publish, Alone, Before
<1>8. ASSUME NEW t \in Thread, Exit(t) PROVE Alone'
  BY <1>8 DEF Exit, Alone, Before
<1>9. ASSUME NEW t \in Thread, Return(t) PROVE Alone'
  BY <1>9 DEF Return, Alone, Before
<1>10. CASE UNCHANGED vars
  BY <1>10 DEF vars, Alone
<1>11. QED
  BY <1>1, <1>2, <1>3, <1>4, <1>5, <1>6, <1>7, <1>8, <1>9, <1>10 DEF Next, Inside

LEMMA UnderwayStep == Inv /\ [Next]_vars => Underway'
<1> SUFFICES ASSUME Inv, [Next]_vars PROVE Underway'
  OBVIOUS
<1> USE HomeAssumption DEF Inv, TypeOK, PC, Critical, Library, Goto, libs
<1>1. ASSUME NEW t \in Thread, CallsNative(t) PROVE Underway'
  <2>1. \A u \in native : u # t /\ pc'[u] = pc[u]
    BY <1>1 DEF CallsNative, Underway
  <2>2. native \subseteq native' /\ \A u \in native' : pc'[u] \in Library
    BY <1>1, <2>1 DEF CallsNative, Underway
  <2>3. ASSUME NEW d \in Domain, NEW l \in called[d]
        PROVE  l \in ready' \/ \E u \in native' : pc'[u] = l
    BY <1>1, <2>1, <2>2 DEF CallsNative, Underway
  <2>4. pc[t] \in ready' \/ \E u \in native' : pc'[u] = pc[t]
    <3>1. CASE native' = native \cup {t} /\ pc' = pc
      BY <3>1
    <3>2. CASE Begun(pc[t])
      BY <2>3, <3>2 DEF Begun
    <3>3. QED BY <1>1, <3>1, <3>2 DEF CallsNative
  <2>5. \A d \in Domain : called'[d] \subseteq called[d] \cup {pc[t]}
    BY <1>1 DEF CallsNative
  <2>6. QED BY <2>2, <2>3, <2>4, <2>5 DEF Underway
<1>2. ASSUME NEW t \in Thread, NativeReturns(t) PROVE Underway'
  <2>1. \A u \in native : u # t => u \in native' /\ pc'[u] = pc[u]
    BY <1>2 DEF NativeReturns
  <2>2. \A u \in native' : u \in native /\ u # t
    BY <1>2 DEF NativeReturns
  <2>3. ready' = ready \cup {pc[t]} /\ called' = called
    BY <1>2 DEF NativeReturns
  <2>4. QED BY <2>1, <2>2, <2>3 DEF Underway
<1>3. ASSUME NEW t \in Thread,
             Call(t) \/ Enter(t) \/ Check(t) \/ Mark(t) \/ Publish(t) \/ Exit(t) \/ Return(t)
      PROVE  Underway'
  <2>1. pc[t] \notin Library /\ UNCHANGED libs
    BY <1>3 DEF Call, Enter, Check, Mark, Publish, Exit, Return
  <2>2. \A u \in Thread : u # t => pc'[u] = pc[u]
    BY <1>3 DEF Call, Enter, Check, Mark, Publish, Exit, Return
  <2>3. QED BY <2>1, <2>2 DEF Underway
<1>4. CASE UNCHANGED vars
  BY <1>4 DEF vars, Underway
<1>5. QED BY <1>1, <1>2, <1>3, <1>4 DEF Next, Inside

\* Once an AppDomain is through it stays so.
LEMMA ThroughStays ==
  ASSUME Inv, [Next]_vars, NEW v \in Thread, Through(Home[v])
  PROVE  Through(Home[v])'
<1> USE HomeAssumption DEF Inv, TypeOK, PC, Critical, Library, Goto, libs
<1>1. called'[Home[v]] = Library
  <2>1. \A t \in Thread : CallsNative(t) => called'[Home[v]] = Library
    BY DEF CallsNative, Through
  <2>2. called' = called \/ \E t \in Thread : CallsNative(t)
    BY DEF Next, Inside, Call, Enter, Check, Mark, NativeReturns, Publish, Exit, Return, vars
  <2>3. QED BY <2>1, <2>2 DEF Through
<1>2. ASSUME NEW u \in Thread, Home[u] = Home[v]
      PROVE  pc'[u] \notin Library \cup {"publish"}
  <2>1. pc[u] \notin Library \cup {"publish"} /\ u \notin native
    BY <1>2 DEF Through, Underway
  <2>2. pc[u] # "mark"
    BY <1>2 DEF Through, Alone
  <2>3. \A t \in Thread : t # u /\ (Call(t) \/ Inside(t)) => pc'[u] = pc[u]
    BY DEF Inside, Call, Enter, Check, Mark, CallsNative, NativeReturns, Publish, Exit, Return
  <2>4. Call(u) \/ Inside(u) => pc'[u] \notin Library \cup {"publish"}
    BY <2>1, <2>2
    DEF Inside, Call, Enter, Check, Mark, CallsNative, NativeReturns, Publish, Exit, Return
  <2>5. QED BY <2>1, <2>3, <2>4 DEF Next, vars
<1>3. QED BY <1>1, <1>2 DEF Through

\* An AppDomain is through when the thread that initialized leaves its lock.
LEMMA BehindLock ==
  ASSUME Inv, NEW t \in Thread, pc[t] = "exit"
  PROVE  Through(Home[t])
<1>1. called[Home[t]] = Library
  BY DEF Inv, Finished
<1>2. \A u \in Thread : Home[u] = Home[t] => pc[u] \notin Library \cup {"publish"}
  BY DEF Inv, Locked, Critical, Library
<1>3. QED BY <1>1, <1>2 DEF Through

LEMMA FinishedStep == Inv /\ [Next]_vars => Flagged' /\ Finished'
<1> SUFFICES ASSUME Inv, [Next]_vars PROVE Flagged' /\ Finished'
  OBVIOUS
<1> USE HomeAssumption DEF Inv, TypeOK, PC, Critical, Library, Goto, libs
<1>0. (\E v \in Thread : Through(Home[v])) => \E v \in Thread : Through(Home[v])'
  BY ThroughStays
<1>1. ASSUME NEW t \in Thread, Call(t) PROVE Flagged' /\ Finished'
  <2>1. Flagged'
    BY <1>1 DEF Call, Flagged
  <2>2. QED BY <1>0, <1>1, <2>1 DEF Call, Finished
<1>2. ASSUME NEW t \in Thread, Enter(t) PROVE Flagged' /\ Finished'
  <2>1. Flagged'
    BY <1>2 DEF Enter, Flagged
  <2>2. QED BY <1>0, <1>2, <2>1 DEF Enter, Finished
<1>3. ASSUME NEW t \in Thread, Check(t) PROVE Flagged' /\ Finished'
  <2>1. Flagged'
    BY <1>3 DEF Check, Flagged
  <2>2. \A u \in Thread : Home[u] = Home[t] => pc[u] \notin Library
    BY <1>3 DEF Check, Locked
  <2>3. aprInitialized[Home[t]] => called[Home[t]] = Library
    BY <2>2 DEF Flagged
  <2>4. QED BY <1>0, <1>3, <2>1, <2>3 DEF Check, Finished
<1>4. ASSUME NEW t \in Thread, Mark(t) PROVE Flagged' /\ Finished'
  <2>1. Flagged'
    <3>1. pc'[t] = "apr" /\ called' = called
      BY <1>4 DEF Mark
    <3>2. \A u \in Thread : pc[u] \in Library => pc'[u] = pc[u]
      BY <1>4 DEF Mark
    <3>3. \A d \in Domain : d # Home[t] => aprInitialized'[d] = aprInitialized[d]
      BY <1>4 DEF Mark
    <3>4. QED BY <3>1, <3>2, <3>3 DEF Flagged
  <2>2. QED BY <1>0, <1>4, <2>1 DEF Mark, Finished
<1>5. ASSUME NEW t \in Thread, CallsNative(t) \/ NativeReturns(t) PROVE Flagged' /\ Finished'
  <2>0. pc[t] \in Library /\ aprInitialized' = aprInitialized /\ ensurer' = ensurer
    BY <1>5 DEF CallsNative, NativeReturns, Underway
  <2>1. \A d \in Domain : called[d] \subseteq called'[d]
    BY <1>5 DEF CallsNative, NativeReturns
  <2>3. pc' = pc \/ pc' = [pc EXCEPT ![t] = After(pc[t])]
    BY <1>5 DEF CallsNative, NativeReturns
  <2>4. pc'[t] \in Library \cup {"publish"}
    <3>1. After(pc[t]) \in Library \cup {"publish"}
      BY <2>0 DEF After
    <3>2. QED BY <2>0, <2>3, <3>1
  <2>5. \A d \in Domain : called'[d] \subseteq Library
    BY <1>5, <2>0 DEF CallsNative, NativeReturns
  <2>6. pc'[t] = "publish" => called'[Home[t]] = Library
    <3>1. pc'[t] = "publish" => Before("publish") \subseteq called'[Home[t]]
      BY AloneStep DEF Alone
    <3>2. QED BY <2>5, <3>1 DEF Before
  <2>7. Flagged'
    <3>1. ASSUME NEW d \in Domain, aprInitialized'[d], called'[d] # Library
          PROVE  \E u \in Thread : Home[u] = d /\ pc'[u] \in Library
      <4>1. called[d] # Library
        BY <2>1, <2>5, <3>1
      <4>2. PICK u \in Thread : Home[u] = d /\ pc[u] \in Library
        BY <2>0, <3>1, <4>1 DEF Flagged
      <4>3. QED BY <2>3, <2>4, <2>6, <3>1, <4>2
    <3>2. QED BY <3>1 DEF Flagged
  <2>8. \A u \in Thread : pc'[u] \in {"publish", "exit"} => called'[Home[u]] = Library
    BY <2>1, <2>3, <2>4, <2>6, <2>5 DEF Finished
  <2>9. \A u \in Thread : pc'[u] = "back" => pc[u] = "back"
    BY <2>3, <2>4
  <2>10. QED BY <1>0, <2>0, <2>7, <2>8, <2>9 DEF Finished
<1>6. ASSUME NEW t \in Thread, Publish(t) \/ Exit(t) PROVE Flagged' /\ Finished'
  <2>1. Flagged'
    BY <1>6 DEF Publish, Exit, Flagged
  <2>2. \E v \in Thread : Through(Home[v])'
    <3>1. CASE Publish(t)
      <4>1. called'[Home[t]] = Library /\ pc' = [pc EXCEPT ![t] = "exit"]
        BY <3>1 DEF Publish, Finished
      <4>2. \A u \in Thread : u # t /\ Home[u] = Home[t] => pc[u] \notin Critical
        BY <3>1, OneInside DEF Publish
      <4>3. Through(Home[t])'
        BY <4>1, <4>2 DEF Through
      <4>4. QED BY <4>3
    <3>2. CASE Exit(t)
      BY <1>0, <3>2, BehindLock DEF Exit
    <3>3. QED BY <1>6, <3>1, <3>2
  <2>3. \A u \in Thread : pc'[u] \in {"publish", "exit"} => called'[Home[u]] = Library
    BY <1>6 DEF Publish, Exit, Finished
  <2>4. \A u \in Thread : pc'[u] \notin {"out", "back"} => ensurer' # 0
    BY <1>6 DEF Publish, Exit, Finished
  <2>5. QED BY <2>1, <2>2, <2>3, <2>4 DEF Finished
<1>7. ASSUME NEW t \in Thread, Return(t) PROVE Flagged' /\ Finished'
  <2>1. Flagged'
    BY <1>7 DEF Return, Flagged
  <2>2. QED BY <1>0, <1>7, <2>1 DEF Return, Finished
<1>8. CASE UNCHANGED vars
  <2>1. Flagged'
    BY <1>8 DEF vars, Flagged
  <2>2. QED BY <1>0, <1>8, <2>1 DEF vars, Finished
<1>9. QED
  BY <1>1, <1>2, <1>3, <1>4, <1>5, <1>6, <1>7, <1>8 DEF Next, Inside

LEMMA InvStep == Inv /\ [Next]_vars => Inv'
BY LockedStep, AloneStep, UnderwayStep, FinishedStep DEF Inv

\* Every variable keeps its type; the way through the libraries ends.
THEOREM TypeCorrect == Spec => []TypeOK
<1>1. Inv => TypeOK
  BY DEF Inv
<1>2. QED BY InvInit, InvStep, <1>1, PTL DEF Spec

LEMMA InvReturnsReady == Inv => ReturnsReady
<1> SUFFICES ASSUME Inv, NEW t \in Thread, pc[t] = "back", ~Ready PROVE
      Raced /\ \A l \in Library \ ready : \E u \in native : pc[u] = l
  BY DEF ReturnsReady, ReadyOrRaced
<1>1. PICK v \in Thread : Through(Home[v])
  BY DEF Inv, Finished
<1>2. \A l \in Library \ ready : \E u \in native : pc[u] = l
  BY <1>1, HomeAssumption DEF Inv, Underway, Through
<1>3. PICK l \in Library : l \notin ready
  BY DEF Ready, Inv, TypeOK
<1>4. PICK u \in native : pc[u] = l
  BY <1>2, <1>3
<1>5. u \in Thread /\ Home[u] # Home[v]
  BY <1>1, <1>4 DEF Inv, TypeOK, Through
<1>6. called[Home[u]] # {}
  <2>1. called[Home[u]] = Before(pc[u]) \cup {pc[u]}
    BY <1>4, <1>5 DEF Inv, Alone
  <2>2. QED BY <2>1
<1>7. called[Home[v]] # {}
  BY <1>1 DEF Through, Library
<1>8. QED BY <1>2, <1>5, <1>6, <1>7 DEF Raced

\* No call returns before every library is initialized, for any number of threads
\* and AppDomains, but for what another AppDomain is initializing at the time.
THEOREM NobodyReturnsEarly == Spec => []ReturnsReady
BY InvInit, InvStep, InvReturnsReady, PTL DEF Spec

\* With one AppDomain there is no such exception: whoever returns finds every
\* library initialized.
THEOREM OneDomainReturnsReady ==
  ASSUME OneDomain
  PROVE  Spec => [](\A t \in Thread : pc[t] = "back" => Ready)
<1>1. Inv => \A t \in Thread : pc[t] = "back" => Ready
  BY InvReturnsReady, OneDomain DEF ReturnsReady, ReadyOrRaced, Raced, OneDomain
<1>2. QED BY InvInit, InvStep, <1>1, PTL DEF Spec

\* Of one AppDomain no two threads call on the same library, for any number of
\* threads and of AppDomains.
THEOREM InitializedOnce == Spec => []InitializesOnce
<1>1. Inv => InitializesOnce
  BY DEF Inv, Alone, InitializesOnce, Before, Library
<1>2. QED BY InvInit, InvStep, <1>1, PTL DEF Spec

\* The assertion at the end of EnsureInitialized holds for any number of threads
\* as long as no two AppDomains have raced: they share ensurer, but not the lock,
\* so the second one to publish finds 2.
THEOREM PublishedOnce == Spec => []PublishesFirst
<1>1. Inv => PublishesFirst
  <2> SUFFICES ASSUME Inv, ~Raced, NEW t \in Thread, pc[t] = "publish" PROVE ensurer = 1
    BY DEF PublishesFirst
  <2>1. called[Home[t]] = Library /\ Library # {} /\ ensurer \in {1, 2}
    BY DEF Inv, TypeOK, Finished, Library
  <2>2. ASSUME ensurer = 2 PROVE FALSE
    <3>1. PICK v \in Thread : Through(Home[v])
      BY <2>2 DEF Inv, Finished
    <3>2. Home[v] = Home[t]
      BY <2>1, <3>1 DEF Raced, Through
    <3>3. QED BY <3>1, <3>2 DEF Through
  <2>3. QED BY <2>1, <2>2
<1>2. QED BY InvInit, InvStep, <1>1, PTL DEF Spec

\* A race is not undone, and what is being initialized in it will be.
LEMMA ReadyStays ==
  ASSUME Inv, [Next]_vars, ReadyOrRaced
  PROVE  ReadyOrRaced'
<1> USE DEF Inv, TypeOK, PC, Critical, Goto, libs
<1>1. ready \subseteq ready' /\ ready' \subseteq Library
  <2>1. ready' \subseteq Library
    BY LockedStep DEF Inv
  <2>2. ready \subseteq ready'
    BY DEF Next, Inside, Call, Enter, Check, Mark, CallsNative, NativeReturns, Publish, Exit,
           Return, vars
  <2>3. QED BY <2>1, <2>2
<1>2. \A d \in Domain : called[d] # {} => called'[d] # {}
  BY DEF Next, Inside, Call, Enter, Check, Mark, CallsNative, NativeReturns, Publish, Exit,
         Return, vars
<1>3. Raced => Raced'
  BY <1>2, HomeAssumption DEF Raced
<1>4. ASSUME NEW u \in native
      PROVE  pc[u] \in ready' \/ (u \in native' /\ pc'[u] = pc[u])
  <2>1. pc[u] \in Library
    BY DEF Underway
  <2>2. ASSUME NEW t \in Thread, CallsNative(t)
        PROVE  u \in native' /\ pc'[u] = pc[u]
    BY <2>2 DEF CallsNative
  <2>3. ASSUME NEW t \in Thread, NativeReturns(t)
        PROVE  pc[u] \in ready' \/ (u \in native' /\ pc'[u] = pc[u])
    BY <2>3 DEF NativeReturns
  <2>4. ASSUME NEW t \in Thread,
               Call(t) \/ Enter(t) \/ Check(t) \/ Mark(t) \/ Publish(t) \/ Exit(t) \/ Return(t)
        PROVE  u \in native' /\ pc'[u] = pc[u]
    BY <2>1, <2>4 DEF Call, Enter, Check, Mark, Publish, Exit, Return, Library
  <2>5. CASE UNCHANGED vars
    BY <2>5 DEF vars
  <2>6. QED BY <2>2, <2>3, <2>4, <2>5 DEF Next, Inside
<1>5. CASE Ready
  BY <1>1, <1>5 DEF Ready, ReadyOrRaced
<1>6. CASE Raced /\ \A l \in Library \ ready : \E u \in native : pc[u] = l
  BY <1>1, <1>3, <1>4, <1>6 DEF ReadyOrRaced
<1>7. QED BY <1>5, <1>6 DEF ReadyOrRaced

\* But for its liveness, which TLC checks, EnsureInitialized keeps the promises of
\* OnceInit for any number of threads and AppDomains.
THEOREM ImplementsOnceSafely == Spec => Once!OInit /\ [][Once!ONext]_Once!ovars
<1> DEFINE Calling == {t \in Thread : pc[t] # "out"}
<1>1. Init => Once!OInit
  BY HomeAssumption DEF Init, Once!OInit, ReadyOrRaced, Raced, Ready, Library
<1>2. Inv /\ [Next]_vars => [Once!ONext]_Once!ovars
  <2> SUFFICES ASSUME Inv, [Next]_vars PROVE [Once!ONext]_Once!ovars
    OBVIOUS
  <2> USE DEF Inv, TypeOK, PC, Critical, Goto, libs
  <2>1. ASSUME NEW t \in Thread,
               Call(t) \/ Enter(t) \/ Check(t) \/ Mark(t) \/ Publish(t) \/ Exit(t) \/ Return(t)
        PROVE  ReadyOrRaced' = ReadyOrRaced
    <3>1. UNCHANGED libs
      BY <2>1 DEF Call, Enter, Check, Mark, Publish, Exit, Return
    <3>2. \A u \in native : pc'[u] = pc[u]
      <4>1. \A u \in native : pc[u] \in Library
        BY DEF Underway
      <4>2. pc[t] \notin Library
        BY <2>1 DEF Call, Enter, Check, Mark, Publish, Exit, Return, Library
      <4>3. QED BY <2>1, <4>1, <4>2 DEF Call, Enter, Check, Mark, Publish, Exit, Return
    <3>3. QED BY <3>1, <3>2 DEF ReadyOrRaced, Raced, Ready
  <2>2. ASSUME NEW t \in Thread, Call(t) PROVE Once!Call(t)
    <3>1. t \notin Calling /\ Calling' = Calling \cup {t}
      BY <2>2 DEF Call
    <3>2. QED BY <2>1, <2>2, <3>1 DEF Once!Call
  <2>3. ASSUME NEW t \in Thread, Inside(t), ~Return(t)
        PROVE  Calling' = Calling /\ Calling # {}
    <3>1. pc[t] # "out" /\ pc' \in [Thread -> PC]
      BY <2>3, LockedStep
      DEF Inside, Enter, Check, Mark, CallsNative, NativeReturns, Publish, Exit, Underway, Library
    <3>2. pc[t] \in Library => After(pc[t]) # "out"
      BY DEF After, Library
    <3>3. pc'[t] # "out" /\ \A u \in Thread : u # t => pc'[u] = pc[u]
      <4>1. CASE CallsNative(t) \/ NativeReturns(t)
        <5>1. pc[t] \in Library /\ (pc' = pc \/ pc' = [pc EXCEPT ![t] = After(pc[t])])
          BY <4>1 DEF CallsNative, NativeReturns, Underway
        <5>2. QED BY <3>1, <3>2, <5>1
      <4>2. CASE Enter(t) \/ Check(t) \/ Mark(t) \/ Publish(t) \/ Exit(t)
        BY <4>2 DEF Enter, Check, Mark, Publish, Exit
      <4>3. QED BY <2>3, <4>1, <4>2 DEF Inside
    <3>4. QED BY <3>1, <3>3
  <2>4. ASSUME NEW t \in Thread, Enter(t) \/ Check(t) \/ Mark(t) \/ Publish(t) \/ Exit(t)
        PROVE  UNCHANGED Once!ovars
    <3>1. ~Return(t)
      BY <2>4 DEF Enter, Check, Mark, Publish, Exit, Return
    <3>2. QED BY <2>1, <2>3, <2>4, <3>1 DEF Inside, Once!ovars
  <2>5. ASSUME NEW t \in Thread, CallsNative(t) \/ NativeReturns(t)
        PROVE  Once!GetReady \/ UNCHANGED Once!ovars
    <3>1. ~Return(t)
      BY <2>5 DEF CallsNative, NativeReturns, Return, Underway, Library
    <3>2. Calling' = Calling /\ Calling # {}
      BY <2>3, <2>5, <3>1 DEF Inside
    <3>3. ReadyOrRaced => ReadyOrRaced'
      BY ReadyStays
    <3>4. ReadyOrRaced \in BOOLEAN /\ ReadyOrRaced' \in BOOLEAN
      BY DEF ReadyOrRaced, Ready
    <3>5. QED BY <3>2, <3>3, <3>4 DEF Once!ovars, Once!GetReady
  <2>6. ASSUME NEW t \in Thread, Return(t) PROVE Once!Back(t)
    <3>1. ReadyOrRaced
      BY <2>6, InvReturnsReady DEF Return, ReturnsReady
    <3>2. t \in Calling /\ Calling' = Calling \ {t}
      BY <2>6 DEF Return
    <3>3. QED BY <2>1, <2>6, <3>1, <3>2 DEF Once!Back
  <2>7. CASE UNCHANGED vars
    BY <2>7 DEF vars, Once!ovars, ReadyOrRaced, Raced, Ready
  <2>8. QED BY <2>2, <2>4, <2>5, <2>6, <2>7 DEF Next, Inside, Once!ONext
<1>3. QED BY InvInit, InvStep, <1>1, <1>2, PTL DEF Spec
=============================================================================
