------------------------------ MODULE OnceInit ------------------------------
(***************************************************************************)
(* What GitBase::EnsureInitialized promises its callers: a call returns    *)
(* only when the native libraries are ready, every call returns, and they  *)
(* never stop being ready.                                                 *)
(***************************************************************************)
CONSTANT Thread

VARIABLES calling,  \* the threads whose call has not returned
          ready     \* the libraries can be used

ovars == <<calling, ready>>

OInit == calling = {} /\ ready = FALSE

Call(t) == t \notin calling /\ calling' = calling \cup {t} /\ UNCHANGED ready
GetReady == calling # {} /\ ready' = TRUE /\ UNCHANGED calling
Back(t) == ready /\ t \in calling /\ calling' = calling \ {t} /\ UNCHANGED ready

ONext == GetReady \/ \E t \in Thread : Call(t) \/ Back(t)

OSpec == /\ OInit /\ [][ONext]_ovars
         /\ WF_ovars(GetReady /\ ~ready)
         /\ \A t \in Thread : WF_ovars(Back(t))
=============================================================================
