---------------------------- MODULE MCEnsureInit ----------------------------
(* Small instances of EnsureInit for TLC: who runs where.                  *)
EXTENDS EnsureInit

CONSTANTS worker, timer, main, plugin

\* The worker and a timer run in the AppDomain of a plug-in.
TwoHomes == [t \in Thread |-> IF t \in {worker, timer} THEN plugin ELSE main]
=============================================================================
