------------------------------ MODULE MCHandles ------------------------------
(* A small instance of Handles for TLC.                                    *)
EXTENDS Handles
=============================================================================
