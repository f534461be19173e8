---------------------------- MODULE MCCredentials ----------------------------
(* Credentials with a few handlers. *)
EXTENDS Credentials

MCHandler == {"stored", "prompt", "sso"}
=============================================================================
