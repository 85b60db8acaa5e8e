---------------------------- MODULE MCLogIngest -----------------------------
(* Small instances of LogIngest for TLC.                                   *)
EXTENDS LogIngest
=============================================================================
