---------------------------- MODULE MCAuthSessions ----------------------------
(* The values of the instances of AuthSessions.                              *)
EXTENDS AuthSessions, TLC

CONSTANTS claude, click1, server
=============================================================================
