-------------------------- MODULE MC_TokenService --------------------------
(* Two instances and two key ids: a token signed under the first key at   *)
(* one instance can meet a rotation and a restart of the other instance   *)
(* before it expires.                                                      *)
EXTENDS TokenService
=============================================================================
