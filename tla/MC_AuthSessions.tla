-------------------------- MODULE MC_AuthSessions --------------------------
(* One subject, two instances, two key ids, Redis and refresh configured  *)
(* with rotation.  No refresh TTL is configured, so the default of two    *)
(* ticks applies; access tokens live two ticks with one tick of leeway.   *)
(* Within three ticks a session can log in at one instance, be refreshed  *)
(* twice (concurrently by two holders), logged out and expire, while the  *)
(* key rotates and the other instance restarts.                           *)
EXTENDS AuthSessions, TLC

(* Instances are interchangeable: nothing in the model orders them.       *)
InstanceSymmetry == Permutations(Instances)
=============================================================================
