--------------------------- MODULE SessionTokens ---------------------------
(***************************************************************************)
(* What a refresh-token store promises its callers (spec 3 and 4.2),       *)
(* independent of how a store keeps its records.                           *)
(*                                                                         *)
(* A token is issued fresh, for a subject, with absolute expiry now + ttl. *)
(* It is live until it is revoked, it expires, or (with rotation) it is    *)
(* consumed; only a live token can be consumed.  A consumption with        *)
(* rotation removes the token and issues a fresh one for the same subject  *)
(* in the same step.  grants counts the successful consumptions of each    *)
(* token, so "at most one per issuance with rotation" is a consequence.    *)
(***************************************************************************)
EXTENDS Naturals, TLC

CONSTANTS
  Tokens,     \* token values
  Subjects,   \* subjects tokens are issued for
  Rotation,   \* the store rotates on Consume
  TTL         \* lifetime given to every issued token

VARIABLES
  issued,     \* every token ever issued
  live,       \* token -> [sub, exp] of the tokens that may be consumed
  grants,     \* token -> number of successful consumptions
  now         \* clock

avars == <<issued, live, grants, now>>

Init == issued = {} /\ live = <<>> /\ grants = <<>> /\ now = 0

Drop(f, t) == [k \in DOMAIN f \ {t} |-> f[k]]

(* A fresh token for subject s becomes live.                               *)
IssueA(t, s) ==
  /\ t \notin issued
  /\ issued' = issued \cup {t}
  /\ live' = (t :> [sub |-> s, exp |-> now + TTL]) @@ live
  /\ grants' = (t :> 0) @@ grants
  /\ UNCHANGED now

(* A live token is consumed; with rotation it leaves and a fresh token n   *)
(* for its subject arrives.                                                *)
Consume(t) ==
  /\ t \in DOMAIN live /\ now < live[t].exp
  /\ IF Rotation
     THEN \E n \in Tokens \ issued :
            /\ issued' = issued \cup {n}
            /\ live' = (n :> [sub |-> live[t].sub, exp |-> now + TTL])
                         @@ Drop(live, t)
            /\ grants' = (n :> 0) @@ [grants EXCEPT ![t] = @ + 1]
     ELSE /\ grants' = [grants EXCEPT ![t] = @ + 1]
          /\ UNCHANGED <<issued, live>>
  /\ UNCHANGED now

(* Revoke: idempotent removal.                                             *)
Revoke(t) ==
  /\ live' = Drop(live, t)
  /\ UNCHANGED <<issued, grants, now>>

(* Time passes; tokens whose expiry is reached stop being live.            *)
Lapse ==
  /\ now' = now + 1
  /\ live' = [k \in {k \in DOMAIN live : now' < live[k].exp} |-> live[k]]
  /\ UNCHANGED <<issued, grants>>

NextA ==
  \/ \E t \in issued : Consume(t) \/ Revoke(t)
  \/ \E t \in Tokens, s \in Subjects : IssueA(t, s)
  \/ Lapse

SpecA == Init /\ [][NextA]_avars
=============================================================================
