--------------------------- MODULE RefreshSession ---------------------------
(***************************************************************************)
(* Refresh tokens: issued at login (LoginOIDCUseCase.Execute and the local *)
(* login), presented to POST /v1/auth/refresh (RefreshUseCase.Execute via  *)
(* userUsecasesAggregator.Refresh) and POST /v1/auth/logout               *)
(* (RefreshUseCase.Revoke via .Logout), stored in the Redis refresh store *)
(* that buildUserComponents wires when Redis and refresh are configured.  *)
(*                                                                         *)
(* The store and RefreshUseCase are not in the source tree; they follow    *)
(* spec 4.2 and 4.5: Issue records a fresh random token with absolute      *)
(* expiry now + ttl, enforced by the store's native TTL; Consume is one    *)
(* atomic operation that fails for an absent or expired token and, with   *)
(* rotation, deletes it and issues a new one for the same subject; Revoke *)
(* deletes and is idempotent.  Without a store, Refresh is refused and     *)
(* Logout succeeds.                                                        *)
(*                                                                         *)
(* Token values are fresh (256 bits of randomness): the model numbers them.*)
(* A token a client holds may have been copied by someone else; both can  *)
(* present it, so any number of requests may carry the same token.        *)
(***************************************************************************)
EXTENDS Naturals, Sequences, FiniteSets, TLC

CONSTANTS
  Subjects,            \* user ids
  RedisAddrSet,        \* cfg.RedisAddr != ""
  RefreshEnabled,      \* cfg.Security.RefreshEnabled
  Rotation,            \* the store rotates on Consume
  RefreshTTLSeconds,   \* cfg.Security.RefreshTTLSeconds, in ticks
  DefaultTTL,          \* 7 days, in ticks
  None,                \* no value
  MaxTokens,           \* bound: tokens issued
  MaxReqs,             \* bound: refresh and logout requests
  MaxTime              \* bound: ticks

VARIABLES
  rt,          \* the store: token -> [sub, exp]
  now,         \* clock
  issued,      \* history: token -> [sub, exp] of every issued token
  reqs         \* refresh and logout requests and their answers

vars == <<rt, now, issued, reqs>>

Tokens == 1 .. MaxTokens
NextToken == Cardinality(DOMAIN issued) + 1

-----------------------------------------------------------------------------
(* buildUserComponents: the use cases get the Redis store only when Redis *)
(* and refresh are both configured.                                        *)
HasStore == RedisAddrSet /\ RefreshEnabled

(* registerAuthRoutes: /refresh and /logout exist when refresh is enabled.*)
RoutesRegistered == RefreshEnabled

(* LoginOIDCUseCase.Execute: a non-positive TTL falls back to 7 days.     *)
IssueTTL == IF RefreshTTLSeconds <= 0 THEN DefaultTTL ELSE RefreshTTLSeconds

(* store.Issue(subject, ttl): a fresh token.                              *)
Issue(s) ==
  /\ NextToken \in Tokens
  /\ LET t == NextToken
         rec == [sub |-> s, exp |-> now + IssueTTL]
     IN /\ rt' = (t :> rec) @@ rt
        /\ issued' = (t :> rec) @@ issued

Init ==
  /\ rt = <<>> /\ now = 0 /\ issued = <<>> /\ reqs = <<>>

(* A login of subject s completes and store.Issue succeeds.                *)
Login(s) ==
  /\ HasStore
  /\ Issue(s)
  /\ UNCHANGED <<now, reqs>>

(* A client presents an issued token to /refresh or /logout.              *)
Send(op, t) ==
  /\ RoutesRegistered
  /\ Len(reqs) < MaxReqs
  /\ reqs' = Append(reqs, [op |-> op, tok |-> t, status |-> None])
  /\ UNCHANGED <<rt, now, issued>>

Answer(r, status) == reqs' = [reqs EXCEPT ![r].status = status]

(* Mutation: the rotated token keeps the expiry of the one it replaces.   *)
RefreshRotatingWithOldExpiry(r) ==
  LET t == reqs[r].tok IN
  /\ reqs[r].op = "refresh" /\ reqs[r].status = None
  /\ \/ /\ ~HasStore \/ t \notin DOMAIN rt
        /\ Answer(r, "unauthorized") /\ UNCHANGED <<rt, issued>>
     \/ /\ HasStore /\ t \in DOMAIN rt
        /\ Answer(r, "ok")
        /\ IF Rotation
           THEN /\ NextToken \in Tokens
                /\ LET n == NextToken
                       rec == [sub |-> rt[t].sub, exp |-> rt[t].exp]
                   IN /\ rt' = (n :> rec) @@ [k \in DOMAIN rt \ {t} |-> rt[k]]
                      /\ issued' = (n :> rec) @@ issued
           ELSE UNCHANGED <<rt, issued>>
  /\ UNCHANGED now

(* Refresh: Consume(token) as one atomic store operation; with rotation   *)
(* the token is deleted and a new one for the same subject is issued in   *)
(* the same operation; then TokenService.Sign.  A rotation that cannot    *)
(* issue (token bound reached) is not explored.                            *)
Refresh(r) ==
  LET t == reqs[r].tok IN
  /\ reqs[r].op = "refresh" /\ reqs[r].status = None
  /\ \/ /\ ~HasStore \/ t \notin DOMAIN rt
        /\ Answer(r, "unauthorized") /\ UNCHANGED <<rt, issued>>
     \/ /\ HasStore /\ t \in DOMAIN rt
        /\ Answer(r, "ok")
        /\ IF Rotation
           THEN /\ NextToken \in Tokens
                /\ LET n == NextToken
                       rec == [sub |-> rt[t].sub, exp |-> now + IssueTTL]
                   IN /\ rt' = (n :> rec) @@ [k \in DOMAIN rt \ {t} |-> rt[k]]
                      /\ issued' = (n :> rec) @@ issued
           ELSE UNCHANGED <<rt, issued>>
  /\ UNCHANGED now

(* Logout: Revoke(token), idempotent, always a success.                    *)
Logout(r) ==
  LET t == reqs[r].tok IN
  /\ reqs[r].op = "logout" /\ reqs[r].status = None
  /\ rt' = [k \in DOMAIN rt \ {t} |-> rt[k]]
  /\ Answer(r, "ok")
  /\ UNCHANGED <<now, issued>>

(* Time passes; the store's TTL removes every key whose expiry is reached.*)
Tick ==
  /\ now < MaxTime
  /\ now' = now + 1
  /\ rt' = [k \in {k \in DOMAIN rt : now' < rt[k].exp} |-> rt[k]]
  /\ UNCHANGED <<issued, reqs>>

Next ==
  \/ \E s \in Subjects : Login(s)
  \/ \E op \in {"refresh", "logout"}, t \in DOMAIN issued : Send(op, t)
  \/ \E r \in DOMAIN reqs : Refresh(r) \/ Logout(r)
  \/ Tick

Spec == Init /\ [][Next]_vars

-----------------------------------------------------------------------------
(* Successful refreshes per issued token, as the callers observe them.     *)
Grants ==
  [t \in DOMAIN issued |->
     Cardinality({r \in DOMAIN reqs : reqs[r].op = "refresh" /\ reqs[r].tok = t
                                     /\ reqs[r].status = "ok"})]

Contract == INSTANCE SessionTokens
              WITH TTL <- IssueTTL, issued <- DOMAIN issued, live <- rt,
                   grants <- Grants

(* Spec 4.2, the whole store contract as the refresh and logout endpoints *)
(* meet it: tokens are fresh and live for the configured TTL from their   *)
(* issue, a refresh succeeds only with a live token, rotation replaces it *)
(* in the same step by a fresh token of the same subject, and logout and  *)
(* expiry end a token for good.                                            *)
RefinesSessionTokens == Contract!SpecA
=============================================================================
