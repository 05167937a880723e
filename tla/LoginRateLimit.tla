--------------------------- MODULE LoginRateLimit ---------------------------
(***************************************************************************)
(* Admission control of POST /v1/auth/login across service instances.    *)
(*                                                                         *)
(* The handler chain of the route is fixed by registerAuthRoutes           *)
(* (interfaces/http/router/auth.go) and buildRouter (cmd/api/bootstrap.go)*)
(* from the configuration: an in-memory per-IP limiter on the login group *)
(* when RPS and burst are positive, JSON validation, a Redis per-email     *)
(* limiter when Redis is configured, and the login handler.  buildRouter  *)
(* then adds a Redis per-IP limiter with router.Use.  In gin a route's     *)
(* chain is copied from its group's middleware list when the route is      *)
(* registered, so middleware added to the engine afterwards does not run  *)
(* on routes registered before it; the model composes chains that way.    *)
(*                                                                         *)
(* The limiters themselves (middleware.RateLimitForPath, the Redis        *)
(* limiter) are not in the source tree; they are token buckets as spec     *)
(* 4.3 describes: capacity Burst, RPS tokens per tick, one token per       *)
(* admission, and the Redis step is one atomic operation on the shared    *)
(* store.  Refill is applied at each tick instead of lazily at the next   *)
(* Allow; for whole ticks the admissions are the same.                     *)
(***************************************************************************)
EXTENDS Naturals, Sequences, FiniteSets, TLC

CONSTANTS
  Instances,    \* service processes behind the load balancer
  IPs,          \* client addresses
  Emails,       \* identifiers submitted in login bodies
  RPS,          \* cfg.HTTP.LoginRateLimitRPS, tokens per tick
  Burst,        \* cfg.HTTP.LoginRateLimitBurst, bucket capacity
  RedisAddrSet, \* cfg.RedisAddr != ""
  FailClosed,   \* cfg.HTTP.LoginRateLimitFailClosed
  MaxReqs,      \* bound: login requests
  MaxTime       \* bound: ticks

ASSUME RPS \in Nat /\ Burst \in Nat /\ MaxReqs \in Nat /\ MaxTime \in Nat

VARIABLES
  memBucket,    \* per instance, per IP: tokens of the in-memory limiter
  redisBucket,  \* per key: tokens of the shared Redis limiter
  redisUp,      \* the Redis server is reachable
  reqs,         \* login requests and their position in the chain
  now,          \* ticks elapsed
  admitted      \* history: requests that reached userHandler.Login

vars == <<memBucket, redisBucket, redisUp, reqs, now, admitted>>

RedisKeys == {<<"ip", ip>> : ip \in IPs} \cup {<<"email", e>> : e \in Emails}

-----------------------------------------------------------------------------
(* registerAuthRoutes, POST /login: the group limiter when rate limiting  *)
(* is configured, ValidateJSON[LoginRequest], the per-email Redis limiter *)
(* when Redis is configured, then userHandler.Login.                       *)
LimitEnabled == RPS > 0 /\ Burst > 0
AuthLoginChain ==
  IF LimitEnabled
  THEN <<"memIP">> \o <<"validate">>
       \o (IF RedisAddrSet THEN <<"redisEmail">> ELSE <<>>) \o <<"handler">>
  ELSE <<"validate", "handler">>

(* gin: a route registered on a group runs the group's middleware as it   *)
(* was at registration, followed by the route's own handlers.             *)
Registered(groupMiddleware, routeHandlers) == groupMiddleware \o routeHandlers

(* buildRouter: routerpkg.New registers every route while the engine has *)
(* no limiter; only then, with Redis configured, router.Use appends the   *)
(* Redis per-IP limiter to the engine, after the login route was fixed.   *)
EngineMiddlewareAtRegistration == <<>>
LoginChain == Registered(EngineMiddlewareAtRegistration, AuthLoginChain)

-----------------------------------------------------------------------------
(* Token bucket: admit and take a token when one is left.                  *)
Allow(tokens) == tokens >= 1

Init ==
  /\ memBucket = [i \in Instances |-> [ip \in IPs |-> Burst]]
  /\ redisBucket = [k \in RedisKeys |-> Burst]
  /\ redisUp = TRUE
  /\ reqs = <<>>
  /\ now = 0
  /\ admitted = <<>>

(* A client sends a login request; the load balancer picks an instance.  *)
Send(i, ip, e, valid) ==
  /\ Len(reqs) < MaxReqs
  /\ reqs' = Append(reqs, [inst |-> i, ip |-> ip, email |-> e,
                           valid |-> valid, pc |-> 1, status |-> "running",
                           passed |-> now])
  /\ UNCHANGED <<memBucket, redisBucket, redisUp, now, admitted>>

Advance(r) == reqs' = [reqs EXCEPT ![r].pc = @ + 1]
(* Past a Redis limiter at this tick (for the bound of its window).      *)
Pass(r) == reqs' = [reqs EXCEPT ![r].pc = @ + 1, ![r].passed = now]
Stop(r, status) == reqs' = [reqs EXCEPT ![r].status = status]
At(r, m) == reqs[r].status = "running" /\ LoginChain[reqs[r].pc] = m

(* The in-memory per-IP limiter of the instance that got the request.    *)
MemIPLimit(r) ==
  LET q == reqs[r] IN
  /\ At(r, "memIP")
  /\ \/ /\ Allow(memBucket[q.inst][q.ip])
        /\ memBucket' = [memBucket EXCEPT ![q.inst][q.ip] = @ - 1]
        /\ Advance(r)
     \/ /\ ~Allow(memBucket[q.inst][q.ip])
        /\ Stop(r, "429") /\ UNCHANGED memBucket
  /\ UNCHANGED <<redisBucket, redisUp, now, admitted>>

(* ValidateJSON: a body that does not bind is refused with 400.          *)
ValidateJSON(r) ==
  /\ At(r, "validate")
  /\ IF reqs[r].valid THEN Advance(r) ELSE Stop(r, "400")
  /\ UNCHANGED <<memBucket, redisBucket, redisUp, now, admitted>>

(* The key of the Redis limiter at the request's position in the chain.  *)
RedisKey(r) ==
  IF LoginChain[reqs[r].pc] = "redisIP" THEN <<"ip", reqs[r].ip>>
                                        ELSE <<"email", reqs[r].email>>

(* Mutation: an unreachable Redis always admits (the fail-closed setting  *)
(* is not applied).                                                        *)
RedisLimitFailOpen(r) ==
  LET k == RedisKey(r) IN
  /\ reqs[r].status = "running"
  /\ LoginChain[reqs[r].pc] \in {"redisEmail", "redisIP"}
  /\ \/ /\ redisUp /\ Allow(redisBucket[k])
        /\ redisBucket' = [redisBucket EXCEPT ![k] = @ - 1]
        /\ Pass(r)
     \/ /\ redisUp /\ ~Allow(redisBucket[k])
        /\ Stop(r, "429") /\ UNCHANGED redisBucket
     \/ /\ ~redisUp /\ Pass(r) /\ UNCHANGED redisBucket
  /\ UNCHANGED <<memBucket, redisUp, now, admitted>>

(* A Redis limiter: one atomic check-and-decrement on the shared store;   *)
(* when Redis is unreachable the configured policy decides.                *)
RedisLimit(r) ==
  LET k == RedisKey(r) IN
  /\ reqs[r].status = "running"
  /\ LoginChain[reqs[r].pc] \in {"redisEmail", "redisIP"}
  /\ \/ /\ redisUp /\ Allow(redisBucket[k])
        /\ redisBucket' = [redisBucket EXCEPT ![k] = @ - 1]
        /\ Pass(r)
     \/ /\ redisUp /\ ~Allow(redisBucket[k])
        /\ Stop(r, "429") /\ UNCHANGED redisBucket
     \/ /\ ~redisUp
        /\ IF FailClosed THEN Stop(r, "429") ELSE Pass(r)
        /\ UNCHANGED redisBucket
  /\ UNCHANGED <<memBucket, redisUp, now, admitted>>

(* userHandler.Login runs: the request was admitted.                       *)
Handle(r) ==
  /\ At(r, "handler")
  /\ Stop(r, "handled")
  /\ admitted' = Append(admitted, [ip |-> reqs[r].ip, email |-> reqs[r].email,
                                   at |-> reqs[r].passed])
  /\ UNCHANGED <<memBucket, redisBucket, redisUp, now>>

(* A tick: every bucket gains RPS tokens, up to Burst.                     *)
Refill(t) == IF t + RPS > Burst THEN Burst ELSE t + RPS
Tick ==
  /\ now < MaxTime
  /\ now' = now + 1
  /\ memBucket' = [i \in Instances |-> [ip \in IPs |-> Refill(memBucket[i][ip])]]
  /\ redisBucket' = [k \in RedisKeys |-> Refill(redisBucket[k])]
  /\ UNCHANGED <<redisUp, reqs, admitted>>

(* The Redis server becomes unreachable or reachable again.                *)
RedisFlip ==
  /\ RedisAddrSet
  /\ redisUp' = ~redisUp
  /\ UNCHANGED <<memBucket, redisBucket, reqs, now, admitted>>

Next ==
  \/ \E i \in Instances, ip \in IPs, e \in Emails, v \in BOOLEAN : Send(i, ip, e, v)
  \/ \E r \in DOMAIN reqs :
       \/ MemIPLimit(r)
       \/ ValidateJSON(r)
       \/ RedisLimit(r)
       \/ Handle(r)
  \/ Tick
  \/ RedisFlip

Spec == Init /\ [][Next]_vars

-----------------------------------------------------------------------------
AdmittedWith(field, v) == Len(SelectSeq(admitted, LAMBDA a : a[field] = v))
AdmittedSince(field, v, t) ==
  Len(SelectSeq(admitted, LAMBDA a : a[field] = v /\ a.at >= t))

(* Credential-stuffing bound per account (spec 4.3): across all instances, *)
(* in every window from tick t to now, the requests for one email that    *)
(* reach the login handler never exceed the bucket's capacity plus its    *)
(* refill in the window, so an idle period cannot be saved up for a       *)
(* larger burst later.                                                     *)
EmailAdmissionBounded ==
  RedisAddrSet /\ LimitEnabled =>
    \A e \in Emails, t \in 0 .. now :
      AdmittedSince("email", e, t) <= Burst + RPS * (now - t)

(* Per-IP bound in distributed mode (spec 4.3, buildRouter's Redis per-IP  *)
(* limiter): across all instances, the requests from one address that     *)
(* reach the login handler never exceed capacity plus refill.              *)
IPAdmissionBounded ==
  RedisAddrSet /\ LimitEnabled =>
    \A ip \in IPs : AdmittedWith("ip", ip) <= Burst + RPS * now

=============================================================================
