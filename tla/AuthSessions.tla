---------------------------- MODULE AuthSessions ----------------------------
(***************************************************************************)
(* Sessions as spec 2 composes them: a login served by an instance signs  *)
(* an access token with that instance's JWT service and issues a refresh  *)
(* token in the shared store; a successful refresh at an instance consumes *)
(* the refresh token and signs a new access token there; logout revokes.   *)
(* Instances restart (initJWTService) and keys rotate meanwhile, and every *)
(* access token meets the instances it is presented to.                    *)
(*                                                                         *)
(* The two components share the clock; each keeps its own state.         *)
(***************************************************************************)
EXTENDS Naturals, Sequences

CONSTANTS
  Subjects, RedisAddrSet, RefreshEnabled, Rotation, RefreshTTLSeconds,
  DefaultTTL, None, MaxRefreshTokens, MaxReqs, MaxTime,
  Instances, NumKids, Secret, HasConfigure, KeyLoadFails, TTL, Leeway,
  MaxAccessTokens

VARIABLES rt, issued, reqs, cfg, svc, tokens, now

vars == <<rt, issued, reqs, cfg, svc, tokens, now>>
rsOnly == <<rt, issued, reqs>>
tsOnly == <<cfg, svc, tokens>>

RS == INSTANCE RefreshSession WITH MaxTokens <- MaxRefreshTokens
TS == INSTANCE TokenService WITH MaxTokens <- MaxAccessTokens

Init == RS!Init /\ TS!TSInit

(* GenerateToken at instance i.  Tokens beyond the bound are signed but   *)
(* not recorded, so the bound never blocks a login or a refresh.           *)
Mint(i) == IF Len(tokens) < MaxAccessTokens THEN TS!Sign(i) ELSE UNCHANGED tsOnly

(* A login of subject s served by instance i: GenerateToken, then          *)
(* store.Issue (LoginOIDCUseCase.Execute, the local login of spec 4.5).    *)
Login(s, i) == svc[i].up /\ RS!Login(s) /\ Mint(i)

(* POST /refresh at instance i: Consume, and on success a new access token *)
(* signed by that instance.                                                 *)
Refresh(r, i) ==
  /\ svc[i].up
  /\ RS!Refresh(r)
  /\ IF reqs'[r].status = "ok" THEN Mint(i) ELSE UNCHANGED tsOnly

(* POST /logout at instance i.                                              *)
Logout(r, i) == svc[i].up /\ RS!Logout(r) /\ UNCHANGED tsOnly

Next ==
  \/ \E s \in Subjects, i \in Instances : Login(s, i)
  \/ \E op \in {"refresh", "logout"}, t \in DOMAIN issued :
       RS!Send(op, t) /\ UNCHANGED tsOnly
  \/ \E r \in DOMAIN reqs, i \in Instances : Refresh(r, i) \/ Logout(r, i)
  \/ \E i \in Instances : TS!InitJWTService(i) /\ UNCHANGED rsOnly
  \/ TS!Rotate /\ UNCHANGED rsOnly
  \/ RS!Tick /\ UNCHANGED tsOnly

Spec == Init /\ [][Next]_vars

-----------------------------------------------------------------------------
(* The properties of the components, checked in the composition.           *)
RefinesSessionTokens == RS!RefinesSessionTokens
TokensVerifyAtNewerInstances == TS!TokensVerifyAtNewerInstances
=============================================================================
