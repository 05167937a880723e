---------------------------- MODULE TokenService ----------------------------
(***************************************************************************)
(* Access tokens across service instances: initJWTService                 *)
(* (cmd/api/bootstrap.go) builds each instance's JWT service at start, the *)
(* instance signs tokens for logins and refreshes, and the JWTAuth         *)
(* validator of buildRouter verifies the tokens clients present to         *)
(* protected routes, at whichever instance the load balancer picks.       *)
(*                                                                         *)
(* The JWT service is not in the source tree; it follows spec 4.1: a token *)
(* carries the key id it was signed under and expires at iat + ttl;        *)
(* Verify accepts it when that key id is registered for verification and   *)
(* now <= exp + leeway.  NewJWTService(secret, ttl) signs and verifies    *)
(* with the shared secret; ConfigureAlgorithm switches to the configured   *)
(* key id, registering it and the keys of PublicKeysDir for verification, *)
(* and on error (the private key cannot be read) leaves the service as it *)
(* was.  Issuer, audience and not-before are the same on every instance    *)
(* and are left out.                                                       *)
(*                                                                         *)
(* Key rotation is a configuration change followed by restarts: a new key *)
(* id becomes cfg.JWT.KID and the earlier ones stay in PublicKeysDir.      *)
(***************************************************************************)
EXTENDS Naturals, Sequences, FiniteSets

CONSTANTS
  Instances,      \* service processes behind the load balancer
  NumKids,        \* key ids 1 .. NumKids, used in rotation order
  Secret,         \* the key id of cfg.JWT.Secret (HS fallback)
  HasConfigure,   \* the service implements ConfigureAlgorithm
  KeyLoadFails,   \* reading the configured private key may fail at a start
  TTL,            \* cfg.JWT.ExpireSec, in ticks
  Leeway,         \* cfg.JWT.LeewaySec, in ticks
  MaxTokens,      \* bound: tokens signed
  MaxTime         \* bound: ticks

Kids == 1 .. NumKids

VARIABLES
  cfg,      \* the deployed configuration: [ver, kid, pub] (KID, PublicKeysDir)
  svc,      \* instance -> [up, sign, verify, ver]: its JWT service
  tokens,   \* every token signed: [kid, exp, ver]
  now       \* clock

tvars == <<cfg, svc, tokens, now>>

Down == [up |-> FALSE, sign |-> Secret, verify |-> {Secret}, ver |-> 0]

TSInit ==
  /\ cfg = [ver |-> 1, kid |-> 1, pub |-> {}]
  /\ svc = [i \in Instances |-> Down]
  /\ tokens = <<>>
  /\ now = 0

-----------------------------------------------------------------------------
(* NewJWTService(cfg.JWT.Secret, cfg.JWT.ExpireSec).                       *)
NewJWTService == [up |-> TRUE, sign |-> Secret, verify |-> {Secret},
                  ver |-> cfg.ver]

(* ConfigureAlgorithm with the configured key id and PublicKeysDir.       *)
Configured(s) == [s EXCEPT !.sign = cfg.kid, !.verify = cfg.pub \cup {cfg.kid}]

(* Whether reading the configured private key succeeds at a start.       *)
KeyLoads == IF KeyLoadFails THEN BOOLEAN ELSE {TRUE}

(* initJWTService at the (re)start of instance i: NewJWTService, SetMeta   *)
(* when implemented, ConfigureAlgorithm when implemented, its error        *)
(* discarded: when the key cannot be read the instance serves with the    *)
(* secret.                                                                 *)
InitJWTService(i) ==
  /\ \E loaded \in KeyLoads :
       svc' = [svc EXCEPT ![i] = IF HasConfigure /\ loaded
                                 THEN Configured(NewJWTService)
                                 ELSE NewJWTService]
  /\ UNCHANGED <<cfg, tokens, now>>

(* GenerateToken at instance i, for a login or a refresh it serves.        *)
Sign(i) ==
  /\ svc[i].up /\ Len(tokens) < MaxTokens
  /\ tokens' = Append(tokens, [kid |-> svc[i].sign, exp |-> now + TTL,
                               ver |-> svc[i].ver])
  /\ UNCHANGED <<cfg, svc, now>>

(* ValidateToken of the instance's service, called by the validator       *)
(* closure of buildRouter: the key is registered, now <= exp + leeway.    *)
Accepts(s, t) == s.up /\ t.kid \in s.verify /\ now <= t.exp + Leeway

(* A rotation: the next key id becomes cfg.JWT.KID, the current one moves *)
(* to PublicKeysDir.                                                       *)
Rotate ==
  /\ cfg.kid + 1 \in Kids
  /\ cfg' = [ver |-> cfg.ver + 1, kid |-> cfg.kid + 1,
             pub |-> cfg.pub \cup {cfg.kid}]
  /\ UNCHANGED <<svc, tokens, now>>

TSTick ==
  /\ now < MaxTime
  /\ now' = now + 1
  /\ UNCHANGED <<cfg, svc, tokens>>

TSNext ==
  \/ \E i \in Instances : InitJWTService(i) \/ Sign(i)
  \/ Rotate
  \/ TSTick

TSSpec == TSInit /\ [][TSNext]_tvars

-----------------------------------------------------------------------------
(* Spec 4.1 and 8 (key rotation): a token stays verifiable until it        *)
(* expires at every instance started with the configuration it was signed *)
(* under or a later one, whichever instance signed it and however          *)
(* rotations and restarts interleave with its life.                        *)
TokensVerifyAtNewerInstances ==
  \A n \in 1 .. Len(tokens), i \in Instances :
    svc[i].up /\ svc[i].ver >= tokens[n].ver /\ now < tokens[n].exp
      => Accepts(svc[i], tokens[n])
=============================================================================
