----------------------------- MODULE EntraLogin -----------------------------
(***************************************************************************)
(* Federated (Entra ID / OIDC) login: EntraHandler.Login and .Callback of *)
(* internal/interfaces/http/handler/entra_handler.go, composed with the    *)
(* state store (OIDCStateStore), the identity provider, and              *)
(* LoginOIDCUseCase.Execute of usecase/userusecase/login_oidc.go.          *)
(*                                                                         *)
(* Requests are handled concurrently; a callback is three steps because    *)
(* the handler makes two calls whose interleaving with other requests      *)
(* matters: GetAndDelete on the shared state store, and the code exchange  *)
(* with the IdP, which spends the single-use authorization code.  ID-token *)
(* verification and the claim checks touch no shared state and are part   *)
(* of the exchange step.                                                   *)
(*                                                                         *)
(* A handshake h is one call of Login.  Its three random values (state,    *)
(* code verifier, nonce) are independent 192/384-bit values that never    *)
(* collide, so the model names all three by h.                             *)
(*                                                                         *)
(* Browsers follow redirects and may resend a callback URL (reload, back   *)
(* button).  Every request reaches an instance the load balancer picks;   *)
(* registerAuthRoutes builds each instance's EntraHandler with a nil      *)
(* store, so each process has its own InMemoryStateStore: the store is    *)
(* keyed by <<instance, state>>.  (The per-process gc goroutines are one  *)
(* sweep step; a sweep removes only expired entries.)  One browser,       *)
(* Attacker, may also sign in at the IdP with       *)
(* hand-edited authorization parameters and may make any browser open a   *)
(* callback URL it built from its own state values and codes (a forged    *)
(* link or auto-submitting page).                                          *)
(***************************************************************************)
EXTENDS Naturals, Sequences, FiniteSets, Functions, TLC

CONSTANTS
  Instances,       \* service processes behind the load balancer
  Browsers,        \* user agents
  Attacker,        \* the browser controlled by the adversary
  Owner,           \* Owner[b]: the IdP account b signs in with
  AttackerEmails,  \* IdP accounts the adversary controls (NoEmail: one
                   \* whose ID token carries no email claim)
  Provisioned,     \* emails with a local user (repo.GetByEmail succeeds)
  HasRefreshStore, \* uc.store != nil (bootstrap.go: Redis and refresh on)
  NoEmail,         \* ID token without an email claim
  None,            \* absent query parameter / no challenge or nonce
  StateTTL,        \* 10 minutes in Login, in ticks
  MaxTime,         \* bound: last tick explored
  MaxLogins,       \* bound: calls of Login
  MaxCodes,        \* bound: authorization codes issued by the IdP
  MaxReqs          \* bound: callback requests

ASSUME Attacker \in Browsers /\ Owner[Attacker] \in AttackerEmails

VARIABLES
  data, now,   \* the state store and the clock (OIDCStateStore)
  hs,          \* hs[h]: the browser that called Login for handshake h
  codes,       \* the IdP's authorization codes
  reqs,        \* callback requests and how far each has been handled
  sessions     \* token pairs returned by resp.OK(c, lr)

vars == <<data, now, hs, codes, reqs, sessions>>

Handshakes == 1 .. MaxLogins
Store == INSTANCE OIDCStateStore WITH
           States <- Instances \X Handshakes, Payloads <- Handshakes,
           saved <- {}, taken <- {}

Code == [by : Browsers, chal : Handshakes \cup {None},
         nonce : Handshakes \cup {None},
         email : AttackerEmails \cup Range(Owner),
         used : BOOLEAN]
PC == {"start", "exchange", "issue", "done", "failed"}
Req == [from : Browsers, at : Instances, state : Handshakes \cup {None},
        code : (1 .. MaxCodes) \cup {None}, pc : PC,
        sd : Store!StateData \cup {None},
        email : AttackerEmails \cup Range(Owner) \cup {None}]
Session == [req : 1 .. MaxReqs, to : Browsers, email : Provisioned,
            h : Handshakes, refresh : BOOLEAN]

NewReq(b, st, c, i) ==
  [from |-> b, at |-> i, state |-> st, code |-> c, pc |-> "start", sd |-> None,
   email |-> None]

(* The IdP accounts browser b can sign in with.                            *)
Accounts(b) == IF b = Attacker THEN AttackerEmails ELSE {Owner[b]}

(* Handshakes and codes the adversary knows: those it obtained itself.    *)
AttackerStates == {h \in DOMAIN hs : hs[h] = Attacker}
AttackerCodes == {c \in DOMAIN codes : codes[c].by = Attacker}

-----------------------------------------------------------------------------
Init ==
  /\ data = <<>> /\ now = 0
  /\ hs = <<>> /\ codes = <<>> /\ reqs = <<>> /\ sessions = {}

(* Login at instance i: three random values, Save(state, {verifier, nonce, *)
(* now+10m}) in i's store, then a redirect carrying state, nonce and the  *)
(* verifier as a plain code_challenge.                                     *)
Login(b, i) ==
  /\ Len(hs) < MaxLogins
  /\ LET h == Len(hs) + 1 IN
       /\ hs' = Append(hs, b)
       /\ Store!Save(<<i, h>>, [CodeVerifier |-> h, Nonce |-> h,
                         ExpiresAt |-> now + StateTTL])
  /\ UNCHANGED <<codes, reqs, sessions>>

(* The browser follows the authorization URL of its handshake, signs in,   *)
(* and the IdP redirects it to /entra/callback?state=h&code=c.  A reload  *)
(* of the authorization URL repeats this and yields a second code.        *)
Authorize(b, h, e, i) ==
  /\ hs[h] = b
  /\ e \in Accounts(b)
  /\ Len(codes) < MaxCodes /\ Len(reqs) < MaxReqs
  /\ codes' = Append(codes, [by |-> b, chal |-> h, nonce |-> h,
                             email |-> e, used |-> FALSE])
  /\ reqs' = Append(reqs, NewReq(b, h, Len(codes) + 1, i))
  /\ UNCHANGED <<data, now, hs, sessions>>

(* The adversary follows the authorization URL of one of its own          *)
(* handshakes with the nonce parameter removed, signs in, and keeps the    *)
(* code instead of following the redirect.                                 *)
AttackerAuthorize(h) ==
  /\ hs[h] = Attacker
  /\ Len(codes) < MaxCodes
  /\ codes' = Append(codes, [by |-> Attacker, chal |-> h, nonce |-> None,
                             email |-> Owner[Attacker], used |-> FALSE])
  /\ UNCHANGED <<data, now, hs, reqs, sessions>>

(* A browser sends a callback URL again.                                  *)
Resend(r, i) ==
  /\ Len(reqs) < MaxReqs
  /\ reqs' = Append(reqs, NewReq(reqs[r].from, reqs[r].state, reqs[r].code, i))
  /\ UNCHANGED <<data, now, hs, codes, sessions>>

(* Browser b opens a callback URL built by the adversary.                  *)
Forge(b, st, c, i) ==
  /\ Len(reqs) < MaxReqs
  /\ reqs' = Append(reqs, NewReq(b, st, c, i))
  /\ UNCHANGED <<data, now, hs, codes, sessions>>

-----------------------------------------------------------------------------
(* Callback, first part: the missing-parameter check, then                 *)
(* stateStore.GetAndDelete(state) on the serving instance's store;         *)
(* "invalid state" unless found.                                           *)
CallbackState(r) ==
  LET q == reqs[r]
      key == <<q.at, q.state>>
  IN
  /\ q.pc = "start"
  /\ \/ /\ q.state = None \/ q.code = None
        /\ reqs' = [reqs EXCEPT ![r].pc = "failed"]
        /\ UNCHANGED <<data, now>>
     \/ /\ q.state # None /\ q.code # None
        /\ Store!GetAndDelete(key)
        /\ reqs' = [reqs EXCEPT ![r] =
                      IF Store!Found(key)
                      THEN [q EXCEPT !.pc = "exchange",
                                     !.sd = Store!Lookup(key)]
                      ELSE [q EXCEPT !.pc = "failed"]]
  /\ UNCHANGED <<hs, codes, sessions>>

(* The IdP's token endpoint redeems an unused code when the code_verifier  *)
(* matches its code_challenge (plain), or when it was issued without one. *)
Redeemable(c, verifier) ==
  /\ ~codes[c].used
  /\ codes[c].chal \in {None, verifier}

(* Callback, second part: Exchange(code, code_verifier), the id_token      *)
(* extra, verifier.Verify, the claims, the nonce check and the email      *)
(* check.  The exchange can fail in transport before or after the IdP     *)
(* spent the code.                                                         *)
CallbackExchange(r) ==
  LET q == reqs[r]
      c == q.code
      spend == codes' = [codes EXCEPT ![c].used = TRUE]
      fail == reqs' = [reqs EXCEPT ![r].pc = "failed"]
  IN
  /\ q.pc = "exchange"
  /\ \/ /\ ~Redeemable(c, q.sd.CodeVerifier)
        /\ fail /\ UNCHANGED codes
     \/ \* "oauth exchange failed" or "invalid id_token" on a transport error
        /\ fail
        /\ \/ UNCHANGED codes
           \/ Redeemable(c, q.sd.CodeVerifier) /\ spend
     \/ /\ Redeemable(c, q.sd.CodeVerifier)
        /\ spend
        /\ \/ \* "nonce mismatch"
              /\ codes[c].nonce = None \/ codes[c].nonce # q.sd.Nonce
              /\ fail
           \/ \* "email not provided by provider"
              /\ codes[c].nonce # None /\ codes[c].nonce = q.sd.Nonce
              /\ codes[c].email = NoEmail
              /\ fail
           \/ /\ codes[c].nonce # None /\ codes[c].nonce = q.sd.Nonce
              /\ codes[c].email # NoEmail
              /\ reqs' = [reqs EXCEPT ![r].pc = "issue",
                                      ![r].email = codes[c].email]
  /\ UNCHANGED <<data, now, hs, sessions>>

(* Mutation: a user is created on the fly instead of GetByEmail failing.  *)
CallbackIssueWithoutUserLookup(r) ==
  LET q == reqs[r] IN
  /\ q.pc = "issue"
  /\ reqs' = [reqs EXCEPT ![r].pc = "done"]
  /\ sessions' = sessions \cup {[req |-> r, to |-> q.from, email |-> q.email,
                                 h |-> q.sd.Nonce, refresh |-> HasRefreshStore]}
  /\ UNCHANGED <<data, now, hs, codes>>

(* Callback, last part: uc.LoginOIDC(email).  GetByEmail fails for an     *)
(* email with no local user, GenerateToken may fail for any user; both    *)
(* answer "token issue failed".  Otherwise, when a refresh store is       *)
(* configured, it calls store.Issue, whose error is discarded: refresh is *)
(* then "".                                                                *)
CallbackIssue(r) ==
  LET q == reqs[r] IN
  /\ q.pc = "issue"
  /\ \/ /\ reqs' = [reqs EXCEPT ![r].pc = "failed"]
        /\ UNCHANGED sessions
     \/ /\ q.email \in Provisioned
        /\ reqs' = [reqs EXCEPT ![r].pc = "done"]
        /\ \E issued \in IF HasRefreshStore THEN BOOLEAN ELSE {FALSE} :
             sessions' = sessions \cup
               {[req |-> r, to |-> q.from, email |-> q.email,
                 h |-> q.sd.Nonce, refresh |-> issued]}
  /\ UNCHANGED <<data, now, hs, codes>>

-----------------------------------------------------------------------------
Next ==
  \/ \E b \in Browsers, i \in Instances : Login(b, i)
  \/ \E b \in Browsers, h \in DOMAIN hs, i \in Instances :
       \E e \in Accounts(b) : Authorize(b, h, e, i)
  \/ \E h \in AttackerStates : AttackerAuthorize(h)
  \/ \E r \in DOMAIN reqs, i \in Instances : Resend(r, i)
  \/ \E b \in Browsers, st \in AttackerStates \cup {None},
        c \in AttackerCodes \cup {None}, i \in Instances : Forge(b, st, c, i)
  \/ \E r \in DOMAIN reqs :
       CallbackState(r) \/ CallbackExchange(r) \/ CallbackIssue(r)
  \/ Store!Gc /\ UNCHANGED <<hs, codes, reqs, sessions>>
  \/ Store!Tick /\ UNCHANGED <<hs, codes, reqs, sessions>>

Spec == Init /\ [][Next]_vars

-----------------------------------------------------------------------------
(* Types, including the store's, and that every session is for an email   *)
(* with a local user: LoginOIDC never creates accounts (spec 4.5).         *)
TypeOK ==
  /\ Store!TypeOK
  /\ hs \in Seq(Browsers) /\ Len(hs) <= MaxLogins
  /\ codes \in Seq(Code) /\ reqs \in Seq(Req)
  /\ sessions \subseteq Session

(* Replay protection: a handshake yields at most one session, however     *)
(* many callbacks carry its state (reloads, resends, concurrent replays)  *)
(* and however many codes the IdP issued for it.                           *)
AtMostOneSessionPerHandshake ==
  \A s, t \in sessions : s.h = t.h => s.req = t.req

(* CSRF protection (spec 3: the state is the CSRF token): tokens are       *)
(* returned only to the browser that started the handshake.                *)
SessionBoundToInitiator ==
  \A s \in sessions : s.to = hs[s.h]

(* Spec 4.4 and the deployment rule of spec 9 (stores chosen by topology): *)
(* a callback that carries the state of a live handshake (saved by Login, *)
(* unexpired, not yet retrieved) is never refused as an invalid state,    *)
(* whichever instance the load balancer sends it to.                       *)
LiveAnywhere(h) == \E k \in Store!Live : k[2] = h
RefusedState(r) ==
  /\ reqs[r].pc = "start" /\ reqs'[r].pc = "failed"
  /\ reqs[r].state # None /\ reqs[r].code # None
LiveStateAccepted ==
  [][\A r \in DOMAIN reqs : RefusedState(r) => ~LiveAnywhere(reqs[r].state)]_vars
=============================================================================
