--------------------------- MODULE OIDCStateStore ---------------------------
(***************************************************************************)
(* The InMemoryStateStore of internal/infras/oauth/state_store.go: a map   *)
(* from OIDC state values to StateData {CodeVerifier, Nonce, ExpiresAt},   *)
(* guarded by one mutex, plus the gc goroutine started by the constructor  *)
(* that sweeps expired entries once a minute.                              *)
(*                                                                         *)
(* Every method body runs under s.mu, so each method is one atomic step.   *)
(* Time is the variable `now`, in abstract ticks; the store compares it    *)
(* with ExpiresAt exactly as time.Now().After(ExpiresAt) does.             *)
(*                                                                         *)
(* The operators Save, Found, Lookup, GetAndDelete, Gc and Tick are the    *)
(* store's interface; EntraLogin instantiates this module and uses them.   *)
(* The specification at the bottom is the store on its own, driven by      *)
(* callers that save fresh state values and retrieve any of them.          *)
(***************************************************************************)
EXTENDS Naturals, FiniteSets, Functions, TLC

CONSTANTS
  States,     \* state values a caller may use (random in the code)
  Payloads,   \* values of CodeVerifier and Nonce
  StateTTL,   \* lifetime of an entry, in ticks (10 minutes in Login)
  MaxTime     \* last tick the model explores

ASSUME StateTTL \in Nat /\ MaxTime \in Nat

VARIABLES
  data,       \* s.data: the map, a function on the saved state values
  now,        \* the wall clock read by time.Now()
  saved,      \* history: state values ever saved
  taken       \* history: state values GetAndDelete returned with ok=true

storeVars == <<data, now>>
vars == <<data, now, saved, taken>>

StateData == [CodeVerifier : Payloads, Nonce : Payloads,
              ExpiresAt : 0 .. MaxTime + StateTTL]

(* time.Now().After(d.ExpiresAt) *)
Expired(d) == now > d.ExpiresAt

-----------------------------------------------------------------------------
(* Save: s.data[state] = data under the lock (overwrites a present key).   *)
Save(st, d) ==
  /\ data' = (st :> d) @@ data
  /\ UNCHANGED now

(* Mutation: the expiry test of GetAndDelete is lost.                     *)
FoundIgnoringExpiry(st) == st \in DOMAIN data

(* The ok result of GetAndDelete(st): present and not expired.             *)
Found(st) == st \in DOMAIN data /\ ~Expired(data[st])

(* The StateData result of GetAndDelete(st), meaningful when Found(st).    *)
Lookup(st) == data[st]

(* Mutation: the entry is read but not deleted (a plain Get).            *)
GetAndDeleteKeepingEntry(st) == UNCHANGED <<data, now>>

(* GetAndDelete: a present entry is deleted before the expiry test, so an  *)
(* expired entry is removed too; the result is (d, true) only when it was  *)
(* present and unexpired.                                                  *)
GetAndDelete(st) ==
  /\ data' = Restrict(data, DOMAIN data \ {st})
  /\ UNCHANGED now

(* Mutation: gc sweeps only entries that expired before the previous tick. *)
GcOneTickLate ==
  /\ data' = RestrictDomain(data, LAMBDA k : ~(now > data[k].ExpiresAt + 1))
  /\ UNCHANGED now

(* gc: one tick of the ticker deletes every entry with now > ExpiresAt.   *)
(* The ticker never stops, so the step is always enabled, and it leaves   *)
(* the map unchanged when nothing has expired.                             *)
Gc ==
  /\ data' = RestrictDomain(data, LAMBDA k : ~Expired(data[k]))
  /\ UNCHANGED now

(* Real time passes.                                                       *)
Tick ==
  /\ now < MaxTime
  /\ now' = now + 1
  /\ UNCHANGED data

-----------------------------------------------------------------------------
(* The store on its own: Login saves a fresh random state value; any      *)
(* number of concurrent callbacks call GetAndDelete on any saved value.    *)

Init ==
  /\ data = <<>>
  /\ now = 0
  /\ saved = {}
  /\ taken = {}

SaveFresh(st, v, n) ==
  /\ st \notin saved
  /\ Save(st, [CodeVerifier |-> v, Nonce |-> n, ExpiresAt |-> now + StateTTL])
  /\ saved' = saved \cup {st}
  /\ UNCHANGED taken

Retrieve(st) ==
  /\ GetAndDelete(st)
  /\ taken' = IF Found(st) THEN taken \cup {st} ELSE taken
  /\ UNCHANGED saved

Next ==
  \/ \E st \in States, v, n \in Payloads : SaveFresh(st, v, n)
  \/ \E st \in saved : Retrieve(st)
  \/ Gc /\ UNCHANGED <<saved, taken>>
  \/ Tick /\ UNCHANGED <<saved, taken>>

(* The ticker of gc fires every minute for as long as the process lives.   *)
Spec == Init /\ [][Next]_vars /\ WF_vars(Gc /\ UNCHANGED <<saved, taken>>)

-----------------------------------------------------------------------------
(* Types of the map, the clock and the history variables.                  *)
TypeOK ==
  /\ DOMAIN data \subseteq States
  /\ \A st \in DOMAIN data : data[st] \in StateData
  /\ now \in 0 .. MaxTime
  /\ saved \subseteq States /\ taken \subseteq saved

(* The store implements SingleUseState: an entry can be retrieved while    *)
(* it is live (saved, unexpired, not yet retrieved), a retrieval ends its  *)
(* life, and a state value never becomes live again.  This is what the    *)
(* delete-before-expiry-check in GetAndDelete and the fresh random state   *)
(* of Login must give together, whatever gc and the clock do meanwhile.    *)
Live == {st \in DOMAIN data : ~Expired(data[st])}
Abstract == INSTANCE SingleUseState WITH Keys <- States,
              issued <- saved, live <- Live, taken <- taken
RefinesSingleUse == Abstract!Spec

(* Memory bound of the gc goroutine: every entry that has expired is       *)
(* eventually removed from the map, whether or not anyone retrieves it.    *)
ExpiredEventuallySwept ==
  \A st \in States :
    (st \in DOMAIN data /\ Expired(data[st])) ~> (st \notin DOMAIN data)
=============================================================================
