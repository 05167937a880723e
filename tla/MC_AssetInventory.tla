------------------------- MODULE MC_AssetInventory -------------------------
(* Instantiates AssetInventory with one asset id, one profile id and one   *)
(* repository id.  Three requests are enough for two concurrent upserts of *)
(* the same asset with a third request between their statements, and for *)
(* an asset, a profile of it and a link or a listing.                     *)
EXTENDS AssetInventory

(* Field values clients send: two valid assets (a host, an application)   *)
(* and one invalid value per validated field, "staging" and "high" being   *)
(* the near misses of "stg" and "tier1".                                   *)
MCFields ==
  { [type |-> "host",        env |-> "prod",    crit |-> "tier1"],
    [type |-> "application", env |-> "prod",    crit |-> "tier1"],
    [type |-> "bogus",       env |-> "prod",    crit |-> "tier1"],
    [type |-> "host",        env |-> "staging", crit |-> "tier1"],
    [type |-> "host",        env |-> "prod",    crit |-> "high"] }
=============================================================================
