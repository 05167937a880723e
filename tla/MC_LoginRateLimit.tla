------------------------- MODULE MC_LoginRateLimit -------------------------
(* Instantiates LoginRateLimit with Redis configured and rate limiting on: *)
(* two instances behind a balancer, one client address and two accounts,  *)
(* burst 2 and one token per tick, so three requests are one more than a  *)
(* bucket admits before the next tick.                                     *)
EXTENDS LoginRateLimit
=============================================================================
