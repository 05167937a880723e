--------------------------- MODULE MC_EntraLogin ---------------------------
(* Instantiates EntraLogin: a victim and an adversary browser; the        *)
(* adversary owns a provisioned account and an unprovisioned one.  Two    *)
(* Logins, two codes and two callback requests are enough for a reload    *)
(* that yields two codes for one handshake, two concurrent callbacks on   *)
(* one state, and a forged callback opened by the victim.  One instance   *)
(* serves them, except in the deployment run, which has two.              *)
EXTENDS EntraLogin

MCOwner == [b \in {"victim", "mallory"} |->
              IF b = "victim" THEN "alice" ELSE "mallory@corp"]
=============================================================================
