--------------------------- MODULE SingleUseState ---------------------------
(***************************************************************************)
(* What the OIDC state store promises (spec 4.4): a saved key is          *)
(* retrievable at most once, only while it is live, and it stops being    *)
(* live when it is retrieved or when its lifetime lapses.  A key, once    *)
(* issued, is never issued again.                                          *)
(***************************************************************************)
CONSTANTS Keys

VARIABLES issued, live, taken

vars == <<issued, live, taken>>

Init == issued = {} /\ live = {} /\ taken = {}

Issue(k) ==
  /\ k \notin issued
  /\ issued' = issued \cup {k}
  /\ live' = live \cup {k}
  /\ UNCHANGED taken

Retrieve(k) ==
  /\ k \in live
  /\ live' = live \ {k}
  /\ taken' = taken \cup {k}
  /\ UNCHANGED issued

(* Time passes and the lifetime of some live keys lapses.                 *)
Lapse ==
  \E lapsed \in SUBSET live :
    /\ lapsed # {}
    /\ live' = live \ lapsed
    /\ UNCHANGED <<issued, taken>>

Next == (\E k \in Keys : Issue(k) \/ Retrieve(k)) \/ Lapse

Spec == Init /\ [][Next]_vars
=============================================================================
