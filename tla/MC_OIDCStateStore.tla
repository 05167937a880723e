------------------------- MODULE MC_OIDCStateStore -------------------------
(* Instantiates OIDCStateStore for TLC: three state values, so two         *)
(* callbacks can race on one while another expires; a lifetime of one     *)
(* tick so an entry can be retrieved live, retrieved expired, or swept;    *)
(* a horizon of three ticks so entries saved at different times expire at *)
(* different times.                                                        *)
EXTENDS OIDCStateStore

MCStates == {"s1", "s2", "s3"}
MCPayloads == {"p"}
=============================================================================
