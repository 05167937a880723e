-------------------------- MODULE MC_UserAccounts --------------------------
(* Instantiates UserAccounts: one address, two passwords, roles valid,    *)
(* refused (admin) and invalid.  Three requests are enough for a          *)
(* registration followed by two concurrent password changes of the user.  *)
EXTENDS UserAccounts
=============================================================================
