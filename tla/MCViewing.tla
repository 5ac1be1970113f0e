------------------------------ MODULE MCViewing ------------------------------
(* Every access mode, two snapshots and three events, enough for a logout   *)
(* that fails, a session that ends behind the page and a cached page.       *)
EXTENDS Viewing

MCModes == {"public", "authenticated", "redacted"}
=============================================================================
