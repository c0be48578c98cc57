----------------------------- MODULE MCBootstrap -----------------------------
(* Small instances of Bootstrap.                                            *)
EXTENDS BootstrapClaims

CONSTANTS a1, a2, k1, k2
=============================================================================
