--------------------------- MODULE BootstrapClaims ---------------------------
(***************************************************************************)
(* What a comment of the loader says of the clean-up, and the code does not *)
(* do.                                                                      *)
(***************************************************************************)
EXTENDS Bootstrap

\* "lets not kill ourselves, that's just silly": the clean-up after a bad restart
\* leaves the manager's own service alone.
SparesItself == [][own # "gone" => own' # "gone"]_vars
=============================================================================
