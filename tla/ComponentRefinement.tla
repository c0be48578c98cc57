------------------------- MODULE ComponentRefinement -------------------------
(***************************************************************************)
(* The goroutines of ComponentLifecycle keep the promise of                 *)
(* ComponentRegistry.                                                       *)
(***************************************************************************)
EXTENDS ComponentInvariant

Registry == INSTANCE ComponentRegistry WITH
  up      <- phase # "down",
  running <- {c \in Component : Running(c)},
  saved   <- sla,
  listed  <- installed,
  loose   <- failed \cup contended

\* Each call of a launch or an uninstall is one step of the registry, or none
\* that shows, and they come in the registry's order: LaunchFromSLA creates the
\* service before it saves the SLA and saves it before it lists the component,
\* and Uninstall takes them back in that order, across deaths and reloads.
KeepsRegistry == Registry!Spec
=============================================================================
