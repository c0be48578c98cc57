------------------------ MODULE MCComponentLifecycle ------------------------
(* Small instances of ComponentLifecycle: a driver with a store of its own,  *)
(* an app that reads that store, and core-ui, which the container manager    *)
(* launches itself.                                                          *)
EXTENDS ComponentRefinement, TLC

CONSTANTS driver, app, ui, driverStore, appStore, uiStore, r1, r2, r3

MCStoreOf ==
  [c \in Component |-> CASE c = driver -> driverStore
                         [] c = app    -> appStore
                         [] c = ui     -> uiStore]

MCDatasources ==
  [c \in Component |-> IF c = app THEN {driver} \cap HasStore ELSE {}]

\* No name begins with another's, but for the stores;
MCApart == [c \in Component |-> {c, MCStoreOf[c]}]

\* and one name is the beginning of all others.
MCNested == [c \in Component |-> IF c = driver THEN Name ELSE {c, MCStoreOf[c]}]

\* Commands are interchangeable: used by the runs without liveness properties.
Commands == Permutations(Request)
=============================================================================
