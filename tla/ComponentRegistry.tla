-------------------------- MODULE ComponentRegistry --------------------------
(***************************************************************************)
(* What the container manager promises of the apps and drivers, whatever    *)
(* goroutines, calls and secrets it takes: three records of what is there,  *)
(* docker's services, the saved SLAs and InstalledComponents, that change   *)
(* one component at a time and in one order.  A component is made, then     *)
(* saved, then listed as installed; it is removed, then forgotten, then no  *)
(* longer listed.  So at each instant in between, a death leaves a state    *)
(* from which the next life makes what the user last asked for, or what he  *)
(* had before.                                                              *)
(*                                                                         *)
(* Nothing is promised of a component after a call failed for it or two     *)
(* commands met on it, until the process starts again.                      *)
(***************************************************************************)
CONSTANTS
  Component,
  Builtin      \* launched by the manager itself, and never saved

VARIABLES
  up,       \* does the process run?
  running,  \* components with a service
  saved,    \* components with an SLA in the store
  listed,   \* components that are listed as installed
  loose     \* components of which nothing is promised

vars == <<up, running, saved, listed, loose>>

Init ==
  /\ up = FALSE /\ running = {} /\ listed = {} /\ loose = {}
  /\ saved \in SUBSET (Component \ Builtin)

\* A new life finds no services; the SLAs are still there.
Begin ==
  /\ ~up /\ up'
  /\ running' = {} /\ loose' \subseteq Component
  /\ UNCHANGED <<saved, listed>>

Die ==
  /\ up /\ ~up'
  /\ listed' = {}
  /\ UNCHANGED <<running, saved, loose>>

\* Something went wrong: nothing is done.
Loosen ==
  /\ up /\ loose \subseteq loose' /\ loose' \subseteq Component
  /\ UNCHANGED <<up, running, saved, listed>>

Create(c) ==
  /\ up /\ c \notin running \cup listed
  /\ running' = running \cup {c}
  /\ UNCHANGED <<up, saved, listed, loose>>

Save(c) ==
  /\ up /\ c \in running \ (listed \cup Builtin)
  /\ saved' = saved \cup {c}
  /\ UNCHANGED <<up, running, listed, loose>>

List(c) ==
  /\ up /\ c \in running /\ c \in saved \cup Builtin
  /\ listed' = listed \cup {c}
  /\ UNCHANGED <<up, running, saved, loose>>

Remove(c) ==
  /\ up /\ c \in running \cap listed /\ c \in saved \cup Builtin
  /\ running' = running \ {c}
  /\ UNCHANGED <<up, saved, listed, loose>>

Forget(c) ==
  /\ up /\ c \notin running
  /\ saved' = saved \ {c}
  /\ UNCHANGED <<up, running, listed, loose>>

Unlist(c) ==
  /\ up /\ c \notin running \cup saved
  /\ listed' = listed \ {c}
  /\ UNCHANGED <<up, running, saved, loose>>

\* A component of which nothing is promised changes in any way; it may become
\* one only now.
Stray(c) ==
  /\ up /\ loose' \in {loose, loose \cup {c}} /\ c \in loose'
  /\ running' \in {running \cup {c}, running \ {c}}
  /\ saved' \in {saved \cup {c}, saved \ {c}}
  /\ listed' \in {listed \cup {c}, listed \ {c}}
  /\ UNCHANGED up

Next ==
  \/ Begin \/ Die \/ Loosen
  \/ \E c \in Component :
       \/ Create(c) \/ Save(c) \/ List(c)
       \/ Remove(c) \/ Forget(c) \/ Unlist(c)
       \/ Stray(c)

Spec == Init /\ [][Next]_vars
=============================================================================
