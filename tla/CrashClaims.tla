----------------------------- MODULE CrashClaims -----------------------------
(***************************************************************************)
(* What a comment of the container manager says of crashes, and the code of *)
(* CrashDetector does not keep.                                             *)
(***************************************************************************)
EXTENDS CrashDetector

\* The claim is about crashes that the detector can see, not those before
\* reloadApps is done.
SeenSpec == Init /\ [][Next /\ (crashes' # crashes => Watching)]_vars

\* containerManager.go:163-164: "If an app or driver crashes restart it to fix the
\* core-network registration".  When all is done, the core-network knows the
\* address of each app and driver that runs.
RegistrationFixed == Quiet => \A n \in exists \cap Labelled : known[n] = task[n]
=============================================================================
