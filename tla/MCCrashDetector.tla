--------------------------- MODULE MCCrashDetector ---------------------------
(* Small instances of CrashDetector.                                        *)
EXTENDS CrashClaims, CrashInvariant, TLC

CONSTANTS driver, store, r1, r2, r3

\* The name of the store begins with the name of the driver.
MCBeginsWith == [n \in Service |-> {n} \cup (IF n = driver THEN Service \cap {store} ELSE {})]

Commands == Permutations(Request)
=============================================================================
