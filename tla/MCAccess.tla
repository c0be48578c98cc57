------------------------------- MODULE MCAccess -------------------------------
(* Small instances of Access.                                                *)
EXTENDS Access

CONSTANTS c1, c2, p1, p2, p3, p4, p5
=============================================================================
