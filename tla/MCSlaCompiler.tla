---------------------------- MODULE MCSlaCompiler ----------------------------
(* Small instances of SlaCompiler: an app or driver that may read a sensor,  *)
(* use an actuator and call a function of two stores, and a datasource whose *)
(* URL cannot be parsed.                                                      *)
EXTENDS SlaCompiler

CONSTANTS sensor, actuator, func, broken, h1, h2, site

MCHostOf ==
  [d \in Source |-> CASE d = sensor -> h1 [] d = actuator -> h1
                      [] d = func -> h2   [] d = broken -> Bad]

MCKindOf ==
  [d \in Source |-> CASE d = actuator -> "actuator" [] d = func -> "func"
                      [] OTHER -> "sensor"]

SlaOf(type, sources, exports, externals, store) ==
  [type |-> type, sources |-> sources, exports |-> exports,
   externals |-> externals, store |-> store]

\* The second and the third have a bad URL that nobody looks at; the last two end
\* the process.
MCSla ==
  {SlaOf("app", {sensor, actuator}, {}, {}, TRUE),
   SlaOf("app", {sensor, func}, {site}, {Bad}, FALSE),
   SlaOf("driver", {broken}, {site}, {site}, TRUE),
   SlaOf("other", {}, {}, {}, FALSE),
   SlaOf("app", {actuator, broken}, {}, {}, FALSE),
   SlaOf("driver", {}, {}, {site, Bad}, FALSE)}
=============================================================================
