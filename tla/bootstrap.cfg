\* Two addresses, deaths and reboots at any step, calls that may fail, with and
\* without the label on the manager's own service.
CONSTANTS
  a1 = a1  a2 = a2
  k1 = k1  k2 = k2
  Address = {a1, a2}
  Pair = {k1, k2}
  Labels = {TRUE, FALSE}
  Faults = {"remove", "secret", "reboot", "arbiter"}
  None = None
SPECIFICATION FairSpec
INVARIANTS
  TypeOK
  KeysMatch
  CoreNetworkReady
  StoreResolves
  UpdateIsNoBadRestart
  PublicPartFirst
PROPERTIES
  ServesAgain
