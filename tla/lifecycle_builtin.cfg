\* core-ui, which is never saved, next to a driver; two commands, a crash, and
\* calls that may fail.
CONSTANTS
  driver = driver  app = app  ui = ui
  driverStore = driverStore  appStore = appStore  uiStore = uiStore
  r1 = r1  r2 = r2  r3 = r3
  Component = {driver, ui}
  Driver = {driver}
  Builtin = {ui}
  HasStore = {}
  Store = {driverStore, uiStore}
  StoreOf <- MCStoreOf
  BeginsWith <- MCNested
  Datasources <- MCDatasources
  Request = {r1, r2}
  Nobody = Nobody
  Faults = {"secret", "grant"}
  MapRaceFatal = FALSE
  MayCrash = TRUE
SPECIFICATION Spec
SYMMETRY Commands
INVARIANTS
  TokenAgreement
PROPERTIES
  KeepsRegistry
