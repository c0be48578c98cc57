\* A driver with a store and an app that reads it; two commands, a crash, and
\* calls that all succeed.
CONSTANTS
  driver = driver  app = app  ui = ui
  driverStore = driverStore  appStore = appStore  uiStore = uiStore
  r1 = r1  r2 = r2  r3 = r3
  Component = {driver, app}
  Driver = {driver}
  Builtin = {}
  HasStore = {driver}
  Store = {driverStore, appStore}
  StoreOf <- MCStoreOf
  BeginsWith <- MCApart
  Datasources <- MCDatasources
  Request = {r1, r2}
  Nobody = Nobody
  Faults = {}
  MapRaceFatal = TRUE
  MayCrash = TRUE
SPECIFICATION Spec
SYMMETRY Commands
INVARIANTS
  TypeOK
  PermissionsBeforeRun
  TokenAgreement
  NeverHalfBuilt
  BooksAgreeAtRest
  SavedComponentsRun
