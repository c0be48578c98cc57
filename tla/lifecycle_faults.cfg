\* One driver with a store, two commands, a crash, and calls that may fail.
CONSTANTS
  driver = driver  app = app  ui = ui
  driverStore = driverStore  appStore = appStore  uiStore = uiStore
  r1 = r1  r2 = r2  r3 = r3
  Component = {driver}
  Driver = {driver}
  Builtin = {}
  HasStore = {driver}
  Store = {driverStore}
  StoreOf <- MCStoreOf
  BeginsWith <- MCApart
  Datasources <- MCDatasources
  Request = {r1, r2}
  Nobody = Nobody
  Faults = {"network", "register", "create", "remove", "save", "clean"}
  MapRaceFatal = FALSE
  MayCrash = TRUE
SPECIFICATION Spec
SYMMETRY Commands
INVARIANTS
  ResolverReachable
  BooksAgreeAtRest
  IInv
