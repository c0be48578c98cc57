\* Liveness, with failing calls and a crash.
CONSTANTS
  driver = driver  app = app  ui = ui
  driverStore = driverStore  appStore = appStore  uiStore = uiStore
  r1 = r1  r2 = r2  r3 = r3
  Component = {driver, app}
  Driver = {driver}
  Builtin = {}
  HasStore = {driver}
  Store = {driverStore, appStore}
  StoreOf <- MCStoreOf
  BeginsWith <- MCApart
  Datasources <- MCDatasources
  Request = {r1}
  Nobody = Nobody
  Faults = {"image", "connect", "forget", "read", "clean"}
  MapRaceFatal = FALSE
  MayCrash = TRUE
SPECIFICATION FairSpec
PROPERTIES
  ReloadCompletes
  SavedComponentsReturn
