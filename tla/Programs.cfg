SPECIFICATION Spec
CONSTANTS
  Services = {drv, srv}  Devices = {drv}  Operators = {o1}  Installers = {i1, i2}
  MaxRequests = 1  MaxHandles = 2
  Users = {r1, r2}  Names = {"a", "Default"}  MaxDepth = 3  MaxCalls = 3  NONE = NONE
  Locations <- SomeLocations  Texts <- SomeTexts  Values <- SomeValues
  Rounds = 2  MaxTasks = 2
SYMMETRY Symmetry
INVARIANTS RemovedGoes InstallerRight DeletesOnlyMeant ReadsWhole DriverRight
PROPERTIES ListedIsFound
CHECK_DEADLOCK FALSE
