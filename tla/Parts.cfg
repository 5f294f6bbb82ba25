CONSTANTS
  Nil = Nil
  Null = Nil
  Shapes <- FormShapes
  Field = {1, 2, 3}
  Key = {"a", "b", "c"}
  FormValue = {"x", "y", "bad"}
  Bad = "bad"
  Old = {"s1", "s2"}
  NewSection = "n"
  FormSteps = 5
  Dir = {"r", "d"}
  TopDir = "r"
  Up <- FilesUp
  FileName = {"f"}
  Disk <- Disks
  MaxAsks = 4
  WifiRadio = {"r0", "r1"}
  Bss = {"x", "y"}
  WifiStart <- WifiStarts
  MaxNets = 4
  WifiSteps = 4
  Process = {"p", "q"}
  Main = 1
  Protos = {"qmi", "3g"}
  FailLimit = 2
  MaxCalls = 3
  Pid = {"u1", "u2", "u3"}
  OtherUpdaters = 0
  MaxRetry = 1
  Once = FALSE
  Co = {"a", "b", "c"}
  MaxCount = 2
  MaxWaits = 4
SPECIFICATION Spec
INVARIANTS
  PackagesPlanned
  FormSaves
  WidgetsAgree
  ClassesFound
  ListingsShown
  WirelessKept
  SimsAgree
  UpdatersAgree
  CoroutinesWake
PROPERTIES
  FormUndoes
CHECK_DEADLOCK FALSE
