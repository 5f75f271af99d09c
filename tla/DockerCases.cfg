\* Attempts at one case, the resource manager and other work on the same host.
SPECIFICATION HostSpec
CONSTANTS
  Attempts = {a1}
  Nobody = Nobody
  None = None
  Missing = Missing
  Requested <- SomeRequests
  Changes <- SomeChanges
  Earlier = {"blocked"}
  Others = {"running", "elsewhere"}
  Present <- FromTheStart
  MaxLag = 1
  Rounds = 2
  StableScans = 1
  MaxMishaps = 1
  DefaultNetworks = {}
  AdoptedProjects = {}
  AdoptedNames = {}
  Managers = {m1, m2}
  MaxCommands = 2
SYMMETRY SameManagers
INVARIANTS
  NothingLeftUnreported
  CompletedIsRecorded
PROPERTIES
  StrictCleanIsTruthful
  ConfirmedAfterCleanup
  BaselineResourcesKept
CHECK_DEADLOCK FALSE
