SPECIFICATION Spec
CONSTANTS
  Callers = {c1, c2}
  Subjects = {"bob"}
  RoleNames = {}
  Blank = "blank"
  Spellings = {"lower", "mixed"}
  PermissionSets <- Sets
  Environments = {"local", "deployed"}
  SessionTTL = 1
  MaxClock = 1
  MaxIdentities = 2
  MaxTokens = 2
  MaxRare = 1
SYMMETRY Symmetric
CHECK_DEADLOCK FALSE
INVARIANT SubjectNamesOne
INVARIANT RolesAreTheLastGiven
INVARIANT DeployedHasNobody
PROPERTY AcceptedWasValid
PROPERTY ActedWasGranted
