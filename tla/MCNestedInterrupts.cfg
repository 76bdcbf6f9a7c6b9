\* A tool under WithApproval and an agent as a tool: the pause of a nested run.
SPECIFICATION Spec
CONSTANTS
  Calls = {c1}
  NestedCalls = {n1}
  Kinds = {"plain", "approval", "agent"}
  NestedKinds = {"plain", "approval"}
  None = none
INVARIANTS AnswersReachTheTools
CHECK_DEADLOCK FALSE
