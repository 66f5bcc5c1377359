\* Both loggers; the binding property is checked for the production one.
CONSTANTS
  RpcMayFail = TRUE
  Loggers = {"production", "noop"}
SPECIFICATION Spec
\* BuildAll runs once and stops: its final states have no successor.
CHECK_DEADLOCK FALSE
INVARIANT ProductionClientsBound
