\* With the no-op logger (logging.NewNoopLogger) logger.Fatal returns.
CONSTANTS
  RpcMayFail = TRUE
  Loggers = {"production", "noop"}
SPECIFICATION Spec
CHECK_DEADLOCK FALSE
INVARIANT ClientsBoundToContracts
