SPECIFICATION FairSpec
CONSTANTS
  Requests <- MCRequests
  Responses = {"switch", "ok", "err"}
  IdleTimeout = TRUE
  MaxRequests = 3
INVARIANTS
  RetryOnce
  BackendHeldWhileNeeded
  QuietBetweenRequests
  OneRequestWhileDraining
  NullBackendOnlyAfterTeardown
PROPERTIES
  LedgerKept
  SilentRelayTornDown
  DrainCompletes
CHECK_DEADLOCK FALSE
