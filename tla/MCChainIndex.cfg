\* Five blocks at most, one of which is unconfirmed, and one of each fault.
SPECIFICATION IndexSpec
CONSTANTS
  m1 = m1
  Members = {m1}
  Confirmations = 1
  ReorgBuffer = 1
  Contents <- MCContents
  MaxHeight = 4
  MaxReorgs = 1
  MaxFailures = 1
  MaxRestarts = 1
INVARIANT IndexIsCanonical
PROPERTY IndexCatchesUp
\* Height is bounded, so the poller may have nothing left to do.
CHECK_DEADLOCK FALSE
