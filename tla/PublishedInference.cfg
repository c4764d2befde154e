\* Two workers and two versions over five instants.
SPECIFICATION Spec
CONSTANTS
  Worker = {w1, w2}
  ModelVersion = {v1, v2}
  MaxCalls = 2
  MaxTime = 5
  MaxAge = 2
  Freshness = 1
  Window = 2
SYMMETRY WorkerSymmetry
INVARIANTS
  AlertsAreNews
  LoneCallsAlert
CHECK_DEADLOCK FALSE
