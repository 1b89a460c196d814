SPECIFICATION Spec
CONSTANTS
  g1 = g1
  g2 = g2
  g3 = g3
  v1 = v1
  v2 = v2
  v3 = v3
  u1 = u1
  u2 = u2
  None = None
  Runs = {g1, g2, g3}
  Reviews = {v1, v2}
  Updates = {u1, u2}
  Kinds = {"BUY", "HOLD"}
INVARIANTS
  OneEvaluationPerSignal
  OneActivePolicy
  DecidedByAPolicyInForce
  CandidatesOnlyByOverlap
PROPERTY
  ImplementsPromise
CONSTRAINT Scenarios
SYMMETRY Symmetry
CHECK_DEADLOCK FALSE
