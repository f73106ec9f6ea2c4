SPECIFICATION Spec
CONSTANTS
  Agents = {"codex", "claude-code", "copilot"}
  Supported = {"codex", "claude-code"}
  Correlated = {"claude-code"}
  Installed = {"codex"}
  Reachable = TRUE
  Evidence <- MCEvidence
  Sessions = {1, 2}
  Boundaries = {b1, b2}
  Runs = {r1, r2}
  Outputs = {o1, o2}
  Window = 2
  MaxTime = 4
  FutureDated = FALSE
CONSTRAINT MCBound
SYMMETRY MCSymmetry
CHECK_DEADLOCK FALSE
INVARIANTS TypeOK EvidenceFollowsBoundary PublishedBoundaryIsSpent
PROPERTY PackagesAreInspectable
