SPECIFICATION Spec
CONSTANTS
  req = req
  ann = ann
  bob = bob
  team = team
  n1 = n1
  n2 = n2
  s1 = s1
  s2 = s2
  v1 = v1
  v2 = v2
  p1 = p1
  p2 = p2
  User = {req, ann, bob}
  Group = {team}
  Requester = req
  None = None
  Node = {n1, n2}
  Start = Start
  End = End
  Slot = {s1, s2}
  Version = {v1}
  Payload = {p1}
  Walk <- Line
  Step <- HeadSteps
  EscalateTo <- NoEscalation
  DeputyEscalateTo <- NoEscalation
  Delegation = {}
  MaxEscalations = 2
  MaxRound = 1
  Lockable = {bob}
  Movable = {ann}
  ReassignTo = {}
  Notice <- Notices
  StopRule <- StopRules
  Membership <- RoundMembership
INVARIANT OneApprovalFillsTheSlot
CHECK_DEADLOCK FALSE
