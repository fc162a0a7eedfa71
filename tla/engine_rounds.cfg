SPECIFICATION Spec
CONSTANTS
  req = req
  ann = ann
  bob = bob
  team = team
  n1 = n1
  n2 = n2
  s1 = s1
  s2 = s2
  v1 = v1
  v2 = v2
  p1 = p1
  p2 = p2
  User = {req, ann, bob}
  Group = {team}
  Requester = req
  None = None
  Node = {n1, n2}
  Start = Start
  End = End
  Slot = {s1, s2}
  Version = {v1, v2}
  Payload = {p1}
  Walk <- Branches
  Step <- RoundSteps
  EscalateTo <- RoundEscalation
  DeputyEscalateTo <- RoundEscalation
  Delegation = {}
  MaxEscalations = 2
  MaxRound = 2
  Lockable = {}
  Movable = {}
  ReassignTo = {bob}
  Notice <- Notices
  StopRule <- StopRules
  Membership <- RoundMembership
INVARIANT TypeOK
PROPERTIES
  PreviewIsFollowed
  RequestLivesAsPromised
CHECK_DEADLOCK FALSE
