SPECIFICATION SpecRecords
CONSTANTS
  e1 = e1
  ann = ann
  bob = bob
  r1 = r1
  r2 = r2
  c1 = c1
  c2 = c2
  note = note
  owner = owner
  items = items
  name = name
  qty = qty
  total = total
  pump = pump
  PUMP = PUMP
  blank = blank
  padded = padded
  half = half
  Key <- FormKeys
  Entered <- AllForms
  Draft <- Drafts
  Text = {pump, PUMP, blank, padded}
  Trim <- Trimming
  Fold <- Folding
  Blank = blank
  Day <- DayOf
  Entity = {ann, bob}
  SentId <- SomeSentIds
  BareId <- BareIds
  LongId = {4}
  it = it
  co = co
  chi = chi
  team = team
  memo = memo
  n1 = n1
  n2 = n2
  w1 = w1
  w2 = w2
  call1 = call1
  call2 = call2
  Event = {e1}
  User = {ann, bob}
  Reachable = {bob}
  Relay = {r1, r2}
  Consumer = {c1, c2}
  MaxAttempts = 2
  MaxSends = 1
  MaxFaults = 1
  MaxResends = 1
  MaxCopies = 4
  None = None
  Null = Null
  Person = {ann}
  Team = team
  Name = {n1, n2}
  Rights = {w1, w2}
  Request = {call1, call2}
  MaxSaves = 2
  Call = {call1, call2}
  MaxCertificates = 3
  Writer = {ann, bob}
  Group = {team}
  Requester = ann
  MaxDepth = 2
  MaxComments = 3
  MaxShares = 2
  MaxRound = 2
  Nil = Nil
  Dept = {it, co}
  Colleague = {ann, bob, chi}
  Chart <- SmallCharts
  Question <- AllQuestions
  MaxLevels = 3
  MaxChanges = 1
  Missing = Missing
  Recipients <- ToAll
SYMMETRY Symmetry
INVARIANTS
  MailIsAccountedFor
  NothingGoesOutTwice
  TheRightOnesAreAsked
  TalkIsKept
  DirectoryAgrees
  OneCertificateInUse
PROPERTIES
  PayloadsSurvive
  ReportsAreTrue
CHECK_DEADLOCK FALSE
