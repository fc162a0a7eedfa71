SPECIFICATION SpecLive
CONSTANTS
  r1 = r1
  r2 = r2
  d1 = d1
  e1 = e1
  cron = cron
  event = event
  req = req
  ann = ann
  team = team
  n1 = n1
  n2 = n2
  n3 = n3
  s1 = s1
  s2 = s2
  v1 = v1
  p1 = p1
  p2 = p2
  begin = begin
  end = end
  None = None
  Request = {r1, r2}
  Office = {d1}
  Pdf = {}
  Plain = {}
  Editor = {e1}
  Worker = {cron, event}
  Cron = {cron}
  MaxAttempts = 2
  Batch = 2
  MaxRound = 2
  MaxStep <- Steps
  MaxKey = 3
  MaxFaults = 1
  Archived = {r2}
PROPERTIES
  SentFilesStand
  ConversionEnds
  OverdueIsDecided
  EmptyGroupIsDropped
CHECK_DEADLOCK FALSE
