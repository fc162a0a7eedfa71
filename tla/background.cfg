SPECIFICATION SpecBackground
CONSTANTS
  e1 = e1
  ann = ann
  bob = bob
  r1 = r1
  r2 = r2
  c1 = c1
  c2 = c2
  pdf = pdf
  job = job
  cron = cron
  reader1 = reader1
  reader2 = reader2
  admin = admin
  p1 = p1
  p2 = p2
  Event = {e1}
  User = {ann, bob}
  Reachable = {bob}
  Relay = {r1}
  Consumer = {c1}
  MaxAttempts = 2
  MaxSends = 2
  MaxFaults = 1
  MaxResends = 1
  MaxCopies = 4
  None = None
  Recipients <- ToAll
  Member = {ann, bob}
  Runner = {p1, p2}
  Allowed = {ann}
  Threshold = 1
  Never = Never
  LastDay = 3
  MaxRows = 2
  MaxMishaps = 1
INVARIANTS
  RemindersAreRight
PROPERTIES
  EveryRecipientIsRecorded
  PreviewsEnd
  StaleListsExpire
CHECK_DEADLOCK FALSE
