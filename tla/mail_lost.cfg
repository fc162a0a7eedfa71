SPECIFICATION FairSpec
CONSTANTS
  e1 = e1
  ann = ann
  bob = bob
  r1 = r1
  r2 = r2
  c1 = c1
  c2 = c2
  Event = {e1}
  User = {ann, bob}
  Reachable = {bob}
  Relay = {r1}
  Consumer = {c1}
  MaxAttempts = 1
  MaxSends = 2
  MaxFaults = 1
  MaxResends = 0
  MaxCopies = 4
  None = None
  Recipients <- ToAll
PROPERTIES
  EveryRecipientIsServed
CHECK_DEADLOCK FALSE
