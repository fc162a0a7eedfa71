SPECIFICATION Spec
CONSTANTS
  a1 = a1
  a2 = a2
  d1 = d1
  d2 = d2
  s1 = s1
  s2 = s2
  r1 = r1
  Admin = {a1, a2}
  Request = {r1}
  Definition = {d1, d2}
  Valid = {d1}
  Schema = {s1, s2}
  MaxVersion = 3
  None = None
PROPERTIES
  PublishedIsFrozen
CHECK_DEADLOCK FALSE
