SPECIFICATION SpecServices
CONSTANTS
  a1 = a1
  a2 = a2
  d1 = d1
  d2 = d2
  s1 = s1
  s2 = s2
  r1 = r1
  file1 = file1
  file2 = file2
  report = report
  call1 = call1
  call2 = call2
  it = it
  hr = hr
  dev = dev
  phone = phone
  tablet = tablet
  laptop = laptop
  browser = browser
  begins = begins
  step1 = step1
  step2 = step2
  ends = ends
  missing = missing
  amount = amount
  gone = gone
  form1 = form1
  form2 = form2
  office = office
  Id = {begins, step1, step2, ends, missing}
  Field = {amount, gone}
  Graph <- Drawn
  Admin = {a1, a2}
  Request = {r1}
  Definition = {d1, d2}
  Valid = {d1}
  Schema = {s1, s2}
  MaxVersion = 3
  None = None
  NoConfig = NoConfig
  Editor = {call1, call2}
  Maker = {r1}
  Form = {form1, form2}
  Category = {office}
  Sent <- Sendable
  MaxTypeVersion = 3
  MaxSaves = 3
  File = {file1, file2}
  Name <- Names
  Large = {file1}
  Confirmer = {call1, call2}
  MaxNames = 2
  Absent = Absent
  Ticket = {file1, file2}
  Opener = {call1, call2}
  MaxOpens = 3
  NoTicket = NoTicket
  Session = {phone, tablet}
  Browser = {browser}
  Home <- Homes
  Fresh = {phone, tablet}
  Call = {call1, call2}
  Old = {laptop}
  NoDevice = NoDevice
  Account = {"first", "second"}
  SignIn = {phone}
  MaxTries = 3
  Nobody = Nobody
  Dept = {it, hr, dev}
  User = {"ann"}
  Manager = {call1, call2}
  Priority = {0, 1}
  Null = Null
INVARIANTS
  OneVersionRuns
  FormVersionsDiffer
  SentRequestsFollowPublished
  FilesAreServedRightly
  DepartmentsFormATree
  LoginsAreRight
  PublishedGraphsAreWalked
  TypesAreVersioned
PROPERTIES
  VersionsAgeOneWay
  CalendarIsRight
SYMMETRY Symmetry
CHECK_DEADLOCK FALSE
