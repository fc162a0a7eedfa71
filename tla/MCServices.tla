------------------------------ MODULE MCServices ------------------------------
(* Small instances for TLC of the components that requests of the API share  *)
(* without a common lock: versioned definitions, uploads, the department     *)
(* tree, the devices of a user, sign-ups, instant downloads, the work        *)
(* calendar, the graph of a workflow and a type of requests.  A behaviour is  *)
(* of one of them; the others stay where they started.                       *)
EXTENDS Definitions, WorkflowGraph, RequestTypes, Services, Departments, TLC

CONSTANTS
  a1, a2, d1, d2, s1, s2, r1,          \* definitions
  file1, file2, report, call1, call2,  \* attachments
  it, hr, dev,                         \* departments
  phone, tablet, laptop, browser,      \* login devices
  begins, step1, step2, ends, missing, \* nodes
  amount, gone,                        \* form fields
  form1, form2, office                 \* forms and categories of a type

VARIABLES
  part,
  wShifts, wSchedules, wAssigned, wSpecial, wToday

(* Requests are alike *)
Symmetry == Permutations({call1, call2})

calendarVars == <<wShifts, wSchedules, wAssigned, wSpecial, wToday>>

(* Two files of one name, one of them sent in parts, two confirmations       *)
Names == [f \in {file1, file2} |-> report]

(* A cleanup takes a row or a link is used after the check, not both; one     *)
(* file at a time has a working link or is being confirmed, by one or two;    *)
(* and nothing follows once two rows have one name, a confirmation deleted    *)
(* what another had found good, or a cleanup is over                          *)
FewMishaps ==
  /\ Cardinality(taken') + Cardinality(overwritten') <= 1
  /\ Cardinality(link' \cup { confirming'[c].file : c \in { d \in Confirmer : confirming'[d] # Absent } }) <= 1
  /\ cleanup = NoCleanup => taken = {}
  /\ dropped = {} /\ ~\E f \in Rows : Shared(f)

(* Two fresh logins in one browser of a user who has a laptop already        *)
Homes == [s \in {phone, tablet} |-> browser]

(* Nothing is begun after two moves have overlapped; there is a user in two   *)
(* of the departments, or in none of three                                   *)
FewMoves ==
  /\ raced => \E a \in Manager : request[a] # Null /\ request'[a] = Null
  /\ IF part = "staff" THEN dept'[dev] = Null ELSE users' = users

(* A day of four minutes, a week of two days: shifts over midnight and one   *)
(* whose segments overlap, a weekly schedule and one of its own anchor       *)
Overnight == <<[start |-> 2, end |-> 0], [start |-> 3, end |-> 2]>>
InTwoParts == <<[start |-> 2, end |-> 1], [start |-> 1, end |-> 2]>>
Plan(anchor, ignoreHolidays) ==
  [anchor |-> anchor, days |-> <<"early", None>>, ignoreHolidays |-> ignoreHolidays]

Calendar == INSTANCE WorkCalendar WITH
  Shift <- {"early"}, Schedule <- {"office", "duty"}, Chain <- <<"user", "company">>,
  LastDay <- 2, WeekDays <- 2, YearDays <- 1, MinutesPerDay <- 4, Segments <- {Overnight, InTwoParts},
  Plans <- [s \in {"office", "duty"} |->
              IF s = "office" THEN {Plan(None, FALSE), [Plan(None, FALSE) EXCEPT !.days = <<"early">>]} ELSE {Plan(1, TRUE)}],
  MaxRows <- 3,
  shifts <- wShifts, schedules <- wSchedules, assigned <- wAssigned, special <- wSpecial, today <- wToday

(* Bounds of the calendar: what the company has beside what the user has, and *)
(* one row fewer a day later                                                 *)
FewDays ==
  /\ Cardinality({ a \in wAssigned' : a.target = "company" }) <= 1
  /\ Cardinality(wSpecial') + Cardinality(wAssigned') + wToday' <= 3

(* Three saves or deletions by two administrators, one request of the type   *)
Sendable ==
  { [form |-> form1, category |-> office, status |-> t] : t \in {"draft", "published"} }
    \cup { [form |-> form2, category |-> office, status |-> "published"] }

(* Two nodes of any type between a start and an end, with edges that fit     *)
(* together well or badly; and such a definition without a start, with a     *)
(* node twice, or with nobody to approve                                     *)
To(v, w) == [from |-> v, to |-> w, condition |-> FALSE, reads |-> {}, default |-> FALSE]
If(v, w, f) == [To(v, w) EXCEPT !.condition = TRUE, !.reads = {f}]
Else(v, w) == [To(v, w) EXCEPT !.default = TRUE]

OutOfStart == {{}, {To(begins, step1)}, {To(begins, step1), To(begins, step2)}}
OutOfStep1 ==
  {{}, {To(step1, ends)}, {To(step1, step2)}, {To(step1, step2), To(step1, ends)},
   {If(step1, step2, amount), Else(step1, ends)}, {If(step1, step2, gone), Else(step1, ends)},
   {If(step1, step2, amount), If(step1, ends, amount)}, {If(step1, begins, amount), Else(step1, ends)},
   {If(step1, step1, amount), Else(step1, step2)}, {Else(step1, step2)}}
OutOfStep2 ==
  {{}, {To(step2, ends)}, {To(step2, step1)}, {To(step2, step2)}, {To(step2, missing)}, {If(step2, ends, amount)}}
OutOfEnd == {{}, {To(ends, step1)}}

Settings(type, approvers) ==
  [type |-> type, approvers |-> approvers, sla |-> type = "parallel", recipient |-> TRUE,
   onOverdue |-> IF type = "parallel" THEN "act" ELSE "remind"]
Middle == {Settings("approval", 1), Settings("condition", 0), Settings("notify", 0), Settings("parallel", 2), Settings("end", 0)}

Draw(first, n1, n2, edges, twice) ==
  [nodes |-> (begins :> first @@ step1 :> n1 @@ step2 :> n2 @@ ends :> Settings("end", 0)),
   twice |-> twice, edges |-> edges, formFields |-> {amount}]
Start == Settings("start", 0)
Line == {To(begins, step1), To(step1, step2), To(step2, ends)}
Drawn ==
  { Draw(Start, n1, n2, o \cup o1 \cup o2 \cup oe, {}) :
      n1 \in Middle, n2 \in Middle, o \in OutOfStart, o1 \in OutOfStep1, o2 \in OutOfStep2, oe \in OutOfEnd }
  \cup { Draw(first, Settings("approval", approvers), Settings("parallel", 2), Line, twice) :
          first \in {Start, Settings("notify", 0)}, approvers \in 0..1, twice \in {{}, {step1}} }

-----------------------------------------------------------------------------
servicesVars == <<part, vars, graphVars, attachmentVars, departmentVars, deviceVars, calendarVars, typeVars, signUpVars, downloadVars>>

InitServices ==
  /\ part \in {"definitions", "files", "tree", "staff", "logins", "calendar", "graph", "types", "signups", "downloads"}
  /\ Init /\ AttachmentsInit /\ DepartmentsInit /\ DevicesInit /\ Calendar!CalendarInit /\ TypesInit /\ SignUpsInit /\ DownloadsInit
  /\ GraphInit /\ at = begins
  /\ part # "graph" => graph = Draw(Start, Settings("approval", 1), Settings("end", 0), Line, {})
  /\ part # "logins" => token = [b \in {browser} |-> NoDevice]
  /\ part # "definitions" => schema = s1 /\ versions[1].definition = d1

InDefinitions(A) ==
  part = "definitions" /\ A /\ UNCHANGED <<part, graphVars, attachmentVars, departmentVars, deviceVars, calendarVars, typeVars, signUpVars, downloadVars>>
InFiles(A) == part = "files" /\ A /\ UNCHANGED <<part, vars, graphVars, departmentVars, deviceVars, calendarVars, typeVars, signUpVars, downloadVars>>
InTree(A) == part \in {"tree", "staff"} /\ A /\ UNCHANGED <<part, vars, graphVars, attachmentVars, deviceVars, calendarVars, typeVars, signUpVars, downloadVars>>
InLogins(A) == part = "logins" /\ A /\ UNCHANGED <<part, vars, graphVars, attachmentVars, departmentVars, calendarVars, typeVars, signUpVars, downloadVars>>
InCalendar(A) == part = "calendar" /\ A /\ UNCHANGED <<part, vars, graphVars, attachmentVars, departmentVars, deviceVars, typeVars, signUpVars, downloadVars>>
InGraph(A) == part = "graph" /\ A /\ UNCHANGED <<part, vars, attachmentVars, departmentVars, deviceVars, calendarVars, typeVars, signUpVars, downloadVars>>
InTypes(A) == part = "types" /\ A /\ UNCHANGED <<part, vars, graphVars, attachmentVars, departmentVars, deviceVars, calendarVars, signUpVars, downloadVars>>
InSignUps(A) == part = "signups" /\ A /\ UNCHANGED <<part, vars, graphVars, attachmentVars, departmentVars, deviceVars, calendarVars, typeVars, downloadVars>>
InDownloads(A) == part = "downloads" /\ A /\ UNCHANGED <<part, vars, graphVars, attachmentVars, departmentVars, deviceVars, calendarVars, typeVars, signUpVars>>

NextServices ==
  \/ InDefinitions(Next)
  \/ InFiles(AttachmentsNext /\ FewMishaps)
  \/ InTree(DepartmentsNext /\ FewMoves)
  \/ InLogins(DevicesNext)
  \/ InCalendar(Calendar!CalendarNext /\ FewDays)
  \/ InGraph(GraphNext)
  \/ InTypes(TypesNext)
  \/ InSignUps(SignUpsNext)
  \/ InDownloads(DownloadsNext)

SpecServices == InitServices /\ [][NextServices]_servicesVars

(* The calendar's properties                                                 *)
CalendarIsRight == [](part = "calendar" => Calendar!CalendarIsSound) /\ Calendar!CalendarChangesWhatItNames
=============================================================================
