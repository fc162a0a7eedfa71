------------------------------ MODULE MCRecords ------------------------------
(* Small instances for TLC of what is left on record and who finds it there:  *)
(* approval mail, the payloads of forms, who is asked, shares and comments,  *)
(* reports, the directory and the certificates people sign with.  A          *)
(* behaviour is of one of them; the others stay as they were.                *)
EXTENDS MCApprovalMail, Directory, SigningCertificates, RequestTalk, Approvers, FormPayloads

CONSTANTS
  note, owner, items, name, qty, total, pump, PUMP, blank, padded, half, \* forms
  it, co, chi,                                                     \* approvers
  team,                                                            \* shares
  memo,                                                            \* reports
  n1, n2, w1, w2, call1, call2                                     \* directory, certificates

VARIABLES
  part,
  rNow, rRequests, rTasks, rHistory, rGot, rDoubled

reportsVars == <<rNow, rRequests, rTasks, rHistory, rGot, rDoubled>>

(* A form of a text, a person and a table with a computed column; versions   *)
(* of it in which every field changes its type, its bounds or its place; and *)
(* forms that are refused                                                    *)
Field(key, type) ==
  [key |-> key, type |-> type, required |-> FALSE, multiple |-> FALSE, allowed |-> Text \cup {0, 150},
   todays |-> {}, columns |-> <<>>, minRows |-> 0, maxRows |-> 2, unique |-> FALSE,
   formula |-> [left |-> qty, op |-> "*", right |-> qty]]
Formula(op, right) == [Field(total, "formula") EXCEPT !.formula = [left |-> qty, op |-> op, right |-> right]]
Table(columns) == [Field(items, "table") EXCEPT !.columns = columns]
Options(key, S) == [Field(key, "select") EXCEPT !.allowed = S]
Required(f) == [f EXCEPT !.required = TRUE]
Unique(f) == [f EXCEPT !.unique = TRUE]
Multiple(f) == [f EXCEPT !.multiple = TRUE]
Today(bound, f) == [f EXCEPT !.todays = {bound}]

GoodForms ==
  { <<>>,
    << Required(Field(note, "text")), Field(owner, "user"),
       Table(<< Unique(Field(name, "text")), [Field(qty, "number") EXCEPT !.allowed = {150, 0}], Formula("*", qty) >>) >>,
    << Field(note, "textarea"), Multiple(Field(owner, "user")),
       [Table(<< Options(name, {pump}), Field(qty, "money"), Formula("/", qty) >>) EXCEPT !.minRows = 2] >>,
    << Options(note, {pump}), Field(owner, "switch"),
       Table(<< Field(name, "date"), Required(Field(qty, "number")), Field(total, "number") >>) >>,
    << Today("minDate", Field(items, "dateRange")), Today("maxDate", Field(note, "date")),
       Required(Multiple(Field(owner, "principal"))) >> }
BadForms ==
  { << Field(note, "text"), Field(note, "switch") >>,
    << Options(note, {}) >>,
    << Table(<<>>) >>,
    << [Table(<< Field(qty, "number") >>) EXCEPT !.minRows = 3] >>,
    << Formula("+", 100) >>,
    << Table(<< Field(qty, "text"), Formula("-", 100) >>) >>,
    << Table(<< Field(qty, "number"), Formula("-", name) >>) >> }

String(t) == [kind |-> "string", of |-> t]
Number(n) == [kind |-> "number", of |-> n]
Cells(n, q, t) == (note :> Nothing @@ owner :> Nothing @@ items :> Nothing @@ name :> n @@ qty :> q @@ total :> t)
TableRows(rs) == [kind |-> "rows", of |-> rs]
SomeRows ==
  { [id |-> 0, cells |-> Cells(String(pump), Number(150), Nothing)],
    [id |-> 1, cells |-> Cells(String(PUMP), Number(0), Number(7))],
    [id |-> 1, cells |-> Cells(Nothing, Nothing, String(pump))],
    [id |-> 2, cells |-> Cells(Number(150), Number(150), Nothing)],
    [id |-> 3, cells |-> Cells(Nothing, Number(150), Nothing)],
    [id |-> 4, cells |-> Cells(Nothing, Nothing, Nothing)] }
OneRow == TableRows(<< [id |-> 1, cells |-> Cells(String(pump), Number(150), Nothing)] >>)
Items ==
  { Nothing, String(pump), [kind |-> "strings", of |-> <<pump, pump>>] }
  \cup { TableRows(rs) : rs \in UNION { [1..n -> SomeRows] : n \in 0..2 } }
Owners ==
  { Nothing, [kind |-> "record", of |-> ann], [kind |-> "records", of |-> <<ann>>], [kind |-> "record", of |-> half],
    [kind |-> "records", of |-> <<ann, bob>>], [kind |-> "records", of |-> <<half>>], [kind |-> "boolean", of |-> TRUE] }
Payload(n, o, i) == (note :> n @@ owner :> o @@ items :> i @@ name :> Nothing @@ qty :> Nothing @@ total :> Nothing)
Drafts ==
  { Payload(n, o, OneRow) : n \in {Nothing, String(padded), String(blank), Number(0)}, o \in Owners }
  \cup { Payload(String(pump), Nothing, i) : i \in Items }
  \cup { Payload(String(n), [kind |-> "records", of |-> <<ann>>], [kind |-> "strings", of |-> <<pump, padded>>]) :
           n \in {pump, padded} }

FormKeys == {note, owner, items, name, qty, total}
AllForms == GoodForms \cup BadForms
Trimming == pump :> pump @@ PUMP :> PUMP @@ blank :> blank @@ padded :> pump
DayOf == pump :> 1 @@ PUMP :> 0 @@ blank :> 0 @@ padded :> 2
SomeSentIds == 1..4
BareIds == 1 :> 1 @@ 2 :> 2 @@ 3 :> 1 @@ 4 :> 4
Folding == pump :> pump @@ PUMP :> pump @@ blank :> blank @@ padded :> pump

-----------------------------------------------------------------------------
(* Two departments that may be each other's parent, any of three people or   *)
(* nobody leading them, some locked; every kind of question                  *)
SmallCharts ==
  { [head |-> (it :> h1 @@ co :> h2), deputy |-> (it :> p1 @@ co :> p2), parent |-> (it :> co @@ co :> up),
     gone |-> {}, home |-> (ann :> it @@ bob :> co @@ chi :> Missing), active |-> there] :
       h1 \in {ann, bob, Missing}, h2 \in {bob, chi}, p1 \in {ann, bob, chi, Missing}, p2 \in {Missing, ann}, up \in {Missing, it},
       there \in {{ann, bob, chi}, {ann, chi}} }

Asks(kind, d, who, except, climb) == [kind |-> kind, dept |-> d, who |-> who, except |-> except, climb |-> climb]
AllQuestions ==
  { Asks("head", it, Missing, {ann}, FALSE), Asks("deputy", it, Missing, {ann}, FALSE),
    Asks("leaderHead", it, Missing, {}, TRUE), Asks("leaderDeputy", it, Missing, {}, FALSE), Asks("leaderAny", it, Missing, {}, TRUE),
    Asks("above", Missing, ann, {ann, bob}, FALSE), Asks("above", Missing, ann, {ann}, FALSE),
    Asks("deputyAbove", Missing, ann, {ann}, FALSE) }

-----------------------------------------------------------------------------
(* Shares and comments of the requester and one approver, with a group either *)
(* may belong to; the code allows one level of comments more.  Bounds: shares *)
(* or comments, not both; the approver of the first round and the requester   *)
(* of the second; comments in the first round while it is pending or          *)
(* cancelled, or on a draft that was cancelled, of which the first is edited  *)
(* once; fewer of either once it is cancelled                                 *)
IsOfComments(c) == c.op \in {"comment", "writing", "edit", "remove"}
OneTopic ==
  /\ <<1, ann>> \notin takers' /\ <<2, bob>> \notin takers'
  /\ topic'.status # "approved"
  /\ topic'.status = "cancelled" => topic'.round + Len(comments') <= 2 /\ topic'.round + Len(shares') <= 1
  /\ \/ comments' = <<>> /\ \A u \in {ann, bob} : ~IsOfComments(calls'[u])
     \/ /\ shares' = <<>> /\ inGroup' = inGroup
        /\ topic'.status = "cancelled" \/ (topic'.status = "pending" /\ topic'.round = 1)
        /\ \A u \in {ann, bob} :
             LET c == calls'[u] IN
             /\ IsOfComments(c) \/ c.op = "none"
             /\ c.op = "edit" => c.comment = 1 /\ ~comments[1].edited

-----------------------------------------------------------------------------
(* A request through three rounds in three days, of which a week has two, and *)
(* another of the same requester                                             *)
Report == INSTANCE Reports WITH
  Request <- {memo, note}, Person <- {ann, bob}, Group <- {team}, Principal <- {team},
  Requester <- ann, Member <- {bob}, ActivityWindow <- 1, Shown <- 1, ActivityCap <- 1, Listed <- 2,
  Week <- 2, Shift <- 1, Limits <- <<1, 2>>, MaxTime <- 2, MaxTasks <- 3, MaxHistory <- 4, MaxRound <- 3,
  now <- rNow, requests <- rRequests, tasks <- rTasks, history <- rHistory, got <- rGot, doubled <- rDoubled

(* Bounds: four remarks in two days or three in three, one less if both have  *)
(* any; the second has one                                                   *)
FewRemarks ==
  LET ofNote == { k \in DOMAIN rHistory' : rHistory'[k].request = note }
  IN  Cardinality(ofNote) <= 1 /\ rNow' + Len(rHistory') + Cardinality(ofNote) <= 5

-----------------------------------------------------------------------------
(* Three certificates, of which the third is enrolled if nothing was cut      *)
(* short; nothing more once two calls have crossed                           *)
FewCertificates == ~crossed /\ (made' = MaxCertificates => ~cut')

-----------------------------------------------------------------------------
(* A fault or a resend, not both, and the resend when the relays are done:   *)
(* the run of MCBackground has both at any time, with one relay and one      *)
(* consumer                                                                  *)
OneDisturbance ==
  faults' + resends' <= 1 /\ (resends' > 0 => \A r \in Relay : relay'[r] = AtRest)

-----------------------------------------------------------------------------
recordsVars == <<part, vars, formVars, approverVars, talkVars, reportsVars, directoryVars, certificateVars>>

InitRecords ==
  /\ part \in {"mail", "forms", "approvers", "talk", "reports", "people", "signing"}
  /\ Init /\ TalkInit /\ CertificatesInit /\ DirectoryInit
  /\ (IF part = "forms" THEN TRUE ELSE form = <<>>) /\ FormsInit
  /\ (IF part = "approvers" THEN TRUE ELSE dir = (CHOOSE chart \in Chart : TRUE)) /\ ApproversInit
  /\ part # "approvers" => Asked = (CHOOSE question \in Question : TRUE)
  /\ IF part = "reports" THEN Report!ReportsInit /\ rRequests[note].status = "draft"
     ELSE rNow = 0 /\ rRequests = None /\ rTasks = <<>> /\ rHistory = <<>> /\ rGot = <<>> /\ rDoubled = {}
  /\ part # "people" => account = {} /\ row[team] = Null

InMail(A) == part = "mail" /\ A /\ UNCHANGED <<part, formVars, approverVars, talkVars, reportsVars, directoryVars, certificateVars>>
InForms(A) == part = "forms" /\ A /\ UNCHANGED <<part, vars, approverVars, talkVars, reportsVars, directoryVars, certificateVars>>
InApprovers(A) == part = "approvers" /\ A /\ UNCHANGED <<part, vars, formVars, talkVars, reportsVars, directoryVars, certificateVars>>
InTalk(A) == part = "talk" /\ A /\ UNCHANGED <<part, vars, formVars, approverVars, reportsVars, directoryVars, certificateVars>>
InReports(A) == part = "reports" /\ A /\ UNCHANGED <<part, vars, formVars, approverVars, talkVars, directoryVars, certificateVars>>
InPeople(A) == part = "people" /\ A /\ UNCHANGED <<part, vars, formVars, approverVars, talkVars, reportsVars, certificateVars>>
InSigning(A) == part = "signing" /\ A /\ UNCHANGED <<part, vars, formVars, approverVars, talkVars, reportsVars, directoryVars>>

NextRecords ==
  \/ InMail(Next /\ OneDisturbance)
  \/ InForms(FormsNext /\ today' <= 2)
  \/ InApprovers(ApproversNext)
  \/ InTalk(TalkNext /\ OneTopic)
  \/ InReports(Report!ReportsNext /\ FewRemarks)
  \/ InPeople(DirectoryNext)
  \/ InSigning(CertificatesNext /\ FewCertificates)

SpecRecords == InitRecords /\ [][NextRecords]_recordsVars

(* The properties of the parts                                               *)
ReportsAreTrue == [](part = "reports" => Report!ReportsAddUp /\ Report!HomePageIsTrue) /\ Report!PastFiguresStay
=============================================================================
