-------------------------------- MODULE Reports --------------------------------
(***************************************************************************)
(* The reports on requests (ApprovalReportService) and the figures of one's  *)
(* home page (ApprovalTaskService): what they count, for how long they say    *)
(* something waited, and who they say did it, worked out from rows of         *)
(* requests, tasks and histories that go on changing.                         *)
(*                                                                           *)
(* The engine is reduced to what it leaves in those rows: a request has one  *)
(* task at a time, which may be handed on, and any number of steps.  A       *)
(* request of the time before histories has no row for its first submission. *)
(***************************************************************************)
EXTENDS Integers, FiniteSetsExt, SequencesExt

CONSTANTS
  Request,
  Person, Group, Principal, \* Principal is Person \cup Group
  Requester,                \* who sends the requests
  Member,                   \* the people of every group
  Week, Shift,              \* ticks of a week, from tick -Shift on
  Limits,                   \* the bounds of the first three ages of the backlog
  ActivityWindow, Shown,    \* the home page: how far back activity goes, and how many rows
  ActivityCap,              \* ... of the newest tasks and requests
  Listed,                   \* rows of approvers at most
  MaxTime, MaxTasks, MaxHistory, MaxRound, \* bounds
  None

VARIABLES
  now,
  requests, \* request -> [status, round, submittedAt, closedAt]
  tasks,    \* in the order of their creation
  history,  \* rows [at, action, actor, request, task]
  got,      \* history variable: when a task came to the one who has it by escalation
  doubled   \* history variable: tasks approved along with another by the same click

reportVars == <<now, requests, tasks, history, got, doubled>>

ReportsInit ==
  /\ now = 0
  /\ requests \in [Request -> { [status |-> "draft", round |-> 0, submittedAt |-> None, closedAt |-> None],
                               [status |-> "returned", round |-> 1, submittedAt |-> 0, closedAt |-> None] }]
  /\ tasks = <<>> /\ history = <<>> /\ got = <<>> /\ doubled = {}

-----------------------------------------------------------------------------
(* What the engine writes                                                    *)

Remark(action, u, r, t) == [at |-> now, action |-> action, actor |-> u, request |-> r, task |-> t]
Row(action, u, r, t) == Len(history) < MaxHistory /\ history' = Append(history, Remark(action, u, r, t))

\* A group keeps a task, or one of its people gets it.
Task(r, round, p) ==
  { [request |-> r, round |-> round, origin |-> p, approver |-> a, assigned |-> a # p, status |-> "pending",
     createdAt |-> now, dueAt |-> now + 1, actedBy |-> None, actedAt |-> None] :
       a \in {p} \cup (IF p \in Group THEN Member ELSE {}) }

Send(r, p) ==
  LET q == requests[r] IN
  /\ q.status \in {"draft", "returned"} /\ q.round < MaxRound
  /\ requests' = [requests EXCEPT ![r] = [@ EXCEPT !.status = "pending", !.round = @ + 1, !.submittedAt = now, !.closedAt = None]]
  /\ Len(tasks) < MaxTasks
  /\ \E t \in Task(r, q.round + 1, p) : tasks' = Append(tasks, t) /\ got' = Append(got, now)
  /\ Row(IF q.status = "returned" THEN "resubmit" ELSE "submit", Requester, r, None)
  /\ UNCHANGED <<now, doubled>>

Waiting(t) == tasks[t].status = "pending"

\* A step is approved, and the next one waits or the request is done.
Approve(t, u, action) ==
  LET r == tasks[t].request
      done == [tasks EXCEPT ![t] = [@ EXCEPT !.status = "approved", !.actedBy = u, !.actedAt = now]]
  IN  /\ Waiting(t)
      /\ \/ /\ requests' = [requests EXCEPT ![r] = [@ EXCEPT !.status = "approved", !.closedAt = now]]
            /\ tasks' = done /\ got' = got
         \/ /\ Len(tasks) < MaxTasks
            /\ \E p \in Principal : \E next \in Task(r, tasks[t].round, p) : tasks' = Append(done, next)
            /\ got' = Append(got, now) /\ requests' = requests
      /\ Row(action, u, r, t)
      /\ UNCHANGED now

ApproveByHand(t, u) == Approve(t, u, "approve") /\ UNCHANGED doubled
ApproveOverdue(t) == tasks[t].dueAt < now /\ Approve(t, None, "auto_approve") /\ UNCHANGED doubled
\* A task that only the one who approves another could decide.
ApproveAlong(t, u) ==
  /\ IF tasks[t].approver \in Person THEN u = tasks[t].approver ELSE u \in Member
  /\ Approve(t, u, "auto_approve") /\ doubled' = doubled \cup {t}

Close(t, u, verdict, action) ==
  LET r == tasks[t].request IN
  /\ Waiting(t)
  /\ tasks' = [tasks EXCEPT ![t] = [@ EXCEPT !.status = verdict, !.actedBy = u, !.actedAt = now]]
  /\ requests' = [requests EXCEPT ![r] =
       [@ EXCEPT !.status = verdict, !.closedAt = IF verdict = "rejected" THEN now ELSE @]]
  /\ Row(action, u, r, t)
  /\ UNCHANGED <<now, got, doubled>>

Refuse(t, u) == Close(t, u, "rejected", "reject")
RefuseOverdue(t) == tasks[t].dueAt < now /\ Close(t, None, "rejected", "auto_reject")
GiveBack(t, u) == Close(t, u, "returned", "return")

Cancel(r) ==
  /\ requests[r].status \in {"draft", "returned", "pending"}
  /\ requests' = [requests EXCEPT ![r] = [@ EXCEPT !.status = "cancelled", !.closedAt = now]]
  /\ tasks' = [t \in DOMAIN tasks |-> IF tasks[t].request = r /\ Waiting(t) THEN [tasks[t] EXCEPT !.status = "skipped", !.actedAt = now] ELSE tasks[t]]
  /\ Row("cancel", Requester, r, None)
  /\ UNCHANGED <<now, got, doubled>>

Escalate(t, p) ==
  /\ Waiting(t) /\ tasks[t].dueAt < now /\ tasks[t].approver \in Person /\ p # tasks[t].approver
  /\ tasks' = [tasks EXCEPT ![t] = [@ EXCEPT !.approver = p, !.assigned = FALSE, !.dueAt = now + 1]]
  /\ got' = [got EXCEPT ![t] = now]
  /\ Row("escalate", None, tasks[t].request, t)
  /\ UNCHANGED <<now, requests, doubled>>

\* By somebody with the right to, or by the system when the one of a group who
\* had the task has left it; the reports take neither for a new beginning.
HandOver(t, p, u, assigned, action) ==
  /\ Waiting(t) /\ p # tasks[t].approver
  /\ tasks' = [tasks EXCEPT ![t] = [@ EXCEPT !.approver = p, !.assigned = assigned]]
  /\ Row(action, u, tasks[t].request, t)
  /\ UNCHANGED <<now, requests, got, doubled>>
Reassign(t, p, u) == HandOver(t, p, u, FALSE, "reassign")
Regroup(t, p) == tasks[t].assigned /\ p \in Member /\ HandOver(t, p, None, TRUE, "regroup")

Remind(t) ==
  /\ Waiting(t) /\ tasks[t].dueAt < now
  /\ Row("remind", None, tasks[t].request, t)
  /\ UNCHANGED <<now, requests, tasks, got, doubled>>

Tick == now < MaxTime /\ now' = now + 1 /\ UNCHANGED <<requests, tasks, history, got, doubled>>

ReportsNext ==
  \/ Tick
  \/ \E r \in Request : Cancel(r) \/ (\E p \in Principal : Send(r, p))
  \/ \E t \in DOMAIN tasks :
       \/ ApproveOverdue(t) \/ RefuseOverdue(t) \/ Remind(t)
       \/ \E u \in Person : ApproveByHand(t, u) \/ ApproveAlong(t, u) \/ Refuse(t, u) \/ GiveBack(t, u) \/ Escalate(t, u)
            \/ Reassign(t, u, Requester) \/ Regroup(t, u)

-----------------------------------------------------------------------------
(* What the reports make of it                                               *)

RowsOf(action) == { k \in DOMAIN history : history[k].action = action }

LastSubmit(r) == requests[r].submittedAt

\* FIRST_SUBMIT_SQL
FirstSubmit(r) ==
  LET sent == { history[k].at : k \in { j \in RowsOf("submit") : history[j].request = r } }
  IN  IF sent = {} THEN requests[r].submittedAt ELSE Min(sent)

\* receivedAtSql
ReceivedAt(t, until) ==
  LET moved == { history[k].at : k \in { j \in RowsOf("escalate") : history[j].task = t /\ history[j].at <= until } }
  IN  IF moved = {} THEN tasks[t].createdAt ELSE Max(moved)

Between(time, from, to) == time # None /\ from <= time /\ time < to

\* baseCte: the requests first sent in a range [from, to)
Sent(from, to) == { r \in Request : requests[r].status # "draft" /\ Between(FirstSubmit(r), from, to) }
Having(S, statuses) == { r \in S : requests[r].status \in statuses }

\* Weeks begin on Mondays, the epoch did not.
WeekOf(time) == (time + Shift) \div Week
WeekStart(w) == w * Week - Shift
Weekly(from, to) ==
  [w \in { WeekOf(FirstSubmit(r)) : r \in Sent(from, to) } |->
     [s \in {"approved", "pending", "returned", "rejected", "cancelled"} |->
        Cardinality({ r \in Having(Sent(from, to), {s}) : WeekOf(FirstSubmit(r)) = w })]]

\* In tenths of a percent, rounded to the nearest.
Rate(part, total) == IF total = 0 THEN None ELSE (2000 * part + total) \div (2 * total)
Summary(from, to) ==
  LET sent == Sent(from, to)
      decided == Having(sent, {"approved", "rejected", "cancelled"})
  IN  [sent |-> Cardinality(sent),
       approvalRate |-> Rate(Cardinality(Having(sent, {"approved"})), Cardinality(decided)),
       resubmitted |-> Cardinality({ r \in sent : requests[r].round > 1 }),
       cycle |-> { requests[r].closedAt - FirstSubmit(r) : r \in Having(sent, {"approved", "rejected"}) }]

\* getPerformance: what people did in a range, what the system did, who has what
Handled(from, to) ==
  { t \in DOMAIN tasks :
      /\ tasks[t].status \in {"approved", "rejected", "returned"} /\ tasks[t].actedBy # None
      /\ Between(tasks[t].actedAt, from, to) }
Automatic(from, to) ==
  { k \in RowsOf("auto_approve") \cup RowsOf("auto_reject") : Between(history[k].at, from, to) }
Held == { t \in DOMAIN tasks :
            LET r == tasks[t].request IN
            Waiting(t) /\ requests[r].status = "pending" /\ tasks[t].round = requests[r].round }
Overdue == { t \in Held : tasks[t].dueAt < now }
OnTime(S) == { t \in S : tasks[t].actedAt <= tasks[t].dueAt }
Wait(t) == tasks[t].actedAt - ReceivedAt(t, tasks[t].actedAt)
Approvers(handled) ==
  [p \in { tasks[t].actedBy : t \in handled } \cup { tasks[t].approver : t \in Held } |->
     LET his == { t \in handled : tasks[t].actedBy = p }
         has == { t \in Held : tasks[t].approver = p }
     IN  [done |-> Cardinality(his),
          proxy |-> Cardinality({ t \in his : tasks[t].approver \in Person \ {p} }),
          onTime |-> Cardinality(OnTime(his)),
          waits |-> MapThenSumSet(Wait, his), \* shown divided by done
          pending |-> Cardinality(has),
          overdue |-> Cardinality(has \cap Overdue)]]

\* The slowest first, then those who have more; those who have done nothing last.
IsBefore(a, b) ==
  LET slower(x, y) == x.done > 0 /\ (y.done = 0 \/ x.waits * y.done > y.waits * x.done)
  IN  slower(a, b) \/ (~slower(b, a) /\ a.pending > b.pending)
\* The lists of people that may come of it, of equal rows any
ListsOf(rows) ==
  { L \in kSubset(Min({Listed, Cardinality(DOMAIN rows)}), DOMAIN rows) :
      \A p \in L, q \in DOMAIN rows \ L : ~IsBefore(rows[q], rows[p]) }

\* currentState
CurrentState ==
  [pending |-> Cardinality(Having(Request, {"pending"})),
   returned |-> Cardinality(Having(Request, {"returned"})),
   overdue |-> Cardinality({ r \in Having(Request, {"pending"}) : \E t \in Overdue : tasks[t].request = r })]

\* getBacklog
Age(t) ==
  LET above == { k \in DOMAIN Limits : now - ReceivedAt(t, now) < Limits[k] } IN
  IF above = {} THEN Len(Limits) + 1 ELSE Min(above)
Aging == [k \in 1..Len(Limits) + 1 |-> Cardinality({ t \in Held : Age(t) = k })]

\* getRequestTypes: in how many rounds, and what sent the requests back
Rounds(from, to) ==
  LET In(S) == Cardinality({ r \in Sent(from, to) : requests[r].round \in S })
  IN  [one |-> In(0..1), two |-> In({2}), more |-> In(3..MaxRound)]
Setbacks(from, to) ==
  { k \in RowsOf("return") \cup RowsOf("reject") \cup RowsOf("auto_reject") : history[k].request \in Sent(from, to) }

\* getRequestTypes, the share of each outcome
Outcomes(from, to) ==
  LET sent == Sent(from, to)
      decided == Cardinality(Having(sent, {"approved", "rejected", "cancelled"}))
  IN  [s \in {"approved", "rejected", "cancelled"} |-> Rate(Cardinality(Having(sent, {s})), decided)]

-----------------------------------------------------------------------------
(* What a home page makes of it                                              *)

\* countActed
Acted(u, status, from, to) ==
  { t \in DOMAIN tasks :
      tasks[t].actedBy = u /\ tasks[t].status = status /\ Between(tasks[t].actedAt, from, to) }

\* getApprovalRateStats, in percent
ApprovalRate(u, from, to) ==
  LET Of(status) == Cardinality(Acted(u, status, from, to))
      decided == Of("approved") + Of("rejected") + Of("returned")
  IN  IF decided = 0 THEN 0 ELSE (200 * Of("approved") + decided) \div (2 * decided)

\* actedSamples, and the days they waited; getAvgApprovalTime shows the mean
ActedSamples(u, from, to) == UNION { Acted(u, s, from, to) : s \in {"approved", "rejected", "returned"} }
WaitingDays(t) == Max({0, tasks[t].actedAt - tasks[t].createdAt})
AvgApprovalTime(u, from, to) ==
  LET samples == ActedSamples(u, from, to)
  IN  [days |-> MapThenSumSet(WaitingDays, samples), count |-> Cardinality(samples)]

ACTIVITY_ACTIONS ==
  {"submit", "resubmit", "approve", "auto_approve", "reject", "auto_reject", "return", "reassign", "regroup"}

\* The rows of reassigned and regrouped tasks have one action and two reasons.
ActivityKind(action) ==
  CASE action \in {"submit", "resubmit"}      -> "submitted"
    [] action \in {"approve", "auto_approve"} -> "approved"
    [] action \in {"reject", "auto_reject"}   -> "rejected"
    [] action = "return"                      -> "returned"
    [] action = "reassign"                    -> "reassigned"
    [] OTHER                                  -> None

Newest(S, n) == { k \in S : Cardinality({ j \in S : j > k }) < n }

\* The tasks one has, or had, to do with, and the requests; of too many of one's
\* own those that were changed last, here any.
Involved(u) ==
  { t \in DOMAIN tasks : \/ u \in {tasks[t].actedBy, tasks[t].approver, tasks[t].origin}
                         \/ u \in Member /\ tasks[t].approver \in Group }
Own(u) == IF u = Requester THEN Request ELSE {}
Related(u) ==
  LET others == { tasks[t].request : t \in Newest(Involved(u), ActivityCap) }
  IN  { others \cup own : own \in kSubset(Min({ActivityCap, Cardinality(Own(u))}), Own(u)) }

\* getRecentActivity, the newest first; rows that are not shown take their place
Fetched(related) ==
  Newest({ k \in DOMAIN history : /\ history[k].request \in related /\ history[k].action \in ACTIVITY_ACTIONS
                                  /\ history[k].at >= now - ActivityWindow }, 3 * Shown)
RecentActivity(related) == Newest({ k \in Fetched(related) : ActivityKind(history[k].action) # None }, Shown)

-----------------------------------------------------------------------------
\* All but the requests of the time before histories
Recorded(S) == { r \in S : \E k \in RowsOf("submit") : history[k].request = r }

LeftOut(u, t) ==
  /\ u = Requester => Cardinality(Request) > ActivityCap
  /\ u = tasks[t].actedBy => Cardinality({ s \in Involved(u) : s > t }) >= ActivityCap

NotAhead(a, b) ==
  /\ a.waits * b.done <= b.waits * a.done
  /\ b.done = 0 => a.done = 0 /\ a.pending <= b.pending

Total(f) == MapThenSumSet(LAMBDA k : f[k], DOMAIN f)

(* The figures of a report agree with one another and with what happened.    *)
(* Every request sent in a range is in one week of the chart, and that week   *)
(* has its first submission; what was approved or rejected was closed after   *)
(* it was first sent; every task that was closed in a range was handled by    *)
(* somebody or by the system, and counts twice only when it was approved      *)
(* along with another; a wait is measured from the escalation that brought    *)
(* the task to the one who has it, or had it; the ages of the backlog leave   *)
(* nothing out, nor do the rows of the approvers unless they are too many:     *)
(* then nobody is left out who took longer on average than anybody listed,    *)
(* nor anybody who took any time for one who has only tasks waiting; no       *)
(* request waits unseen; a round more means that something sent it back.      *)
ReportsAddUp ==
  /\ \A from \in 0..now : \A to \in from + 1..now + 1 :
       LET weekly == Weekly(from, to)
           handled == Handled(from, to)
           rows == Approvers(handled)
           closed == { t \in DOMAIN tasks : tasks[t].status \notin {"pending", "skipped"} /\ Between(tasks[t].actedAt, from, to) }
       IN  /\ Total([w \in DOMAIN weekly |-> Total(weekly[w])]) = Summary(from, to).sent
           /\ \A r \in Sent(from, to) : LET w == WeekOf(FirstSubmit(r)) IN
                WeekStart(w) <= FirstSubmit(r) /\ FirstSubmit(r) < WeekStart(w + 1)
           /\ \A c \in Summary(from, to).cycle : c >= 0
           /\ Rounds(from, to).two + Rounds(from, to).more = Summary(from, to).resubmitted
           /\ \A r \in Recorded(Sent(from, to)) :
                LET again == requests[r].round - 1 IN
                Cardinality({ k \in Setbacks(from, to) : history[k].request = r })
                  \in CASE requests[r].status \in {"returned", "rejected"} -> {again + 1}
                       [] requests[r].status = "cancelled" -> {again, again + 1}
                       [] OTHER -> {again}
           /\ Cardinality(handled) + Cardinality(Automatic(from, to)) = Cardinality(closed) + Cardinality(doubled \cap closed)
           /\ \A L \in ListsOf(rows) :
                /\ Cardinality(DOMAIN rows) <= Listed =>
                     /\ Total([p \in L |-> rows[p].done]) = Cardinality(handled)
                     /\ Total([p \in L |-> rows[p].pending]) = Total(Aging)
                /\ \A p \in DOMAIN rows \ L : Cardinality(L) = Listed /\ \A q \in L : NotAhead(rows[p], rows[q])
           /\ \A t \in handled : ReceivedAt(t, tasks[t].actedAt) = got[t]
  /\ \A t \in Held : ReceivedAt(t, now) = got[t]
  /\ \A r \in Having(Request, {"pending"}) : \E t \in Held : tasks[t].request = r

(* The home page and the reports, which read the same rows with queries of    *)
(* their own, agree on what one has done; the home page measures a wait from   *)
(* the creation of the task, so that it shows the longer one for a task that    *)
(* was escalated, and the same for all others.  What one decides is among the   *)
(* recent activity of oneself and of the requester, with the verdict and the    *)
(* name of who gave it, unless newer rows fill the list, the newest tasks one    *)
(* has to do with leave it out, or the requester has more requests than are      *)
(* looked at; what nobody decided has nobody's name, and no row that is not      *)
(* shown is the reason why an older one is missing, unless most of the newest    *)
(* rows are such.                                                               *)
HomePageIsTrue ==
  /\ \A from \in 0..now : \A to \in from + 1..now + 1 :
       LET handled == Handled(from, to)
           rows == Approvers(handled)
       IN  \A u \in Person :
             LET home == AvgApprovalTime(u, from, to)
                 row == rows[u]
             IN  /\ home.count = (IF u \in DOMAIN rows THEN row.done ELSE 0)
                 /\ home.count > 0 =>
                      /\ home.days >= row.waits
                      /\ home.days > row.waits =>
                           \E k \in RowsOf("escalate") : history[k].task \in ActedSamples(u, from, to)
                 /\ ApprovalRate(u, from, to) = 100 => Acted(u, "rejected", from, to) = {}
  /\ \A u \in Person, t \in DOMAIN tasks :
       /\ tasks[t].actedAt # None /\ tasks[t].status \notin {"pending", "skipped"}
       /\ tasks[t].actedAt >= now - ActivityWindow /\ u \in {tasks[t].actedBy, Requester}
       => \A related \in Related(u) :
            LET rows == RecentActivity(related)
                shown == { k \in rows : history[k].task = t /\ ActivityKind(history[k].action) = tasks[t].status }
                hidden == { k \in Fetched(related) : ActivityKind(history[k].action) = None }
            IN  /\ \A k \in shown : history[k].actor = tasks[t].actedBy
                /\ shown = {} => \/ Cardinality(rows) = Shown \/ Cardinality(hidden) > 2 * Shown
                                 \/ LeftOut(u, t)
  /\ CurrentState.overdue <= CurrentState.pending
  /\ CurrentState.overdue > 0 <=> \E t \in Held : ReceivedAt(t, now) < now /\ tasks[t].dueAt < now

(* The number of requests sent in a range that is over stays as it was,       *)
(* whatever becomes of them: sent again after they came back, a request still  *)
(* counts where it was first sent.                                             *)
PastFiguresStay ==
  [][\A from \in 0..now : \A to \in from + 1..now : Recorded(Sent(from, to))' = Recorded(Sent(from, to))]_reportVars

ReportsAreTrue == [](ReportsAddUp /\ HomePageIsTrue) /\ PastFiguresStay
=============================================================================
