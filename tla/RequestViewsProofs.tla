-------------------------- MODULE RequestViewsProofs --------------------------
(***************************************************************************)
(* All views of a request agree and previews come true, for every workflow, *)
(* every organisation and every set of delegations.                         *)
(***************************************************************************)
EXTENDS RequestPreview, ApprovalEngineProofs

-----------------------------------------------------------------------------
(* The inductive invariant: beside the engine's, what the rows of open tasks *)
(* and of groups look like, and what a reassignment in progress has read      *)

NobodyYet(t, row) == row.status = "pending" => row.actedBy = None
GroupsHandNothing(t, row) == row.approver \in Group => row.handovers = {}
RowsRead == \A t \in DOMAIN tasks : NobodyYet(t, tasks[t]) /\ GroupsHandNothing(t, tasks[t])
ReadOfAPerson == admin # None /\ admin.holder \in User => tasks[admin.task].approver \in User

ViewInv == DecisionInv /\ RowsRead /\ ReadOfAPerson

(* A new row: nobody decided it, and an open one has the handovers of its     *)
(* holder                                                                     *)
Fresh(t, row) ==
  /\ row.actedBy = None
  /\ row.approver \in Group => row.handovers = {}
  /\ row.status = "pending" => row.handovers = HandoversOf(row.approver, t.node)

LEMMA GroupsGrantNothing ==
  ASSUME NEW g \in Group, NEW n
  PROVE  HandoversOf(g, n) = {}
<1>1. \A d \in Delegation : d.from \in User
  BY ConstantsAssumption
<1> QED
  BY <1>1, ConstantsAssumption DEF HandoversOf

LEMMA FreshRows ==
  ASSUME NEW ts, NEW r, NEW v, NEW from, NEW seen, Advance(ts, r, v, from, seen)
  PROVE  \A t \in DOMAIN tasks' \ DOMAIN ts : Fresh(t, tasks'[t])
<1>1. \A t : Fresh(t, WaivedTask(t))
  BY DEF Fresh, WaivedTask
<1>2. ASSUME NEW t, NEW draw PROVE Fresh(t, OpenTask(t, draw))
  <2>1. OpenTask(t, draw).actedBy = None /\ OpenTask(t, draw).status = "pending"
        /\ OpenTask(t, draw).handovers = HandoversOf(OpenTask(t, draw).approver, t.node)
    BY DEF OpenTask
  <2> QED
    BY <2>1, GroupsGrantNothing DEF Fresh
<1>3. PICK S \in SUBSET Node, stop \in Node \cup {End} :
        IF stop = End THEN Complete(ts, r, S, seen) ELSE Arrive(ts, r, S, stop, seen)
  BY DEF Advance
<1>4. CASE Complete(ts, r, S, seen)
  BY <1>1, <1>4 DEF Complete
<1>5. CASE Arrive(ts, r, S, stop, seen)
  <2>1. PICK draw \in Draws(stop) :
       tasks' = [t \in DOMAIN ts \cup Waived(r, S \cup {stop}) \cup OpenIds(r, stop) |->
                  IF t \in OpenIds(r, stop) THEN OpenTask(t, draw)
                  ELSE IF t \in Waived(r, S \cup {stop}) THEN WaivedTask(t)
                  ELSE ts[t]]
    BY <1>5 DEF Arrive
  <2> QED
    BY <1>1, <1>2, <2>1
<1> QED
  BY <1>3, <1>4, <1>5

-----------------------------------------------------------------------------
(* The invariant holds                                                      *)

(* What any step does to the rows: it decides those of A and skips those of D, *)
(* and adds new ones                                                           *)
Writes(ts, A, how, D, u, new) ==
  /\ A \subseteq Open /\ D \subseteq Open /\ how \in {"approved", "rejected", "returned"}
  /\ Decides(ts, A, how, D, u) /\ Continues(ts, new)
  /\ \A t \in DOMAIN tasks' \ DOMAIN ts : Fresh(t, tasks'[t])

(* Rows that are written and no new ones *)
LEMMA WritesInPlace ==
  ASSUME NEW ts, tasks' = ts, NEW A, NEW D, NEW how, NEW u, Decides(ts, A, how, D, u),
         A \subseteq Open, D \subseteq Open, how \in {"approved", "rejected", "returned"}
  PROVE  Writes(ts, A, how, D, u, {})
BY NothingNew DEF Writes

LEMMA ApprovalWrites ==
  ASSUME DecisionInv, NEW u, NEW ts, NEW A, NEW D, ApprovalStep(ts, A, D, u)
  PROVE  \E new : Writes(ts, A, "approved", D, u, new)
<1>1. /\ status = "pending" /\ A \subseteq Open /\ D \subseteq Open
      /\ Table(ts) /\ Decides(ts, A, "approved", D, u) /\ round' = round
  BY DEF ApprovalStep, Approves
<1>2. DOMAIN ts = DOMAIN tasks /\ Inv /\ RowsOK /\ WalkOK
  BY <1>1 DEF Decides, DecisionInv, Decisions
<1>3. CASE Stays(ts)
  BY <1>1, <1>3, WritesInPlace DEF Stays
<1>4. CASE Leaves(ts)
  <2>1. PICK new : Continues(ts, new)
    BY <1>1, <1>2, <1>4, LeavesWalks
  <2>2. \A t \in DOMAIN tasks' \ DOMAIN ts : Fresh(t, tasks'[t])
    BY <1>4, FreshRows DEF Leaves
  <2> QED
    BY <1>1, <2>1, <2>2 DEF Writes
<1> QED
  BY <1>3, <1>4 DEF ApprovalStep

LEMMA DropWrites ==
  ASSUME DecisionInv, NEW ts, NEW t \in DOMAIN tasks, DropStep(ts, t)
  PROVE  \E new : Writes(ts, {}, "approved", {t}, None, new)
<1>1. /\ status = "pending" /\ {t} \subseteq Open
      /\ Table(ts) /\ Decides(ts, {}, "approved", {t}, None) /\ round' = round
  BY DEF DropStep, Drops
<1>2. DOMAIN ts = DOMAIN tasks /\ Inv /\ RowsOK /\ WalkOK
  BY <1>1 DEF Decides, DecisionInv, Decisions
<1>3. CASE Stays(ts)
  <2> DEFINE none == {}
             D == {t}
  <2>1. none \subseteq Open /\ D \subseteq Open /\ Decides(ts, none, "approved", D, None) /\ tasks' = ts
    BY <1>1, <1>3 DEF Stays
  <2> HIDE DEF none, D
  <2>2. Writes(ts, none, "approved", D, None, {})
    BY <2>1, WritesInPlace
  <2> QED
    BY <2>2 DEF none, D
<1>4. CASE Leaves(ts)
  <2>1. PICK new : Continues(ts, new)
    BY <1>1, <1>2, <1>4, LeavesWalks
  <2>2. \A o \in DOMAIN tasks' \ DOMAIN ts : Fresh(o, tasks'[o])
    BY <1>4, FreshRows DEF Leaves
  <2> QED
    BY <1>1, <2>1, <2>2 DEF Writes
<1> QED
  BY <1>3, <1>4 DEF DropStep

LEMMA SendWrites ==
  ASSUME DecisionInv, Sends
  PROVE  \E new : Writes(tasks, {}, "approved", {}, None, new)
<1>1. Inv /\ RowsOK
  BY DEF DecisionInv, Decisions
<1>2. PICK new : Continues(tasks, new)
  BY <1>1, SendsWalks
<1>3. \A t \in DOMAIN tasks' \ DOMAIN tasks : Fresh(t, tasks'[t])
  <2> DEFINE v == version'
  <2>1. Advance(tasks, round + 1, v, Start, {})
    BY DEF Sends
  <2> HIDE DEF v
  <2> QED
    BY <2>1, FreshRows
<1>4. Decides(tasks, {}, "approved", {}, None)
  BY DEF Decides, Handed
<1> QED
  BY <1>2, <1>3, <1>4 DEF Writes

LEMMA EveryStepWrites ==
  ASSUME DecisionInv, [Next]_vars
  PROVE  \E ts, A, how, D, u, new : Writes(ts, A, how, D, u, new)
<1>1. Inv /\ RowsOK /\ ScanOK
  BY DEF DecisionInv, Decisions
<1>2. CASE Quiet
  <2> DEFINE ts == tasks'
             none == {}
  <2>1. Decides(ts, none, "approved", none, None) /\ none \subseteq Open /\ tasks' = ts
    BY <1>2 DEF Quiet
  <2> HIDE DEF ts, none
  <2> QED
    BY <2>1, WritesInPlace
<1>3. ASSUME NEW A, NEW verdict, NEW D, NEW u, NEW how, Stops(A, verdict, D, u, how)
      PROVE  \E ts : Writes(ts, A, verdict, D, u, {})
  <2> DEFINE ts == tasks'
  <2>1. /\ A \subseteq Open /\ D \subseteq Open /\ verdict \in {"approved", "rejected", "returned"}
        /\ Decides(ts, A, verdict, D, u) /\ tasks' = ts
    BY <1>3 DEF Stops
  <2> HIDE DEF ts
  <2> QED
    BY <2>1, WritesInPlace
<1> QED
  BY <1>1, <1>2, <1>3, StepKinds, ApprovalWrites, DropWrites, SendWrites

LEMMA RowsReadNext ==
  ASSUME ViewInv, NEW ts, NEW A, NEW how, NEW D, NEW u, NEW new, Writes(ts, A, how, D, u, new)
  PROVE  /\ RowsRead'
         /\ \A t \in DOMAIN tasks : /\ t \in DOMAIN tasks'
                                    /\ tasks[t].approver \in User => tasks'[t].approver \in User
<1>1. RowsRead /\ ReadOfAPerson
  BY DEF ViewInv
<1>2. DOMAIN ts = DOMAIN tasks /\ \A t \in DOMAIN ts : t \in DOMAIN tasks' /\ tasks'[t] = ts[t]
  BY DEF Writes, Decides, Continues
<1>3. \A t \in DOMAIN tasks : Handed(t, ts[t])
  BY DEF Writes, Decides
<1>4. ASSUME NEW t \in DOMAIN tasks
      PROVE  NobodyYet(t, ts[t]) /\ GroupsHandNothing(t, ts[t])
  <2>1. ts[t].status = "pending" => tasks[t].status = "pending" /\ ts[t].actedBy = tasks[t].actedBy
    BY DEF Writes, Decides
  <2>2. \/ ts[t].approver = tasks[t].approver /\ ts[t].handovers = tasks[t].handovers
        \/ ts[t].approver \notin Group
    BY <1>1, <1>3, ConstantsAssumption DEF Handed, ReadOfAPerson
  <2> QED
    BY <1>1, <2>1, <2>2 DEF RowsRead, NobodyYet, GroupsHandNothing
<1>5. ASSUME NEW t \in DOMAIN tasks' \ DOMAIN tasks
      PROVE  NobodyYet(t, tasks'[t]) /\ GroupsHandNothing(t, tasks'[t])
  BY <1>2 DEF Writes, Fresh, NobodyYet, GroupsHandNothing
<1>6. RowsRead'
  BY <1>2, <1>4, <1>5 DEF RowsRead, NobodyYet, GroupsHandNothing
<1>7. \A t \in DOMAIN tasks : tasks[t].approver \in User => ts[t].approver \in User
  BY <1>3 DEF Handed
<1> QED
  BY <1>2, <1>6, <1>7

LEMMA AdminReads ==
  ASSUME [Next]_vars
  PROVE  \/ admin' = admin \/ admin' = None
         \/ \E t \in DOMAIN tasks :
              admin' = [task |-> t, holder |-> tasks[t].approver] /\ UNCHANGED tasks
<1>1. CASE RequesterNext
  BY <1>1 DEF RequesterNext, Submit, Cancel, EditDraft
<1>2. CASE ApproverNext
  BY <1>2 DEF ApproverNext, Approve, Reject, Return
<1>3. CASE ReassignNext
  BY <1>3 DEF ReassignNext, ReassignRead, ReassignWrite, requestVars
<1>4. CASE RepairNext
  BY <1>4 DEF RepairNext, RepairGroupTask
<1>5. CASE Tick
  BY <1>5 DEF Tick
<1>6. CASE ScanNext
  BY <1>6 DEF ScanNext, ScanStart, OverdueRead, OverdueDecide, OverdueEscalate, OverdueRemind,
              OverdueMissed, OverdueUnderLock, OverdueAct, OverdueActFails
<1>7. CASE DirectoryNext
  BY <1>7 DEF DirectoryNext, Publish, LockUser, ChangeGroup, Delegate
<1>8. CASE UNCHANGED vars
  BY <1>8 DEF vars
<1> QED
  BY <1>1, <1>2, <1>3, <1>4, <1>5, <1>6, <1>7, <1>8 DEF Next

LEMMA ViewInvInit == Init => ViewInv
BY DecisionInvInit DEF Init, ViewInv, RowsRead, ReadOfAPerson

LEMMA ViewInvStep == ViewInv /\ [Next]_vars => ViewInv'
<1> SUFFICES ASSUME ViewInv, [Next]_vars PROVE ViewInv'
  OBVIOUS
<1>1. DecisionInv /\ ReadOfAPerson
  BY DEF ViewInv
<1>2. DecisionInv'
  BY <1>1, DecisionInvStep
<1>3. /\ RowsRead'
      /\ \A t \in DOMAIN tasks : /\ t \in DOMAIN tasks'
                                 /\ tasks[t].approver \in User => tasks'[t].approver \in User
  BY <1>1, EveryStepWrites, RowsReadNext
<1>4. ReadOfAPerson'
  <2>1. admin # None => admin.task \in DOMAIN tasks
    BY <1>1 DEF DecisionInv, Inv, TypeOK
  <2>2. CASE admin' = admin \/ admin' = None
    BY <1>1, <1>3, <2>1, <2>2 DEF ReadOfAPerson
  <2>3. ASSUME NEW t \in DOMAIN tasks,
               admin' = [task |-> t, holder |-> tasks[t].approver], UNCHANGED tasks
        PROVE  ReadOfAPerson'
    BY <2>3 DEF ReadOfAPerson
  <2> QED
    BY <2>2, <2>3, AdminReads
<1> QED
  BY <1>2, <1>3, <1>4 DEF ViewInv

LEMMA ViewInvHolds == Spec => []ViewInv
BY ViewInvInit, ViewInvStep, PTL DEF Spec

-----------------------------------------------------------------------------
(* The inbox, the page and the check of a click                             *)

(* Nobody stands in for a group *)
LEMMA GroupsHaveNoDelegates ==
  ASSUME RowsRead, NEW t \in DOMAIN tasks, IsGroupTask(t)
  PROVE  Delegates(t) = {} /\ tasks[t].handovers = {} /\ \A d \in Delegation : d.from # tasks[t].approver
<1>1. tasks[t].handovers = {}
  BY DEF RowsRead, GroupsHandNothing, IsGroupTask
<1>2. \A d \in Delegation : d.from # tasks[t].approver
  BY ConstantsAssumption DEF IsGroupTask
<1> QED
  BY <1>1, <1>2 DEF Delegates

LEMMA ActionableIsAllowed ==
  ASSUME Inv, RowsRead, NEW u \in User, NEW t \in DOMAIN tasks
  PROVE  t \in Actionable(u) <=> CanAct(u, t)
<1>1. tasks[t].handovers \subseteq Delegation
  BY DEF Inv, TypeOK, Task
<1>2. CASE IsGroupTask(t)
  <2>1. ~Holds(t, u)
    BY <1>2, ConstantsAssumption DEF IsGroupTask, Holds
  <2>2. tasks[t].approver \in MemberOf(u) <=> u \in members[tasks[t].approver]
    BY <1>2 DEF MemberOf, IsGroupTask
  <2> QED
    BY <1>2, <2>1, <2>2, GroupsHaveNoDelegates DEF Actionable, CanAct
<1>3. CASE ~IsGroupTask(t)
  <2>1. tasks[t].approver \notin MemberOf(u)
    BY <1>3 DEF IsGroupTask, MemberOf
  <2>2. CanAct(u, t) <=> Holds(t, u) \/ u \in Delegates(t)
    BY <1>3 DEF CanAct
  <2>3. ~Holds(t, u) => (u \in Delegates(t) <=>
          /\ u # Requester
          /\ \/ \E d \in Delegation : /\ d.to = u /\ d.mode = "window" /\ delegation[d] = "active"
                                      /\ tasks[t].approver = d.from /\ Step[t.node].allowDelegation
             \/ \E d \in tasks[t].handovers : d.to = u /\ delegation[d] # "deleted")
    BY <1>1 DEF Delegates, Holds
  <2> QED
    BY <2>1, <2>2, <2>3 DEF Actionable
<1> QED
  BY <1>2, <1>3

LEMMA MayActIsCanAct ==
  ASSUME NEW u, NEW t \in DOMAIN tasks, tasks[t].status = "pending"
  PROVE  MayAct(u, t) <=> CanAct(u, t)
BY DEF MayAct, CanAct

(* Every open task is one of the step where the request waits *)
LEMMA OpenTasks ==
  ASSUME Inv, NEW t \in DOMAIN tasks, tasks[t].status = "pending"
  PROVE  status = "pending" /\ t \in RoundTasks /\ t.node = current /\ t \in Open
BY DEF Inv, RequestOK, PendingOnlyAtCurrentStep, RoundTasks, Open

LEMMA ToDoIsEligible ==
  ASSUME Inv, RowsRead, NEW u \in User
  PROVE  /\ ToDo(u) = Offered(u)
         /\ ToDo(u) = (IF status = "pending" THEN Eligible(u) ELSE {})
<1>1. \A t \in ToDo(u) : /\ t \in DOMAIN tasks /\ tasks[t].status = "pending" /\ CanAct(u, t)
                         /\ t \in Offered(u) /\ t \in Eligible(u) /\ status = "pending"
  <2>1. \A t \in ToDo(u) : t \in DOMAIN tasks /\ tasks[t].status = "pending" /\ t \in Actionable(u)
    BY DEF ToDo, Actionable
  <2> QED
    BY <2>1, ActionableIsAllowed, MayActIsCanAct, OpenTasks DEF Offered, Eligible
<1>2. \A t \in DOMAIN tasks : tasks[t].status = "pending" /\ CanAct(u, t) => t \in ToDo(u)
  BY ActionableIsAllowed DEF ToDo
<1>3. Offered(u) \subseteq ToDo(u)
  <2>1. \A t \in Offered(u) : t \in DOMAIN tasks /\ tasks[t].status = "pending" /\ MayAct(u, t)
    BY DEF Offered, RoundTasks
  <2> QED
    BY <1>2, <2>1, MayActIsCanAct
<1>4. Eligible(u) \subseteq ToDo(u)
  BY <1>2 DEF Eligible, Open, RoundTasks
<1> QED
  BY <1>1, <1>3, <1>4

(* Who has something to do there may open, discuss and share the request *)
LEMMA ToDoOpens ==
  ASSUME Inv, RowsRead, NEW u \in User, ToDo(u) # {}
  PROVE  Permissions(u).canComment /\ Permissions(u).canShare /\ CanView(u)
<1>1. PICK t \in Offered(u) : status = "pending" /\ t \in RoundTasks /\ MayAct(u, t)
  BY ToDoIsEligible DEF Offered
<1>2. TakesPart(u, RoundTasks) /\ TakesPart(u, DOMAIN tasks)
  BY <1>1 DEF TakesPart, RoundTasks
<1>3. CanView(u) /\ CanShare(u)
  BY <1>1, <1>2 DEF CanView, CanShare
<1> QED
  BY <1>1, <1>3 DEF Permissions

LEMMA ListedOpens ==
  ASSUME Inv, RowsRead, NEW u \in User, NEW tab \in {"done", "all"}, Inbox(u, tab) # {}
  PROVE  CanView(u)
<1>1. PICK t \in Inbox(u, tab) : t \in ToDo(u) \/ (t \in DOMAIN tasks /\ (Holds(t, u) \/ tasks[t].actedBy = u))
  BY DEF Inbox
<1>2. CASE t \in ToDo(u)
  BY <1>2, ToDoOpens
<1>3. CASE t \in DOMAIN tasks /\ (Holds(t, u) \/ tasks[t].actedBy = u)
  BY <1>3 DEF CanView, TakesPart, Holds
<1> QED
  BY <1>1, <1>2, <1>3

(* The page names for each open task those who have it in their inboxes for  *)
(* somebody else                                                              *)
LEMMA StandInsAsListed ==
  ASSUME Inv, RowsRead, NEW t \in DOMAIN tasks
  PROVE  TaskRow(t).delegates = { u \in User : t \in ToDo(u) /\ onBehalfOf(u, t) # None }
<1>1. TaskRow(t).delegates = IF tasks[t].status = "pending" THEN Delegates(t) ELSE {}
  BY DEF TaskRow
<1>2. CASE tasks[t].status # "pending"
  BY <1>1, <1>2 DEF ToDo
<1>3. CASE tasks[t].status = "pending" /\ IsGroupTask(t)
  <2>1. \A u : onBehalfOf(u, t) = None
    BY <1>3 DEF onBehalfOf
  <2> QED
    BY <1>1, <1>3, <2>1, GroupsHaveNoDelegates
<1>4. CASE tasks[t].status = "pending" /\ ~IsGroupTask(t)
  <2>1. tasks[t].approver # None
    BY ConstantsAssumption DEF Inv, TypeOK, Task, Principal
  <2>2. \A u \in User : t \in ToDo(u) <=> Holds(t, u) \/ u \in Delegates(t)
    BY <1>4, ActionableIsAllowed DEF ToDo, CanAct
  <2>3. \A u : onBehalfOf(u, t) # None <=> ~Holds(t, u)
    BY <1>4, <2>1 DEF onBehalfOf
  <2>4. \A u \in Delegates(t) : u \in User /\ ~Holds(t, u)
    BY ConstantsAssumption DEF Delegates, Holds
  <2> QED
    BY <1>1, <1>4, <2>2, <2>3, <2>4
<1> QED
  BY <1>2, <1>3, <1>4

LEMMA InboxFollows == ViewInv => InboxIsWhatOneMayDo
<1> SUFFICES ASSUME ViewInv PROVE InboxIsWhatOneMayDo
  OBVIOUS
<1>1. Inv /\ RowsRead
  BY DEF ViewInv, DecisionInv
<1> DEFINE toDo == [u \in User |-> ToDo(u)]
           page == getRequestDetail(Requester)
<1>2. \A u \in User : toDo[u] = ToDo(u)
  OBVIOUS
<1>3. DOMAIN page = DOMAIN tasks /\ \A t \in DOMAIN tasks : page[t] = TaskRow(t)
  BY DEF getRequestDetail, CanView
<1> HIDE DEF toDo, page
<1>4. ASSUME NEW u \in User
      PROVE  /\ toDo[u] = Offered(u)
             /\ toDo[u] = (IF status = "pending" THEN Eligible(u) ELSE {})
             /\ toDo[u] # {} => Permissions(u).canComment /\ Permissions(u).canShare
             /\ (toDo[u] # {} \/ \E tab \in {"done", "all"} : Inbox(u, tab) # {}) => CanView(u)
  <2>1. toDo[u] = Offered(u) /\ toDo[u] = (IF status = "pending" THEN Eligible(u) ELSE {})
    BY <1>1, <1>2, ToDoIsEligible
  <2>2. toDo[u] # {} => Permissions(u).canComment /\ Permissions(u).canShare /\ CanView(u)
    BY <1>1, <1>2, ToDoOpens
  <2>3. ASSUME NEW tab \in {"done", "all"}, Inbox(u, tab) # {} PROVE CanView(u)
    BY <1>1, <2>3, ListedOpens
  <2> QED
    BY <2>1, <2>2, <2>3
<1>5. ASSUME NEW t \in DOMAIN page
      PROVE  page[t].delegates = { u \in User : t \in toDo[u] /\ onBehalfOf(u, t) # None }
  <2>1. page[t].delegates = { u \in User : t \in ToDo(u) /\ onBehalfOf(u, t) # None }
    BY <1>1, <1>3, StandInsAsListed
  <2> QED
    BY <1>2, <2>1
<1> QED
  BY <1>4, <1>5 DEF InboxIsWhatOneMayDo, toDo, page

-----------------------------------------------------------------------------
(* Whatever is done was offered                                             *)

(* One step decides for one person only, and this person's decisions are the  *)
(* tasks of A                                                                 *)
LEMMA DecidedAreA ==
  ASSUME ViewInv, NEW ts, NEW A, NEW how, NEW D, NEW u, NEW new, Writes(ts, A, how, D, u, new),
         NEW w \in User
  PROVE  /\ DecidedBy(w) # {} => w = u
         /\ A \subseteq DecidedBy(u)
<1>1. A \subseteq DOMAIN tasks /\ \A t \in A : tasks[t].status = "pending"
  BY DEF Writes, Open, RoundTasks
<1>2. \A t \in DOMAIN tasks : tasks'[t].actedBy = ts[t].actedBy
  BY DEF Writes, Decides, Continues
<1>3. \A t \in DOMAIN tasks : tasks[t].status = "pending" => tasks[t].actedBy = None
  BY DEF ViewInv, RowsRead, NobodyYet
<1>4. w # None
  BY ConstantsAssumption
<1>5. \A t \in DOMAIN tasks : ts[t].actedBy = IF t \in A THEN u ELSE tasks[t].actedBy
  BY DEF Writes, Decides
<1> QED
  BY <1>1, <1>2, <1>3, <1>4, <1>5 DEF DecidedBy

LEMMA MyTasksArePreferred ==
  ASSUME ViewInv, NEW u \in User, status = "pending"
  PROVE  MyTasks(u) = Preferred(u)
<1>1. Offered(u) = Eligible(u)
  BY ToDoIsEligible DEF ViewInv, DecisionInv
<1> QED
  BY <1>1 DEF MyTasks, Preferred

PageOffers ==
  /\ status' = "cancelled" /\ status # "cancelled" => Permissions(Requester).canCancel
  /\ round' # round => Permissions(Requester).canSubmit
  /\ \A u \in User :
       DecidedBy(u) # {} =>
         /\ Permissions(u).canApprove
         /\ DecidedBy(u) \cap MyTasks(u) # {}
         /\ status' = "returned" => Permissions(u).canReturn

(* A click that decides tasks of A is a click on a task the page is about *)
LEMMA ClickWasOffered ==
  ASSUME ViewInv, NEW u \in User, status = "pending",
         NEW ts, NEW A, NEW how, NEW D, NEW new, Writes(ts, A, how, D, u, new),
         A \cap Preferred(u) # {},
         round' = round, status' # "cancelled", status' = "returned" => Step[current].allowReturn
  PROVE  PageOffers
<1>1. MyTasks(u) = Preferred(u)
  BY MyTasksArePreferred
<1>2. \A w \in User : DecidedBy(w) # {} => w = u
  BY DecidedAreA
<1>3. A \subseteq DecidedBy(u)
  BY DecidedAreA
<1>4. Permissions(u).canApprove /\ (status' = "returned" => Permissions(u).canReturn)
  BY <1>1 DEF Permissions
<1> QED
  BY <1>1, <1>2, <1>3, <1>4 DEF PageOffers

(* A step nobody decides anything in *)
LEMMA NobodyDecided ==
  ASSUME ViewInv, NEW ts, NEW A, NEW how, NEW D, NEW new, Writes(ts, A, how, D, None, new)
  PROVE  \A u \in User : DecidedBy(u) = {}
BY DecidedAreA, ConstantsAssumption

LEMMA AdvanceStatus ==
  ASSUME NEW ts, NEW r, NEW v, NEW from, NEW seen, Advance(ts, r, v, from, seen)
  PROVE  status' \in {"approved", "pending"}
BY DEF Advance, Complete, Arrive, Finish

LEMMA ApprovalStatus ==
  ASSUME NEW ts, NEW A, NEW D, NEW u, ApprovalStep(ts, A, D, u)
  PROVE  status = "pending" /\ status' \in {"approved", "pending"} /\ round' = round
BY AdvanceStatus DEF ApprovalStep, Approves, Stays, Leaves

LEMMA SystemOffered ==
  ASSUME ViewInv, [Next]_vars, ~ApproverNext
  PROVE  PageOffers
<1>1. Inv /\ RowsOK /\ ScanOK /\ DecisionInv
  BY DEF ViewInv, DecisionInv, Decisions
<1>2. CASE Quiet
  <2> DEFINE ts == tasks'
             none == {}
  <2>1. Decides(ts, none, "approved", none, None) /\ none \subseteq Open /\ tasks' = ts
    BY <1>2 DEF Quiet
  <2> HIDE DEF ts, none
  <2>2. \A u \in User : DecidedBy(u) = {}
    BY <2>1, WritesInPlace, NobodyDecided
  <2> QED
    BY <1>2, <2>2 DEF PageOffers, Quiet
<1>3. ASSUME NEW ts, NEW A, NEW D, ApprovalStep(ts, A, D, None) PROVE PageOffers
  <2>1. \A u \in User : DecidedBy(u) = {}
    BY <1>1, <1>3, ApprovalWrites, NobodyDecided
  <2> QED
    BY <1>3, <2>1, ApprovalStatus DEF PageOffers
<1>4. ASSUME NEW t \in DOMAIN tasks, NEW ts, DropStep(ts, t) PROVE PageOffers
  <2>1. \A u \in User : DecidedBy(u) = {}
    BY <1>1, <1>4, DropWrites, NobodyDecided
  <2>2. status = "pending" /\ status' \in {"approved", "pending"} /\ round' = round
    BY <1>4, AdvanceStatus DEF DropStep, Drops, Stays, Leaves
  <2> QED
    BY <2>1, <2>2 DEF PageOffers
<1>5. ASSUME NEW A, NEW verdict, NEW D, NEW how, Stops(A, verdict, D, None, how) PROVE PageOffers
  <2> DEFINE ts == tasks'
  <2>1. /\ A \subseteq Open /\ D \subseteq Open /\ verdict \in {"approved", "rejected", "returned"}
        /\ Decides(ts, A, verdict, D, None) /\ tasks' = ts
    BY <1>5 DEF Stops
  <2> HIDE DEF ts
  <2>2. \A u \in User : DecidedBy(u) = {}
    BY <2>1, WritesInPlace, NobodyDecided
  <2>3. status' = "cancelled" => Permissions(Requester).canCancel
    BY <1>5 DEF Stops, Finish, Permissions
  <2>4. round' = round
    BY <1>5 DEF Stops
  <2> QED
    BY <2>2, <2>3, <2>4 DEF PageOffers
<1>6. CASE Sends
  <2>1. \A u \in User : DecidedBy(u) = {}
    BY <1>1, <1>6, SendWrites, NobodyDecided
  <2>2. status' \in {"approved", "pending"}
    <3> DEFINE v == version'
    <3>1. Advance(tasks, round + 1, v, Start, {})
      BY <1>6 DEF Sends
    <3> HIDE DEF v
    <3> QED
      BY <3>1, AdvanceStatus
  <2>3. Permissions(Requester).canSubmit
    BY <1>6 DEF Sends, Permissions
  <2> QED
    BY <2>1, <2>2, <2>3 DEF PageOffers
<1> QED
  BY <1>1, <1>2, <1>3, <1>4, <1>5, <1>6, SystemKinds

LEMMA PageOffersStep ==
  ASSUME ViewInv, [Next]_vars
  PROVE  PageOffers
<1>1. Inv /\ DecisionInv
  BY DEF ViewInv, DecisionInv
<1>2. ASSUME NEW u \in User, Approve(u) PROVE PageOffers
  <2>1. PICK ts, A, D : ApprovalStep(ts, A, D, u) /\ A \cap Preferred(u) # {}
    BY <1>1, <1>2, ApproveClick
  <2>2. PICK new : Writes(ts, A, "approved", D, u, new)
    BY <1>1, <2>1, ApprovalWrites
  <2>3. status = "pending" /\ status' \in {"approved", "pending"} /\ round' = round
    BY <2>1, ApprovalStatus
  <2> QED
    BY <2>1, <2>2, <2>3, ClickWasOffered
<1>3. ASSUME NEW u \in User, Reject(u) \/ Return(u) PROVE PageOffers
  <2>1. PICK A, how, D : /\ Stops(A, how, D, u, how) /\ A \cap Preferred(u) # {}
                         /\ how = "returned" => Step[current].allowReturn
    BY <1>1, <1>3, StopClick
  <2> DEFINE ts == tasks'
  <2>2. /\ A \subseteq Open /\ D \subseteq Open /\ how \in {"approved", "rejected", "returned"}
        /\ Decides(ts, A, how, D, u) /\ tasks' = ts
    BY <2>1 DEF Stops
  <2> HIDE DEF ts
  <2>3. Writes(ts, A, how, D, u, {})
    BY <2>2, WritesInPlace
  <2>4. status = "pending" /\ status' = how /\ how \in {"rejected", "returned"} /\ round' = round
    BY <1>3, <2>1 DEF Stops, Finish, Reject, Return, Actor
  <2> QED
    BY <2>1, <2>3, <2>4, ClickWasOffered
<1>4. CASE ~ApproverNext
  BY <1>4, SystemOffered
<1> QED
  BY <1>2, <1>3, <1>4 DEF ApproverNext

-----------------------------------------------------------------------------
(* The news                                                                 *)

News ==
  /\ Arrives => /\ \A u \in ToldOnArrival : CanViewNext(u)
                /\ status' = "pending" =>
                     \A u \in active : (Eligible(u) # {})' => u \in ToldOnArrival \cup Doer
  /\ status = "pending" /\ status' \in {"rejected", "returned"} =>
       \A u \in ToldOfStop : CanViewNext(u)

(* The requester, and whoever has or had a task in the hands, may open it *)
LEMMA RequesterViews == CanViewNext(Requester)
BY DEF CanViewNext

LEMMA HolderViews ==
  ASSUME NEW t \in DOMAIN tasks', NEW u, u = tasks'[t].approver \/ u = tasks'[t].actedBy
  PROVE  CanViewNext(u)
BY DEF CanViewNext, TakesPart

LEMMA PreviousView == \A u \in PreviousApprovers : CanViewNext(u)
<1>1. \A u \in PreviousApprovers :
        \E t \in DOMAIN tasks' : u = tasks'[t].approver \/ u = tasks'[t].actedBy
  BY DEF PreviousApprovers
<1> QED
  BY <1>1, HolderViews

LEMMA RuleReaches ==
  ASSUME NEW rule, NEW next
  PROVE  RuleRecipients(rule, next) \subseteq {Requester} \cup next \cup PreviousApprovers
BY DEF RuleRecipients

LEMMA StopToldView == \A u \in ToldOfStop : CanViewNext(u)
<1> DEFINE none == {}
<1>1. ToldOfStop \subseteq {Requester} \cup UNION { RuleRecipients(rule, none) : rule \in StopRule[current] }
  BY DEF ToldOfStop, Notify
<1>2. \A rule : RuleRecipients(rule, none) \subseteq {Requester} \cup none \cup PreviousApprovers
  BY RuleReaches
<1>3. ToldOfStop \subseteq {Requester} \cup PreviousApprovers
  BY <1>1, <1>2
<1> QED
  BY <1>3, RequesterViews, PreviousView

(* What an arrival leaves: the open tasks are the new ones with a slot, where *)
(* the request now waits, held as they were created                           *)
Arrived ==
  /\ \A t \in NewlyOpen : /\ t \in DOMAIN tasks' /\ tasks'[t].status = "pending"
                          /\ tasks'[t].handovers = HandoversOf(tasks'[t].approver, t.node)
                          /\ t.node = current'
  /\ \A t \in DOMAIN tasks' : tasks'[t].status = "pending" => t \in NewlyOpen

LEMMA WalkArrives ==
  ASSUME NEW ts, DOMAIN ts = DOMAIN tasks, NEW new, Continues(ts, new),
         \A t \in DOMAIN tasks' \ DOMAIN ts : Fresh(t, tasks'[t]),
         \A t \in DOMAIN ts : ts[t].status # "pending"
  PROVE  Arrived
<1>1. \A t \in DOMAIN tasks' \ DOMAIN tasks : NewRow(t, round', new) /\ Fresh(t, tasks'[t])
  BY DEF Continues
<1>2. \A t \in NewlyOpen : /\ t \in DOMAIN tasks' /\ tasks'[t].status = "pending"
                           /\ tasks'[t].handovers = HandoversOf(tasks'[t].approver, t.node)
                           /\ t.node = current'
  BY <1>1 DEF NewlyOpen, NewRow, Fresh
<1>3. ASSUME NEW t \in DOMAIN tasks', tasks'[t].status = "pending" PROVE t \in NewlyOpen
  <2>1. t \notin DOMAIN tasks
    BY <1>3 DEF Continues
  <2> QED
    BY <1>1, <1>3, <2>1 DEF NewlyOpen, NewRow
<1> QED
  BY <1>2, <1>3 DEF Arrived

LEMMA ApprovalArrives ==
  ASSUME DecisionInv, NEW u, NEW ts, NEW A, NEW D, ApprovalStep(ts, A, D, u), ~Stays(ts)
  PROVE  Arrived
<1>1. /\ status = "pending" /\ Open \subseteq A \cup D /\ Leaves(ts)
      /\ Table(ts) /\ Decides(ts, A, "approved", D, u) /\ round' = round
  BY DEF ApprovalStep, Approves
<1>2. DOMAIN ts = DOMAIN tasks /\ Inv /\ RowsOK /\ WalkOK
  BY <1>1 DEF Decides, DecisionInv, Decisions
<1>3. PICK new : Continues(ts, new)
  BY <1>1, <1>2, LeavesWalks
<1>4. \A t \in DOMAIN tasks' \ DOMAIN ts : Fresh(t, tasks'[t])
  BY <1>1, FreshRows DEF Leaves
<1>5. ASSUME NEW t \in DOMAIN ts PROVE ts[t].status # "pending"
  <2>1. CASE tasks[t].status = "pending"
    BY <1>1, <1>2, <2>1, OpenTasks DEF Decides
  <2>2. CASE tasks[t].status # "pending"
    BY <1>1, <1>2, <2>2 DEF Decides
  <2> QED
    BY <2>1, <2>2
<1> QED
  BY <1>2, <1>3, <1>4, <1>5, WalkArrives

LEMMA DropArrives ==
  ASSUME DecisionInv, NEW t \in DOMAIN tasks, NEW ts, DropStep(ts, t), ~Stays(ts)
  PROVE  Arrived
<1>1. /\ status = "pending" /\ Open = {t} /\ Leaves(ts)
      /\ Table(ts) /\ Decides(ts, {}, "approved", {t}, None) /\ round' = round
  BY DEF DropStep, Drops
<1>2. DOMAIN ts = DOMAIN tasks /\ Inv /\ RowsOK /\ WalkOK
  BY <1>1 DEF Decides, DecisionInv, Decisions
<1>3. PICK new : Continues(ts, new)
  BY <1>1, <1>2, LeavesWalks
<1>4. \A o \in DOMAIN tasks' \ DOMAIN ts : Fresh(o, tasks'[o])
  BY <1>1, FreshRows DEF Leaves
<1>5. ASSUME NEW o \in DOMAIN ts PROVE ts[o].status # "pending"
  <2>1. CASE tasks[o].status = "pending"
    BY <1>1, <1>2, <2>1, OpenTasks DEF Decides
  <2>2. CASE tasks[o].status # "pending"
    BY <1>1, <1>2, <2>2 DEF Decides
  <2> QED
    BY <2>1, <2>2
<1> QED
  BY <1>2, <1>3, <1>4, <1>5, WalkArrives

LEMMA SendArrives ==
  ASSUME DecisionInv, Sends
  PROVE  Arrived
<1>1. Inv
  BY DEF DecisionInv
<1>2. PICK new : Writes(tasks, {}, "approved", {}, None, new)
  BY SendWrites
<1>3. \A t \in DOMAIN tasks : tasks[t].status # "pending"
  BY <1>1, OpenTasks DEF Sends
<1> QED
  BY <1>2, <1>3, WalkArrives DEF Writes

LEMMA ArrivalArrives ==
  ASSUME DecisionInv, [Next]_vars, Arrives
  PROVE  Arrived
<1>1. Inv /\ RowsOK /\ ScanOK
  BY DEF DecisionInv, Decisions
<1>2. ~Quiet
  BY DEF Quiet, Arrives
<1>3. ASSUME NEW ts, NEW A, NEW D, NEW u, ApprovalStep(ts, A, D, u) PROVE ~Stays(ts)
  BY <1>3 DEF ApprovalStep, Approves, Stays, Arrives
<1>4. ASSUME NEW ts, NEW t, DropStep(ts, t) PROVE ~Stays(ts)
  BY <1>4 DEF DropStep, Drops, Stays, Arrives
<1>5. ASSUME NEW A, NEW verdict, NEW D, NEW u, NEW how PROVE ~Stops(A, verdict, D, u, how)
  BY DEF Stops, Finish, Arrives
<1> QED
  BY <1>1, <1>2, <1>3, <1>4, <1>5, StepKinds, ApprovalArrives, DropArrives, SendArrives

(* The organisation does not change while a request arrives *)
LEMMA ContextStays ==
  ASSUME [Next]_vars, Arrives
  PROVE  UNCHANGED <<members, delegation>>
<1>1. CASE RequesterNext
  BY <1>1 DEF RequesterNext, Submit, Cancel, EditDraft, contextVars
<1>2. CASE ApproverNext
  BY <1>2 DEF ApproverNext, Approve, Reject, Return, contextVars
<1>3. CASE ReassignNext
  BY <1>3 DEF ReassignNext, ReassignRead, ReassignWrite, contextVars
<1>4. CASE RepairNext
  BY <1>4 DEF RepairNext, RepairGroupTask, contextVars
<1>5. CASE Tick
  BY <1>5 DEF Tick, contextVars
<1>6. CASE ScanNext
  BY <1>6 DEF ScanNext, ScanStart, OverdueRead, OverdueDecide, OverdueEscalate, OverdueRemind,
              OverdueMissed, OverdueUnderLock, OverdueAct, OverdueActFails, contextVars
<1>7. CASE DirectoryNext
  BY <1>7 DEF DirectoryNext, Publish, LockUser, ChangeGroup, Delegate, requestVars, Arrives
<1>8. CASE UNCHANGED vars
  BY <1>8 DEF vars, contextVars
<1> QED
  BY <1>1, <1>2, <1>3, <1>4, <1>5, <1>6, <1>7, <1>8 DEF Next

(* Who may act for a holder in a new task is the holder's stand-in there *)
LEMMA StandInsAreDelegates ==
  ASSUME Arrived, UNCHANGED <<members, delegation>>, Inv', NEW t \in NewlyOpen,
         tasks'[t].approver \in User, NEW u
  PROVE  (u \in Delegates(t))' <=>
           /\ Step[current'].allowDelegation /\ u \notin {Requester, tasks'[t].approver}
           /\ \E d \in Delegation : /\ d.to = u /\ d.from = tasks'[t].approver
                                    /\ d.mode \in {"window", "handover"} /\ delegation[d] = "active"
<1>1. /\ tasks'[t].handovers = HandoversOf(tasks'[t].approver, t.node) /\ t.node = current'
      /\ delegation' = delegation
  BY DEF Arrived
<1>2. \A d : d \in tasks'[t].handovers <=>
        /\ Step[current'].allowDelegation /\ d \in Delegation /\ d.from = tasks'[t].approver
        /\ d.mode = "handover" /\ delegation[d] = "active" /\ d.to # Requester
  BY <1>1 DEF HandoversOf
<1>3. (u \in Delegates(t))' <=>
        \E e \in Delegation :
          /\ e.to = u /\ e.to \notin {Requester, tasks'[t].approver}
          /\ \/ /\ e.from = tasks'[t].approver /\ e.mode = "window"
                /\ delegation[e] = "active" /\ Step[t.node].allowDelegation
             \/ /\ e \in tasks'[t].handovers /\ delegation[e] # "deleted"
  BY <1>1 DEF Delegates
<1> QED
  BY <1>1, <1>2, <1>3

LEMMA HoldersAre == \A p \in Holders : p \in User /\ \E t \in NewlyOpen : tasks'[t].approver = p
BY DEF Holders

LEMMA StandInsView ==
  ASSUME Arrived, UNCHANGED <<members, delegation>>, Inv', NEW u \in StandIns(current')
  PROVE  CanViewNext(u)
<1>1. /\ Step[current'].allowDelegation
      /\ \E d \in Delegation : /\ d.to = u /\ d.from \in Holders /\ d.to # Requester
                               /\ d.mode \in {"window", "handover"} /\ delegation[d] = "active"
      /\ u \notin Holders
  BY DEF StandIns, StandInsByMode
<1>2. PICK d \in Delegation : /\ d.to = u /\ d.from \in Holders /\ d.to # Requester
                              /\ d.mode \in {"window", "handover"} /\ delegation[d] = "active"
  BY <1>1
<1>3. PICK t \in NewlyOpen : tasks'[t].approver = d.from /\ d.from \in User
  BY <1>2, HoldersAre
<1>4. u # tasks'[t].approver
  BY <1>1, <1>2, <1>3
<1>5. (u \in Delegates(t))'
  BY <1>1, <1>2, <1>3, <1>4, StandInsAreDelegates
<1>6. tasks'[t].status = "pending" /\ t \in DOMAIN tasks' /\ tasks'[t].approver \notin Group
  BY <1>3, ConstantsAssumption DEF Arrived
<1>7. MayAct(u, t)'
  BY <1>5, <1>6 DEF MayAct, IsGroupTask
<1> QED
  BY <1>6, <1>7 DEF CanViewNext, TakesPart

LEMMA GroupsToldView ==
  ASSUME UNCHANGED <<members, delegation>>, NEW u \in GroupsTold
  PROVE  CanViewNext(u)
<1>1. PICK t \in NewlyOpen : tasks'[t].approver \in Group /\ u \in GroupMembers(tasks'[t].approver)
  BY DEF GroupsTold
<1>2. t \in DOMAIN tasks' /\ u \in members'[tasks'[t].approver]
  BY <1>1 DEF GroupMembers, NewlyOpen
<1>3. MayAct(u, t)'
  BY <1>1, <1>2 DEF MayAct, IsGroupTask
<1> QED
  BY <1>2, <1>3 DEF CanViewNext, TakesPart

LEMMA HoldersView == \A u \in Holders : CanViewNext(u)
BY HoldersAre, HolderViews DEF NewlyOpen

LEMMA NoticedReaches ==
  ASSUME NEW next
  PROVE  Noticed(next) \subseteq {Requester} \cup next \cup PreviousApprovers
BY RuleReaches DEF Noticed

LEMMA ArrivalToldView ==
  ASSUME Arrived, UNCHANGED <<members, delegation>>, Inv'
  PROVE  \A u \in ToldOnArrival : CanViewNext(u)
<1> DEFINE none == {}
           next == Holders \cup GroupsTold
<1>1. Noticed(none) \subseteq {Requester} \cup none \cup PreviousApprovers
  BY NoticedReaches
<1>2. Noticed(next) \subseteq {Requester} \cup next \cup PreviousApprovers
  BY NoticedReaches
<1>3. ToldOnArrival \subseteq
        IF status' = "approved" THEN Noticed(none) \cup {Requester}
        ELSE Noticed(next) \cup Holders \cup StandIns(current') \cup GroupsTold
  BY DEF ToldOnArrival, Notify
<1>4. \A u \in next : CanViewNext(u)
  BY HoldersView, GroupsToldView
<1>5. \A u \in Noticed(none) \cup Noticed(next) : CanViewNext(u)
  BY <1>1, <1>2, <1>4, RequesterViews, PreviousView
<1>6. \A u \in Holders \cup GroupsTold : CanViewNext(u)
  BY <1>4
<1> HIDE DEF next, none
<1> QED
  BY <1>3, <1>5, <1>6, RequesterViews, StandInsView

LEMMA ArrivalReachesAll ==
  ASSUME Arrived, UNCHANGED <<members, delegation>>, Inv', status' = "pending",
         NEW u \in active, (Eligible(u) # {})'
  PROVE  u \in ToldOnArrival \cup Doer
<1>1. PICK t \in DOMAIN tasks' : tasks'[t].status = "pending" /\ CanAct(u, t)'
  BY DEF Eligible, Open, RoundTasks
<1>2. t \in NewlyOpen
  BY <1>1 DEF Arrived
<1>3. u \in Holders \cup GroupsTold \cup StandIns(current')
  <2>1. CASE tasks'[t].approver \in Group
    <3>1. u \in members'[tasks'[t].approver]
      BY <1>1, <2>1 DEF CanAct, IsGroupTask
    <3>2. u \in GroupMembers(tasks'[t].approver)
      BY <3>1 DEF GroupMembers
    <3> QED
      BY <1>2, <2>1, <3>2 DEF GroupsTold
  <2>2. CASE tasks'[t].approver \notin Group
    <3>1. tasks'[t].approver \in User
      BY <2>2 DEF Inv, TypeOK, Task, Principal
    <3>2. tasks'[t].approver \in Holders
      BY <1>2, <3>1 DEF Holders
    <3>3. CASE u = tasks'[t].approver
      BY <3>2, <3>3
    <3>4. CASE (u \in Delegates(t))'
      <4>1. /\ Step[current'].allowDelegation /\ u # Requester
            /\ \E d \in Delegation : /\ d.to = u /\ d.from = tasks'[t].approver
                                     /\ d.mode \in {"window", "handover"} /\ delegation[d] = "active"
        BY <1>2, <3>1, <3>4, StandInsAreDelegates
      <4>2. u \notin Holders => u \in StandIns(current')
        BY <3>2, <4>1 DEF StandIns, StandInsByMode
      <4> QED
        BY <4>2
    <3> QED
      BY <1>1, <2>2, <3>3, <3>4 DEF CanAct, IsGroupTask, Holds
  <2> QED
    BY <2>1, <2>2
<1> QED
  BY <1>3 DEF ToldOnArrival, Notify

LEMMA NewsStep ==
  ASSUME ViewInv, [Next]_vars
  PROVE  News
<1>1. DecisionInv
  BY DEF ViewInv
<1>2. Inv'
  BY <1>1, DecisionInvStep DEF DecisionInv
<1>3. CASE Arrives
  <2>1. Arrived /\ UNCHANGED <<members, delegation>>
    BY <1>1, <1>3, ArrivalArrives, ContextStays
  <2> QED
    BY <1>2, <2>1, ArrivalToldView, ArrivalReachesAll, StopToldView DEF News
<1>4. CASE ~Arrives
  BY <1>4, StopToldView DEF News
<1> QED
  BY <1>3, <1>4

(* Whatever people are shown of a request is what the engine lets them do with *)
(* it: inbox, page and click agree on whose a task is, everything somebody      *)
(* does was offered to them before, and the news of it reaches all who now have *)
(* something to do, and nobody who could not open the request                  *)
(* (actionableTaskFilter, getRequestDetail, act, flushNotifies).                *)
THEOREM EverybodySeesWhatIsTheirs == Spec => PeopleSeeWhatIsTheirs
<1>1. ViewInv => InboxIsWhatOneMayDo
  BY InboxFollows
<1>2. ViewInv /\ [Next]_vars => [PageOffers]_vars /\ [News]_vars
  BY PageOffersStep, NewsStep
<1> QED
  BY <1>1, <1>2, ViewInvHolds, PTL DEF Spec, PeopleSeeWhatIsTheirs, PageOffersWhatIsDone, PageOffers,
     NewsReachesThoseConcerned, News

-----------------------------------------------------------------------------
(* The preview                                                              *)

(* Induction, over a set of numbers                                          *)
LEMMA FromZero ==
  ASSUME NEW T, 0 \in T, \A n \in Nat : n \in T => n + 1 \in T
  PROVE  Nat \subseteq T
<1> SUFFICES ASSUME Nat \ T # {} PROVE FALSE
  OBVIOUS
<1> DEFINE R == OpToRel(<, Nat)
<1>1. IsWellFoundedOn(R, Nat)
  BY NatLessThanWellFounded
<1>2. \A a, b \in Nat : a < b => <<a, b>> \in R
  BY DEF OpToRel
<1>3. PICK n \in Nat \ T : \A m \in Nat \ T : <<m, n>> \notin R
  BY <1>1, WFMin
<1> HIDE DEF R
<1>4. n # 0 /\ n - 1 \in Nat /\ n - 1 < n /\ n - 1 + 1 = n
  BY <1>3
<1>5. n - 1 \in T
  BY <1>2, <1>3, <1>4
<1> QED
  BY <1>3, <1>4, <1>5

(* ... up to a bound                                                          *)
LEMMA UpTo ==
  ASSUME NEW N \in Nat, NEW T, 0 \in T, \A n \in 0..(N - 1) : n \in T => n + 1 \in T
  PROVE  0..N \subseteq T
<1> DEFINE S == { n \in Nat : n <= N => n \in T }
<1>1. 0 \in S /\ \A n \in Nat : n \in S => n + 1 \in S
  OBVIOUS
<1> HIDE DEF S
<1>2. Nat \subseteq S
  BY <1>1, FromZero
<1> QED
  BY <1>2 DEF S

(* A function that is told by its first value and by how it goes on, exists   *)
Stepping(f, N, V, first, next) == f \in [0..N -> V] /\ f[0] = first /\ \A n \in 1..N : f[n] = next[f[n - 1]]
LEMMA Stepwise ==
  ASSUME NEW N \in Nat, NEW V, NEW first \in V, NEW next \in [V -> V]
  PROVE  \E f : Stepping(f, N, V, first, next)
<1> DEFINE Good(n) == \E f \in [0..n -> V] : f[0] = first /\ \A k \in 1..n : f[k] = next[f[k - 1]]
           T == { n \in Nat : Good(n) }
<1>1. Good(0)
  <2> DEFINE f == [k \in 0..0 |-> first]
  <2>1. f \in [0..0 -> V] /\ f[0] = first /\ \A k \in 1..0 : FALSE
    OBVIOUS
  <2> QED
    BY <2>1
<1>2. ASSUME NEW n \in Nat, Good(n) PROVE Good(n + 1)
  <2>1. PICK f \in [0..n -> V] : f[0] = first /\ \A k \in 1..n : f[k] = next[f[k - 1]]
    BY <1>2
  <2> DEFINE g == [k \in 0..(n + 1) |-> IF k = n + 1 THEN next[f[n]] ELSE f[k]]
  <2>2. g \in [0..(n + 1) -> V] /\ g[n + 1] = next[f[n]] /\ \A k \in 0..n : g[k] = f[k]
    BY <2>1
  <2> HIDE DEF g
  <2>3. g[0] = first /\ g[n + 1] = next[g[n]]
    BY <2>1, <2>2
  <2>4. \A k \in 1..n : g[k] = next[g[k - 1]]
    BY <2>1, <2>2
  <2>5. ASSUME NEW k \in 1..(n + 1) PROVE g[k] = next[g[k - 1]]
    <3>1. CASE k = n + 1
      <4>1. k - 1 = n
        BY <3>1
      <4> QED
        BY <2>3, <3>1, <4>1
    <3>2. CASE k \in 1..n
      BY <2>4, <3>2
    <3> QED
      BY <3>1, <3>2
  <2> QED
    BY <2>2, <2>3, <2>5
<1>3. Good(N)
  <2> HIDE DEF Good
  <2>1. 0 \in T /\ \A n \in Nat : n \in T => n + 1 \in T
    BY <1>1, <1>2
  <2> HIDE DEF T
  <2>2. N \in T
    BY <2>1, FromZero
  <2> QED
    BY <2>2 DEF T
<1> QED
  BY <1>3 DEF Stepping

(* The preview asks the people the engine would ask at a step neither of them *)
(* finds blocked; where only the preview does, a group is empty                *)
LEMMA SlotsAgree ==
  ASSUME NEW n \in Node, NEW s \in Slots(n)
  PROVE  /\ SlotPreview(n, s) = {} <=> SlotUsers(n, s) = {}
         /\ SlotPreview(n, s) \ {Requester} # {} =>
              SlotUsers(n, s) = IF Step[n].skipIfRequester /\ ~IsGroupSlot(n, s)
                                THEN SlotPreview(n, s) \ {Requester} ELSE SlotPreview(n, s)
         /\ SlotPreview(n, s) \ {Requester} = {} => SlotUsers(n, s) = SlotPreview(n, s)
BY DEF SlotPreview, SlotUsers

LEMMA BlockedOnlyForAGroup ==
  ASSUME NEW n \in Node, BlockedInPreview(n), ~Blocked(n)
  PROVE  HasEmptyGroup(n)
<1>1. PICK s \in Slots(n) : SlotPreview(n, s) = {}
  BY DEF BlockedInPreview, Blocked
<1>2. SlotUsers(n, s) = {}
  BY <1>1, SlotsAgree
<1>3. IsGroupSlot(n, s)
  BY <1>2 DEF BlockedInPreview, Blocked
<1> QED
  BY <1>1, <1>3 DEF HasEmptyGroup

Asked(n) == UNION { Origins(n, s) : s \in OpenSlots(n) }

LEMMA PreviewAsksTheSame ==
  ASSUME NEW n \in Node, ~BlockedInPreview(n)
  PROVE  PreviewApprovers(n) = Asked(n)
<1> DEFINE asked(s) == SlotPreview(n, s) \cap Effective(n)
           shown(s) == IF IsGroupSlot(n, s) /\ asked(s) # {} THEN {GroupOf(n, s)} ELSE asked(s)
<1>1. ASSUME NEW s \in Slots(n)
      PROVE  asked(s) = IF Step[n].skipIfRequester THEN SlotPreview(n, s) \ {Requester} ELSE SlotPreview(n, s)
  BY <1>1 DEF Effective, Resolved
<1>2. ASSUME NEW s \in Slots(n) PROVE s \in OpenSlots(n) <=> asked(s) # {}
  BY <1>1, <1>2, SlotsAgree DEF OpenSlots, FilledSlots, RequesterSlots
<1>3. ASSUME NEW s \in Slots(n), asked(s) # {} PROVE shown(s) = Origins(n, s)
  BY <1>1, <1>3, SlotsAgree DEF Origins
<1>4. ASSUME NEW s \in Slots(n), asked(s) = {} PROVE shown(s) = {}
  BY <1>4
<1>5. PreviewApprovers(n) = UNION { shown(s) : s \in Slots(n) }
  BY DEF PreviewApprovers
<1>6. OpenSlots(n) \subseteq Slots(n)
  BY DEF OpenSlots, FilledSlots
<1> HIDE DEF asked, shown
<1> QED
  BY <1>2, <1>3, <1>4, <1>5, <1>6 DEF Asked

LEMMA SomebodyIsAsked ==
  ASSUME TypeOK, NEW n \in Node, OpenSlots(n) # {}
  PROVE  WhoIsAsked(n) # {}
<1>1. PICK s \in OpenSlots(n) : TRUE
  OBVIOUS
<1>2. s \in Slots(n) /\ SlotUsers(n, s) # {}
  BY <1>1 DEF OpenSlots, FilledSlots
<1>3. Asked(n) # {}
  BY <1>1, <1>2, OriginsType DEF Asked
<1> QED
  BY <1>3, PreviewAsksTheSame, ConstantsAssumption DEF WhoIsAsked

(* The places behind one follow the walk, and come to an end                  *)
LEMMA PlacesFollow ==
  ASSUME TypeOK, NEW v \in Version, NEW from \in Place \ {End}
  PROVE  LET place == PlacesBehind(v, from)
             N == Cardinality(Place)
         IN  /\ N \in Nat /\ place \in [0..N -> Place] /\ place[0] = from
             /\ \A k \in 1..N : place[k] = IF place[k - 1] = End THEN End
                                           ELSE Walk[v][payload][place[k - 1]]
             /\ place[N] = End
<1> DEFINE N == Cardinality(Place)
           next == [x \in Place |-> IF x = End THEN End ELSE Walk[v][payload][x]]
<1>1. N \in Nat
  BY DepthsType
<1>2. \A x \in Place : Walk[v][payload][x] \in Place /\ End \in Place
  BY ConstantsAssumption DEF TypeOK, Place
<1>3. next \in [Place -> Place] /\ \A x \in Place : next[x] = IF x = End THEN End ELSE Walk[v][payload][x]
  BY <1>2
<1> HIDE DEF next, N
<1>4. PICK f : Stepping(f, N, Place, from, next)
  BY <1>1, <1>3, Stepwise
<1> DEFINE P(h) == h = [k \in 0..N |-> IF k = 0 THEN from
                                       ELSE IF h[k - 1] = End THEN End
                                       ELSE Walk[v][payload][h[k - 1]]]
<1>5. P(f)
  <2>1. f = [k \in 0..N |-> f[k]] /\ f[0] = from
    BY <1>4 DEF Stepping
  <2>2. \A k \in 0..N : k # 0 => k \in 1..N /\ k - 1 \in 0..N
    BY <1>1
  <2>3. \A k \in 0..N : k # 0 => f[k] = IF f[k - 1] = End THEN End ELSE Walk[v][payload][f[k - 1]]
    BY <1>3, <1>4, <2>2 DEF Stepping
  <2> QED
    BY <2>1, <2>3
<1> DEFINE place == CHOOSE h : P(h)
<1>6. PlacesBehind(v, from) = place
  BY DEF PlacesBehind, N
<1> HIDE DEF P
<1>7. P(place)
  BY <1>5
<1> HIDE DEF place
<1>8. /\ place[0] = from
      /\ \A k \in 1..N : place[k] = IF place[k - 1] = End THEN End ELSE Walk[v][payload][place[k - 1]]
  <2>1. \A k \in 0..N : place[k] = IF k = 0 THEN from
                                   ELSE IF place[k - 1] = End THEN End
                                   ELSE Walk[v][payload][place[k - 1]]
    BY <1>7 DEF P
  <2>2. \A k \in 1..N : k \in 0..N /\ k # 0
    BY <1>1
  <2> QED
    BY <1>1, <2>1, <2>2
<1>9. PICK depth : depth \in Depths(v)
  BY DepthsType
<1>10. /\ \A x \in Place : depth[x] \in 0..N
       /\ \A x \in Place \ {End} : depth[x] < depth[Walk[v][payload][x]]
  BY <1>9, DepthsType DEF TypeOK, N
<1> DEFINE Far(k) == place[k] \in Place /\ (place[k] = End \/ k <= depth[place[k]])
           T == { k \in 0..N : Far(k) }
<1>11. \A k \in 0..N : Far(k)
  <2>1. 0 \in T
    BY <1>1, <1>8, <1>10
  <2>2. ASSUME NEW k \in 0..(N - 1), k \in T PROVE k + 1 \in T
    <3>1. k + 1 \in 1..N /\ k + 1 \in 0..N /\ k + 1 - 1 = k
      BY <1>1
    <3>2. place[k + 1] = IF place[k] = End THEN End ELSE Walk[v][payload][place[k]]
      BY <1>8, <3>1
    <3>3. Far(k)
      BY <2>2
    <3>4. CASE place[k] = End
      BY <1>2, <3>1, <3>2, <3>3, <3>4
    <3>5. CASE place[k] # End
      <4>1. /\ depth[place[k]] < depth[place[k + 1]] /\ k <= depth[place[k]]
            /\ place[k + 1] \in Place
        BY <1>2, <1>10, <3>2, <3>3, <3>5
      <4>2. depth[place[k]] \in 0..N /\ depth[place[k + 1]] \in 0..N
        BY <1>10, <3>3, <4>1
      <4>3. k + 1 <= depth[place[k + 1]]
        BY <1>1, <4>1, <4>2
      <4> QED
        BY <3>1, <4>1, <4>3
    <3> QED
      BY <3>4, <3>5
  <2> HIDE DEF T
  <2>3. 0..N \subseteq T
    BY <1>1, <2>1, <2>2, UpTo
  <2> QED
    BY <2>3 DEF T
<1>12. place \in [0..N -> Place]
  <2>1. place = [k \in 0..N |-> place[k]]
    BY <1>7 DEF P
  <2> QED
    BY <1>11, <2>1
<1>13. place[N] = End
  <2>1. SUFFICES ASSUME place[N] # End PROVE FALSE
    OBVIOUS
  <2>2. place[N] \in Place /\ N <= depth[place[N]]
    BY <1>1, <1>11, <2>1
  <2>3. depth[place[N]] < depth[Walk[v][payload][place[N]]] /\ Walk[v][payload][place[N]] \in Place
    BY <1>2, <1>10, <2>1, <2>2
  <2>4. depth[place[N]] \in 0..N /\ depth[Walk[v][payload][place[N]]] \in 0..N
    BY <1>10, <2>2, <2>3
  <2> QED
    BY <1>1, <2>2, <2>3, <2>4
<1> QED
  BY <1>1, <1>6, <1>8, <1>12, <1>13 DEF N

(* Up to the place where a walk stops they are the steps it goes over         *)
LEMMA PlacesAreTheWalk ==
  ASSUME TypeOK, NEW v \in Version, NEW from \in Place \ {End}, NEW S \in SUBSET Node,
         NEW stop \in Node \cup {End}, StopsAt(v, from, S, stop)
  PROVE  LET place == PlacesBehind(v, from)
         IN  \E K \in 1..Cardinality(Place) : place[K] = stop /\ { place[j] : j \in 1..(K - 1) } = S
<1> DEFINE N == Cardinality(Place)
           place == PlacesBehind(v, from)
           next(x) == Walk[v][payload][x]
<1>1. /\ N \in Nat /\ place[0] = from /\ place[N] = End
      /\ \A k \in 1..N : place[k] = IF place[k - 1] = End THEN End ELSE next(place[k - 1])
  BY PlacesFollow
<1>2. /\ stop \notin S
      /\ \A x \in S \cup {from} : next(x) \in S \cup {stop}
      /\ \A n \in S : \E x \in S \cup {from} : next(x) = n
  BY DEF StopsAt
<1>3. PICK depth : depth \in Depths(v)
  BY DepthsType
<1>4. /\ S \cup {from} \subseteq Place \ {End} /\ from # End /\ End \notin S
      /\ \A x \in S \cup {from} : depth[x] < depth[next(x)]
      /\ \A x \in Place : depth[x] \in Nat
  <2>1. S \cup {from} \subseteq Place \ {End} /\ End \notin S
    BY ConstantsAssumption DEF Place
  <2>2. depth \in [Place -> 0..Cardinality(Place)]
    BY <1>3, DepthsType
  <2>3. \A x \in S \cup {from} : depth[x] < depth[next(x)]
    BY <1>3, <2>1, DepthsType DEF TypeOK
  <2> QED
    BY <2>1, <2>2, <2>3, DepthsType
<1> HIDE DEF N, place, next
<1> DEFINE T == { k \in 1..N : place[k] \notin S }
<1>5. T \in SUBSET Nat /\ T # {}
  <2>1. N # 0
    BY <1>1, <1>4
  <2> QED
    BY <1>1, <1>4, <2>1
<1>6. PICK K \in T : \A y \in T : K <= y
  BY <1>5, LeastElement
<1>7. K \in 1..N /\ place[K] \notin S /\ \A j \in 1..(K - 1) : place[j] \in S
  <2>1. ASSUME NEW j \in 1..(K - 1) PROVE place[j] \in S
    <3>1. j \in 1..N /\ j < K
      BY <1>1, <1>6
    <3>2. ~(K <= j)
      BY <1>1, <1>6, <3>1
    <3> QED
      BY <1>6, <3>1, <3>2
  <2> QED
    BY <1>6, <2>1
<1> HIDE DEF T
<1>8. \A j \in 0..(K - 1) : /\ place[j] \in S \cup {from} /\ j + 1 \in 1..K
                            /\ place[j + 1] = next(place[j])
  <2> SUFFICES ASSUME NEW j \in 0..(K - 1)
               PROVE  /\ place[j] \in S \cup {from} /\ j + 1 \in 1..K
                      /\ place[j + 1] = next(place[j])
    OBVIOUS
  <2>1. j = 0 \/ j \in 1..(K - 1)
    BY <1>1, <1>7
  <2>2. place[j] \in S \cup {from}
    BY <1>1, <1>7, <2>1
  <2>3. j + 1 \in 1..N /\ j + 1 \in 1..K /\ j + 1 - 1 = j
    BY <1>1, <1>7
  <2> QED
    BY <1>1, <1>4, <2>2, <2>3
<1>9. place[K] = stop
  <2>1. K - 1 \in 0..(K - 1) /\ K - 1 + 1 = K
    BY <1>1, <1>7
  <2>2. place[K] \in S \cup {stop}
    BY <1>2, <1>8, <2>1
  <2> QED
    BY <1>7, <2>2
<1> DEFINE Met == { place[j] : j \in 1..(K - 1) }
<1>10. Met \subseteq S
  BY <1>7
<1>11. ASSUME NEW x \in Met \cup {from}, next(x) \in S PROVE next(x) \in Met
  <2>1. PICK j \in 0..(K - 1) : x = place[j]
    <3>1. 0 \in 0..(K - 1) /\ 1..(K - 1) \subseteq 0..(K - 1)
      BY <1>1, <1>7
    <3> QED
      BY <1>1, <1>11, <3>1
  <2>2. place[j + 1] = next(x) /\ j + 1 \in 1..K /\ j + 1 # K
    BY <1>7, <1>8, <1>11, <2>1
  <2>3. j + 1 \in 1..(K - 1)
    BY <1>1, <1>7, <2>2
  <2> QED
    BY <2>2, <2>3
<1> HIDE DEF Met
<1>12. S \subseteq Met
  <2> DEFINE C == S \ Met
             D == { depth[n] : n \in C }
  <2>1. SUFFICES ASSUME C # {} PROVE FALSE
    OBVIOUS
  <2>2. D \in SUBSET Nat /\ D # {}
    BY <1>4, <2>1
  <2>3. PICK m \in D : \A y \in D : m <= y
    BY <2>2, LeastElement
  <2>4. PICK n \in C : m = depth[n]
    OBVIOUS
  <2>5. PICK x \in S \cup {from} : next(x) = n
    BY <1>2
  <2>6. x \notin Met \cup {from}
    BY <1>11, <2>4, <2>5
  <2>7. depth[x] < depth[n] /\ depth[n] <= depth[x]
    BY <1>4, <2>3, <2>4, <2>5, <2>6
  <2>8. depth[x] \in Nat /\ depth[n] \in Nat
    BY <1>4, <2>4, <2>5
  <2> QED
    BY <2>7, <2>8
<1> QED
  BY <1>7, <1>9, <1>10, <1>12 DEF N, place, Met

(* The preview of a walk stops where the walk stops and asks whom it asks, or *)
(* is blocked by an empty group                                               *)
LEMMA WalkIsForeseen ==
  ASSUME TypeOK, NEW v \in Version, NEW from \in Place \ {End}, NEW S \in SUBSET Node,
         NEW stop \in Node \cup {End}, StopsAt(v, from, S, stop)
  PROVE  LET path == Foreseen(v, from)
             at == StopForeseen(path)
         IN  \/ path[at].asked = {None} /\ HasEmptyGroup(path[at].at)
             \/ /\ path[at].at = stop
                /\ stop # End => path[at].asked = Asked(stop)
                /\ { path[i].at : i \in 1..(at - 1) } = S
<1> DEFINE N == Cardinality(Place)
           place == PlacesBehind(v, from)
           shown == { k \in 1..N : \A j \in 1..(k - 1) : place[j] # End /\ ~BlockedInPreview(place[j]) }
           path == Foreseen(v, from)
           Ends(k) == place[k] = End \/ WhoIsAsked(place[k]) # {}
<1>1. N \in Nat
  BY DepthsType
<1>2. path = [k \in shown |-> [at |-> place[k], asked |-> WhoIsAsked(place[k])]]
  BY DEF Foreseen
<1>3. PICK K \in 1..N : place[K] = stop /\ { place[j] : j \in 1..(K - 1) } = S
  BY PlacesAreTheWalk
<1>4. /\ \A n \in S : n \in Node /\ n # End /\ ~Blocked(n) /\ OpenSlots(n) = {}
      /\ stop # End => stop \in Node /\ ~Blocked(stop) /\ OpenSlots(stop) # {}
  BY ConstantsAssumption DEF StopsAt, Skipped
<1> HIDE DEF N, place, path
<1>5. Ends(K)
  BY <1>3, <1>4, SomebodyIsAsked
<1> DEFINE T == { k \in 1..K : Ends(k) }
<1>6. PICK m \in T : \A y \in T : m <= y
  <2>1. T \in SUBSET Nat /\ T # {}
    BY <1>1, <1>3, <1>5
  <2> QED
    BY <2>1, LeastElement
<1>7. m \in 1..K /\ Ends(m) /\ \A j \in 1..(m - 1) : ~Ends(j)
  <2>1. ASSUME NEW j \in 1..(m - 1) PROVE ~Ends(j)
    <3>1. j \in 1..K /\ ~(m <= j)
      BY <1>1, <1>3, <1>6
    <3> HIDE DEF Ends
    <3> QED
      BY <1>6, <3>1
  <2> QED
    BY <1>6, <2>1
<1> HIDE DEF T
<1>8. \A j : ~Ends(j) => place[j] # End /\ ~BlockedInPreview(place[j]) /\ WhoIsAsked(place[j]) = {}
  BY DEF WhoIsAsked
<1>9. m \in shown /\ \A j \in 1..(m - 1) : j \in shown
  <2>1. m \in 1..N /\ \A j \in 1..(m - 1) : j \in 1..N /\ \A i \in 1..(j - 1) : i \in 1..(m - 1)
    BY <1>1, <1>3, <1>7
  <2> HIDE DEF Ends
  <2>2. \A j \in 1..(m - 1) : place[j] # End /\ ~BlockedInPreview(place[j])
    BY <1>7, <1>8
  <2> QED
    BY <2>1, <2>2
<1>10. shown \subseteq 1..N /\ \A k \in shown : \A j \in 1..(k - 1) : place[j] # End
  OBVIOUS
<1> HIDE DEF shown
<1>11. DOMAIN path = shown /\ \A k \in shown : path[k].at = place[k] /\ path[k].asked = WhoIsAsked(place[k])
  BY <1>2
<1> DEFINE Stop(i) == /\ path[i].at = End \/ path[i].asked # {}
                      /\ \A j \in 1..(i - 1) : path[j].asked = {}
<1>12. Stop(m)
  BY <1>7, <1>8, <1>9, <1>11
<1>13. ASSUME NEW i \in shown, Stop(i) PROVE i = m
  <2>1. i \in 1..N /\ m \in 1..N
    BY <1>9, <1>10
  <2>2. ~(i < m)
    <3>1. SUFFICES ASSUME i < m PROVE FALSE
      OBVIOUS
    <3>2. i \in 1..(m - 1)
      BY <1>1, <2>1, <3>1
    <3> QED
      BY <1>7, <1>11, <1>13, <3>2
  <2>3. ~(m < i)
    <3>1. SUFFICES ASSUME m < i PROVE FALSE
      OBVIOUS
    <3>2. m \in 1..(i - 1)
      BY <1>1, <2>1, <3>1
    <3>3. place[m] # End /\ path[m].asked = {}
      BY <1>10, <1>13, <3>2
    <3> QED
      BY <1>7, <1>9, <1>11, <3>3
  <2> QED
    BY <1>1, <2>1, <2>2, <2>3
<1>14. StopForeseen(path) = m
  <2>1. StopForeseen(path) = CHOOSE i \in shown : Stop(i)
    BY <1>11 DEF StopForeseen
  <2> HIDE DEF Stop
  <2> QED
    BY <1>9, <1>12, <1>13, <2>1
<1> HIDE DEF Stop
<1>15. CASE m # K
  <2>1. m \in 1..(K - 1)
    BY <1>1, <1>3, <1>7, <1>15
  <2>2. place[m] \in S
    BY <1>3, <2>1
  <2>3. place[m] \in Node /\ place[m] # End /\ ~Blocked(place[m]) /\ OpenSlots(place[m]) = {}
    BY <1>4, <2>2
  <2>4. WhoIsAsked(place[m]) # {}
    BY <1>7, <2>3
  <2>5. Asked(place[m]) = {}
    BY <2>3 DEF Asked
  <2>6. BlockedInPreview(place[m])
    BY <2>3, <2>4, <2>5, PreviewAsksTheSame DEF WhoIsAsked
  <2>7. WhoIsAsked(place[m]) = {None} /\ HasEmptyGroup(place[m])
    BY <2>3, <2>6, BlockedOnlyForAGroup DEF WhoIsAsked
  <2> QED
    BY <1>9, <1>11, <1>14, <2>7 DEF path
<1>16. CASE m = K
  <2>1. path[m].at = stop /\ path[m].asked = WhoIsAsked(stop)
    BY <1>3, <1>9, <1>11, <1>16
  <2>2. { path[i].at : i \in 1..(m - 1) } = S
    BY <1>3, <1>9, <1>11, <1>16
  <2>3. CASE stop # End /\ BlockedInPreview(stop)
    <3>1. WhoIsAsked(stop) = {None} /\ HasEmptyGroup(stop)
      BY <1>4, <2>3, BlockedOnlyForAGroup DEF WhoIsAsked
    <3> QED
      BY <1>14, <2>1, <3>1 DEF path
  <2>4. CASE stop # End => ~BlockedInPreview(stop)
    <3>1. stop # End => WhoIsAsked(stop) = Asked(stop)
      BY <1>4, <2>4, PreviewAsksTheSame DEF WhoIsAsked
    <3> QED
      BY <1>14, <2>1, <2>2, <3>1 DEF path
  <2> QED
    BY <2>3, <2>4
<1> QED
  BY <1>15, <1>16

(* What the preview from a place foretells of the request's way               *)
AsForetold(v, from, seen) ==
  LET path == Foreseen(v, from)
      at == StopForeseen(path)
  IN  \/ path[at].asked = {None} /\ HasEmptyGroup(path[at].at)
      \/ /\ status' = "approved" <=> path[at].at = End
         /\ status' = "pending" => /\ current' = path[at].at
                                   /\ { t.origin : t \in NewlyOpen } = path[at].asked
         /\ { path[i].at : i \in 1..(at - 1) } = (visited' \ seen) \ {current'}

(* The rows opened on arrival ask whom the preview names                      *)
LEMMA OpenedAsAsked ==
  ASSUME TypeOK, NEW r \in 1..MaxRound, NEW S \in SUBSET Node, NEW stop \in Node,
         NEW seen \in SUBSET Node, stop \notin seen, Filed(tasks, r, seen),
         NEW ts, DOMAIN ts = DOMAIN tasks, Arrive(ts, r, S, stop, seen)
  PROVE  { t.origin : t \in NewlyOpen } = Asked(stop)
<1> DEFINE W == Waived(r, S \cup {stop})
           O == OpenIds(r, stop)
<1>1. DOMAIN tasks' = DOMAIN tasks \cup W \cup O
  BY DEF Arrive
<1>2. \A t \in W : t.slot = None
  BY IdsType DEF Waived
<1>3. \A t \in O : t.round = r /\ t.node = stop /\ t.slot \in OpenSlots(stop)
  BY IdsType
<1>4. \A s \in OpenSlots(stop) : s # None
  BY ApproversType, ConstantsAssumption DEF OpenSlots, FilledSlots
<1>5. \A t \in O : t \notin DOMAIN tasks
  <2>1. SUFFICES ASSUME NEW t \in O, t \in DOMAIN tasks PROVE FALSE
    OBVIOUS
  <2>2. t.round = r /\ t.node = stop
    BY <1>3
  <2>3. r \in Nat
    OBVIOUS
  <2> HIDE DEF O
  <2> QED
    BY <2>1, <2>2, <2>3 DEF Filed
<1> HIDE DEF W
<1>6. NewlyOpen = O
  <2> HIDE DEF O
  <2> QED
    BY <1>1, <1>2, <1>3, <1>4, <1>5 DEF NewlyOpen
<1>7. { t.origin : t \in O } = Asked(stop)
  <2> DEFINE id(s, p) == [round |-> r, node |-> stop, slot |-> s, origin |-> p]
  <2>1. \A t : t \in O <=> \E s \in OpenSlots(stop) : \E p \in Origins(stop, s) : t = id(s, p)
    BY DEF OpenIds
  <2>2. \A s, p : id(s, p).origin = p
    OBVIOUS
  <2>3. \A p : p \in Asked(stop) <=> \E s \in OpenSlots(stop) : p \in Origins(stop, s)
    BY DEF Asked
  <2> HIDE DEF O, id
  <2> QED
    BY <2>1, <2>2, <2>3
<1> QED
  BY <1>6, <1>7

LEMMA WalkAsForetold ==
  ASSUME TypeOK, NEW ts, DOMAIN ts = DOMAIN tasks, NEW r \in 1..MaxRound, NEW v \in Version,
         NEW from \in Place \ {End}, NEW seen \in SUBSET Node, Filed(tasks, r, seen),
         \A depth \in Depths(v), n \in seen : depth[n] <= depth[from],
         Advance(ts, r, v, from, seen)
  PROVE  AsForetold(v, from, seen)
<1>1. PICK S \in SUBSET Node, stop \in Node \cup {End} :
         /\ StopsAt(v, from, S, stop)
         /\ IF stop = End THEN Complete(ts, r, S, seen) ELSE Arrive(ts, r, S, stop, seen)
  BY DEF Advance
<1> DEFINE path == Foreseen(v, from)
           at == StopForeseen(path)
<1>2. \/ path[at].asked = {None} /\ HasEmptyGroup(path[at].at)
      \/ /\ path[at].at = stop
         /\ stop # End => path[at].asked = Asked(stop)
         /\ { path[i].at : i \in 1..(at - 1) } = S
  BY <1>1, WalkIsForeseen
<1>3. (S \cup {stop}) \cap seen = {}
  <2>1. PICK depth : depth \in Depths(v)
    BY DepthsType
  <2>2. /\ \A n \in S : depth[from] < depth[n]
        /\ depth[from] < depth[stop]
    BY <1>1, <2>1, WalksDown
  <2>3. seen \subseteq Place /\ S \subseteq Place /\ stop \in Place /\ from \in Place
    BY DEF Place
  <2>4. \A x \in Place : depth[x] \in Nat
    BY <2>1, DepthsType
  <2>5. ASSUME NEW n \in S \cup {stop}, n \in seen PROVE FALSE
    <3>1. depth[from] < depth[n] /\ depth[n] <= depth[from]
      BY <2>1, <2>2, <2>5
    <3> QED
      BY <3>1, <2>3, <2>4
  <2> QED
    BY <2>5
<1>4. stop \notin S /\ None \notin Node /\ End \notin Node
  BY <1>1, ConstantsAssumption DEF StopsAt
<1> DEFINE asked == path[at].asked
           there == path[at].at
           passed == { path[i].at : i \in 1..(at - 1) }
           Foretold == /\ status' = "approved" <=> there = End
                       /\ status' = "pending" => /\ current' = there
                                                 /\ { t.origin : t \in NewlyOpen } = asked
                       /\ passed = (visited' \ seen) \ {current'}
<1>5. SUFFICES ASSUME there = stop, stop # End => asked = Asked(stop), passed = S
               PROVE  Foretold
  BY <1>2 DEF AsForetold
<1> HIDE DEF asked, there, passed
<1>6. CASE stop = End
  <2>1. status' = "approved" /\ current' = None /\ visited' = seen \cup S
    BY <1>1, <1>6 DEF Complete, Finish
  <2>2. S = (visited' \ seen) \ {current'}
    BY <1>3, <1>4, <2>1
  <2> QED
    BY <1>5, <1>6, <2>1, <2>2
<1>7. CASE stop # End
  <2>1. stop \in Node /\ Arrive(ts, r, S, stop, seen)
    BY <1>1, <1>7
  <2>2. status' = "pending" /\ current' = stop /\ visited' = seen \cup S \cup {stop}
    BY <2>1 DEF Arrive
  <2>3. S = (visited' \ seen) \ {current'}
    BY <1>3, <1>4, <2>2
  <2>4. { t.origin : t \in NewlyOpen } = Asked(stop)
    BY <1>3, <2>1, OpenedAsAsked
  <2> QED
    BY <1>5, <1>7, <2>2, <2>3, <2>4
<1> QED
  BY <1>6, <1>7

(* Moved on from its step, ...                                                *)
LEMMA LeavesAsForetold ==
  ASSUME DecisionInv, status = "pending", NEW ts, Table(ts), DOMAIN ts = DOMAIN tasks,
         Leaves(ts), round' = round
  PROVE  AsForetold(version, current, visited)
<1>1. Inv /\ RowsOK /\ WalkOK
  BY DEF DecisionInv, Decisions
<1>2. /\ version \in Version /\ current \in Node /\ current \in visited
      /\ visited \in SUBSET Node /\ round \in 1..MaxRound /\ TypeOK
  BY <1>1 DEF WalkOK, Inv, RequestOK, RoundBegun, WaitsForAnOpenTask
<1>3. current \in Place \ {End} /\ visited \subseteq Place
  BY <1>2, ConstantsAssumption DEF Place
<1>4. ASSUME NEW depth \in Depths(version), NEW n \in visited PROVE depth[n] <= depth[current]
  <2>1. depth[n] \in Nat /\ depth[current] \in Nat
    BY <1>2, <1>3, DepthsType
  <2>2. n # current => depth[n] < depth[current]
    BY <1>1, <1>2 DEF WalkOK, BelowAll, Below
  <2> QED
    BY <2>1, <2>2
<1>5. Advance(ts, round, version, current, visited) /\ Filed(tasks, round, visited)
  BY <1>1 DEF Leaves, RowsOK
<1> QED
  BY <1>2, <1>3, <1>4, <1>5, WalkAsForetold

(* ... or sent                                                                *)
LEMMA SendsAsForetold ==
  ASSUME DecisionInv, Sends
  PROVE  AsForetold(version', Start, {})
<1> DEFINE r == round'
           v == version'
<1>1. /\ round \in 0..MaxRound /\ MaxRound \in Nat /\ r = round + 1 /\ round < MaxRound
      /\ v \in Version /\ TypeOK /\ Table(tasks) /\ RowsOK
  BY ConstantsAssumption DEF DecisionInv, Decisions, Sends, Inv, RequestOK, TypeOK
<1>2. Advance(tasks, r, v, Start, {})
  BY <1>1 DEF Sends
<1> HIDE DEF r, v
<1>3. round < r /\ r \in 1..MaxRound
  BY <1>1
<1>4. \A t \in DOMAIN tasks : t.round < r
  <2>1. \A t \in DOMAIN tasks : t.round \in Nat /\ t.round <= round
    BY <1>1 DEF Table, TaskId, RowsOK, Filed
  <2> QED
    BY <1>1, <1>3, <2>1
<1>5. Start \in Place \ {End} /\ Filed(tasks, r, {})
  BY <1>4, ConstantsAssumption DEF Place, Filed
<1>6. AsForetold(v, Start, {})
  BY <1>1, <1>2, <1>3, <1>5, WalkAsForetold
<1> QED
  BY <1>6 DEF v

LEMMA ArrivalAsForetold ==
  ASSUME DecisionInv, [Next]_vars, Arrives
  PROVE  AsForetold(version', CameFrom, SeenBefore)
<1>1. Inv /\ RowsOK /\ ScanOK
  BY DEF DecisionInv, Decisions
<1>2. ~Quiet
  BY DEF Quiet, Arrives
<1>3. ASSUME NEW A, NEW verdict, NEW D, NEW u, NEW how PROVE ~Stops(A, verdict, D, u, how)
  BY DEF Stops, Finish, Arrives
<1>4. ASSUME status = "pending", NEW ts, Table(ts), DOMAIN ts = DOMAIN tasks, Leaves(ts),
             round' = round, version' = version
      PROVE  AsForetold(version', CameFrom, SeenBefore)
  <2>1. AsForetold(version, current, visited)
    BY <1>4, LeavesAsForetold
  <2>2. CameFrom = current /\ SeenBefore = visited
    BY <1>4 DEF CameFrom, SeenBefore
  <2> QED
    BY <1>4, <2>1, <2>2
<1>5. ASSUME NEW ts, NEW A, NEW D, NEW u, ApprovalStep(ts, A, D, u)
      PROVE  AsForetold(version', CameFrom, SeenBefore)
  <2>1. ~Stays(ts)
    BY <1>5 DEF ApprovalStep, Approves, Stays, Arrives
  <2>2. status = "pending" /\ Table(ts) /\ DOMAIN ts = DOMAIN tasks /\ Leaves(ts)
        /\ round' = round /\ version' = version
    BY <1>5, <2>1 DEF ApprovalStep, Approves, Decides
  <2> QED
    BY <1>4, <2>2
<1>6. ASSUME NEW ts, NEW t, DropStep(ts, t)
      PROVE  AsForetold(version', CameFrom, SeenBefore)
  <2>1. ~Stays(ts)
    BY <1>6 DEF DropStep, Drops, Stays, Arrives
  <2>2. status = "pending" /\ Table(ts) /\ DOMAIN ts = DOMAIN tasks /\ Leaves(ts)
        /\ round' = round /\ version' = version
    BY <1>6, <2>1 DEF DropStep, Drops, Decides
  <2> QED
    BY <1>4, <2>2
<1>7. CASE Sends
  <2>1. round \in Nat /\ round' = round + 1
    BY <1>1, <1>7, ConstantsAssumption DEF Inv, RequestOK, TypeOK, Sends
  <2>2. CameFrom = Start /\ SeenBefore = {}
    BY <2>1 DEF CameFrom, SeenBefore
  <2>3. AsForetold(version', Start, {})
    BY <1>7, SendsAsForetold
  <2> QED
    BY <2>2, <2>3
<1> QED
  BY <1>1, <1>2, <1>3, <1>5, <1>6, <1>7, StepKinds

(* A request that arrives somewhere does what the preview foretold: it passes  *)
(* over the same steps and asks the same people and groups at the same step,    *)
(* or is approved, for every workflow, organisation and payload, unless an       *)
(* empty group blocks the preview (simulate, previewApprovers against advance,   *)
(* walkFrom).                                                                    *)
THEOREM PreviewsComeTrue == Spec => PreviewIsFollowed
<1> DEFINE Followed == Arrives => AsForetold(version', CameFrom, SeenBefore)
<1>1. DecisionInv /\ [Next]_vars => [Followed]_vars
  BY ArrivalAsForetold
<1> QED
  BY <1>1, DecisionInvHolds, PTL DEF Spec, PreviewIsFollowed, Followed, AsForetold, Passed

=============================================================================
