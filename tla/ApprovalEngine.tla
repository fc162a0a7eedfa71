--------------------------- MODULE ApprovalEngine ---------------------------
(***************************************************************************)
(* The approval engine: one approval request walking through the steps of  *)
(* a published workflow (libs/app/services/approval-engine).               *)
(*                                                                         *)
(* Every public operation of ApprovalEngineService runs in one transaction *)
(* that first locks the request row (lockRequest, PESSIMISTIC_WRITE), so an *)
(* operation is one atomic action here.  The two operations that read a    *)
(* task BEFORE they take that lock and never re-read it, reassign and      *)
(* handleOverdue, are split at the lock: a read action remembers what was  *)
(* seen, a later write action uses it, and anything may happen in between. *)
(* handleOverdue is split a second time, because an automatic decision is  *)
(* carried out by a second transaction.                                    *)
(***************************************************************************)
EXTENDS Naturals, FiniteSets

CONSTANTS
  User, Group,        \* principals: people and groups
  Requester,          \* the user who owns the request
  None,               \* null
  Node,               \* the steps that wait for approvers (approval, parallel)
  Start, End,         \* the start node; the end nodes, taken as one
  Slot,               \* positions in a step's list of approvers
  Version,            \* published versions of the workflow definition
  Payload,            \* payloads, as far as the conditions tell them apart
  Walk,               \* Walk[v][p][from]: the next waiting step, or End
  Step,               \* configuration of each waiting step
  EscalateTo,         \* EscalateTo[u]: who is above u (first escalation)
  DeputyEscalateTo,   \* DeputyEscalateTo[u]: the head above deputy u (second)
  Delegation,         \* the delegations users may grant
  MaxEscalations,     \* MAX_ESCALATIONS
  MaxRound,           \* bound: number of times the request may be submitted
  Lockable,           \* bound: users an administrator may lock and unlock
  ReassignTo,         \* bound: users tasks are reassigned to
  Movable,            \* bound: users who may leave and join groups
  Membership          \* bound: the group memberships it may start from

Principal == User \cup Group
Place == Node \cup {Start, End}

(* An approver configuration: a group, or the people it resolves to (several *)
(* of them for "head or deputy": each gets a task, one approval is enough).  *)
ApproverConfig == [group : Group \cup {None}, users : SUBSET User]

StepConfig ==
  [mode : {"single", "all", "any"},
   approvers : UNION {[S -> ApproverConfig] : S \in SUBSET Slot},
   onOverdue : {"remind", "escalate", "autoApprove", "autoReject"},
   timed : BOOLEAN, requireSignature : BOOLEAN, allowReturn : BOOLEAN,
   skipIfRequester : BOOLEAN, skipIfNoApprover : BOOLEAN,
   allowDelegation : BOOLEAN, assign : BOOLEAN]

ASSUME ConstantsAssumption ==
  /\ Requester \in User
  /\ User \cap Group = {}
  /\ None \notin User \cup Group \cup Slot \cup Node \cup Version \cup Payload \cup {Start, End}
  /\ IsFiniteSet(Node) /\ Start \notin Node /\ End \notin Node /\ Start # End
  /\ Walk \in [Version -> [Payload -> [Place -> Node \cup {End}]]]
  /\ Step \in [Node -> StepConfig]
  /\ EscalateTo \in [User -> SUBSET User]
  /\ DeputyEscalateTo \in [User -> SUBSET User]
  /\ Delegation \subseteq [from : User, to : User, mode : {"window", "handover"}]
  /\ MaxEscalations \in Nat /\ MaxRound \in Nat
  /\ Membership \subseteq [Group -> SUBSET User]

(* Only definitions without a loop are published (validateGraph) *)
Depths(v) ==
  { depth \in [Place -> 0..Cardinality(Place)] :
      \A p \in Payload, x \in Place \ {End} : depth[x] < depth[Walk[v][p][x]] }

ASSUME AcyclicAssumption == \A v \in Version : Depths(v) # {}

VARIABLES
  status,      \* the request's status
  round,       \* how many times it was submitted
  current,     \* currentNodeIds: the step it waits at (at most one), or None
  visited,     \* visitedNodeIds, its waiting steps
  version,     \* the workflow version the request is pinned to
  payload,     \* the form data the conditions read
  tasks,       \* approval_tasks rows, by identity
  signed,      \* tasks for which a signed document was stored
  published,   \* the workflow version new requests get
  active,      \* users who are not locked
  members,     \* group membership
  delegation,  \* state of every delegation
  admin,       \* reassign: the task and holder read before the lock, or None
  cron         \* the SLA scan: tasks still to visit, the task at hand, its holder

requestVars == <<status, round, current, visited, version, payload, tasks, signed>>
contextVars == <<published, active, members, delegation>>
vars == <<requestVars, contextVars, admin, cron>>

RequestStatus == {"draft", "pending", "approved", "rejected", "returned", "cancelled"}
TaskStatus == {"pending", "approved", "rejected", "returned", "skipped"}

(* A request meets a step at most once in a round and a step gives one task *)
(* to each origin principal of each slot, so this names a row.              *)
TaskId == [round : 1..MaxRound, node : Node, slot : Slot \cup {None}, origin : Principal]

Task == [status : TaskStatus, approver : Principal, assigned : BOOLEAN,
         handovers : SUBSET Delegation, actedBy : User \cup {None},
         late : 0..2,              \* 0: not due; 1: past dueAt; 2: by a whole SLA period
         reminded : BOOLEAN, escalations : 0..MaxEscalations]

Idle == [pc |-> "idle", batch |-> {}, task |-> None, holder |-> None]

TypeOK ==
  /\ status \in RequestStatus
  /\ round \in 0..MaxRound
  /\ current \in Node \cup {None}
  /\ visited \subseteq Node
  /\ version \in Version \cup {None}
  /\ payload \in Payload
  /\ DOMAIN tasks \subseteq TaskId
  /\ tasks \in [DOMAIN tasks -> Task]
  /\ signed \subseteq DOMAIN tasks
  /\ published \in Version
  /\ active \subseteq User
  /\ members \in [Group -> SUBSET User]
  /\ delegation \in [Delegation -> {"none", "active", "expired", "deleted"}]
  /\ admin \in [task : DOMAIN tasks, holder : Principal] \cup {None}
  /\ \/ cron = Idle
     \/ /\ cron \in [pc : {"scan"}, batch : SUBSET DOMAIN tasks, task : {None}, holder : {None}]
        /\ cron.batch # {}
     \/ cron \in [pc : {"read", "approve", "reject"}, batch : SUBSET DOMAIN tasks,
                  task : DOMAIN tasks, holder : Principal]

-----------------------------------------------------------------------------
(* Who may act on a task (task-access.ts)                                   *)

Holds(t, u) == tasks[t].approver = u
IsGroupTask(t) == tasks[t].approver \in Group

(* Window delegations count while they are in force and the step allows     *)
(* delegation; handover delegations stay attached to the task until they    *)
(* are deleted.  The requester is nobody's delegate on the own request.     *)
Delegates(t) ==
  LET holder == tasks[t].approver IN
  { d.to : d \in { e \in Delegation :
       /\ e.to \notin {Requester, holder}
       /\ \/ /\ e.from = holder /\ e.mode = "window"
             /\ delegation[e] = "active"
             /\ Step[t.node].allowDelegation
          \/ /\ e \in tasks[t].handovers
             /\ delegation[e] # "deleted" } }

CanAct(u, t) ==
  IF IsGroupTask(t) THEN u \in members[tasks[t].approver]
                    ELSE Holds(t, u) \/ u \in Delegates(t)

(* groupMembers: only members who are not locked *)
GroupMembers(g) == members[g] \cap active

(* The person is the only one who can act on the task *)
SoleApprover(u, t) ==
  IF IsGroupTask(t) THEN GroupMembers(tasks[t].approver) = {u}
                    ELSE Holds(t, u) /\ Delegates(t) = {}

(* Handover delegations in force when a task comes into the hands of u *)
HandoversOf(u, n) ==
  IF Step[n].allowDelegation
  THEN { d \in Delegation : /\ d.from = u /\ d.mode = "handover"
                            /\ delegation[d] = "active" /\ d.to # Requester }
  ELSE {}

-----------------------------------------------------------------------------
(* Resolving a step's slots when the request arrives there                  *)

Slots(n) == DOMAIN Step[n].approvers
GroupOf(n, s) == Step[n].approvers[s].group
IsGroupSlot(n, s) == GroupOf(n, s) # None

(* A group slot: its present members.  A slot of people: those who are not   *)
(* locked; skipIfRequester takes the requester out while others remain.      *)
SlotUsers(n, s) ==
  LET people == Step[n].approvers[s].users \cap active
      others == people \ {Requester}
  IN IF IsGroupSlot(n, s) THEN GroupMembers(GroupOf(n, s))
     ELSE IF Step[n].skipIfRequester /\ others # {} THEN others
     ELSE people

Blocked(n) ==
  /\ ~Step[n].skipIfNoApprover
  /\ \/ Slots(n) = {}
     \/ \E s \in Slots(n) : ~IsGroupSlot(n, s) /\ SlotUsers(n, s) = {}

FilledSlots(n) == { s \in Slots(n) : SlotUsers(n, s) # {} }
RequesterSlots(n) ==
  { s \in FilledSlots(n) : Step[n].skipIfRequester /\ SlotUsers(n, s) = {Requester} }
OpenSlots(n) == FilledSlots(n) \ RequesterSlots(n)

(* The step is skipped: nobody to ask, or only the requester *)
Skipped(n) == ~Blocked(n) /\ OpenSlots(n) = {}

Origins(n, s) == IF IsGroupSlot(n, s) THEN {GroupOf(n, s)} ELSE SlotUsers(n, s)

(* A slot only the requester fills leaves a skipped task without a slot *)
WaivedIds(r, n) ==
  UNION { { [round |-> r, node |-> n, slot |-> None, origin |-> p] : p \in Origins(n, s) }
          : s \in RequesterSlots(n) }
OpenIds(r, n) ==
  UNION { { [round |-> r, node |-> n, slot |-> s, origin |-> p] : p \in Origins(n, s) }
          : s \in OpenSlots(n) }

(* "Assign" groups give each of their slots to one member drawn at random *)
DrawnSlots(n) == { s \in OpenSlots(n) : Step[n].assign /\ IsGroupSlot(n, s) }
Draws(n) == { f \in [DrawnSlots(n) -> User] : \A s \in DrawnSlots(n) : f[s] \in SlotUsers(n, s) }

WaivedTask(id) ==
  [status |-> "skipped", approver |-> id.origin, assigned |-> FALSE, handovers |-> {},
   actedBy |-> None, late |-> 0, reminded |-> FALSE, escalations |-> 0]

OpenTask(id, draw) ==
  LET drawn == id.slot \in DOMAIN draw
      holder == IF drawn THEN draw[id.slot] ELSE id.origin
  IN [status |-> "pending", approver |-> holder, assigned |-> drawn,
      handovers |-> HandoversOf(holder, id.node),
      actedBy |-> None, late |-> 0, reminded |-> FALSE, escalations |-> 0]

-----------------------------------------------------------------------------
(* Walking on                                                               *)

Finish(how) == status' = how /\ current' = None

(* From a place, the walk goes over the steps S, which it skips, and stops at *)
(* the end or at the first step with somebody to ask                          *)
StopsAt(v, from, S, stop) ==
  LET next(x) == Walk[v][payload][x]
  IN /\ stop \notin S
     /\ \A x \in S \cup {from} : next(x) \in S \cup {stop}
     /\ \A n \in S : Skipped(n) /\ \E x \in S \cup {from} : next(x) = n
     /\ stop # End => ~Blocked(stop) /\ OpenSlots(stop) # {}

(* A step on the way is blocked: the code throws, the transaction rolls back *)
Stuck(v, from) == ~ \E S \in SUBSET Node, stop \in Node \cup {End} : StopsAt(v, from, S, stop)

Waived(r, S) == UNION { WaivedIds(r, n) : n \in S }

(* The walk reaches the end: the request is approved *)
Complete(ts, r, S, seen) ==
  /\ Finish("approved")
  /\ visited' = seen \cup S
  /\ tasks' = [t \in DOMAIN ts \cup Waived(r, S) |->
                 IF t \in Waived(r, S) THEN WaivedTask(t) ELSE ts[t]]

(* The walk stops at a step: its tasks are created and it becomes current *)
Arrive(ts, r, S, stop, seen) ==
  /\ status' = "pending" /\ current' = stop
  /\ visited' = seen \cup S \cup {stop}
  /\ \E draw \in Draws(stop) :
       tasks' = [t \in DOMAIN ts \cup Waived(r, S \cup {stop}) \cup OpenIds(r, stop) |->
                  IF t \in OpenIds(r, stop) THEN OpenTask(t, draw)
                  ELSE IF t \in Waived(r, S \cup {stop}) THEN WaivedTask(t)
                  ELSE ts[t]]

Advance(ts, r, v, from, seen) ==
  \E S \in SUBSET Node, stop \in Node \cup {End} :
    /\ StopsAt(v, from, S, stop)
    /\ IF stop = End THEN Complete(ts, r, S, seen) ELSE Arrive(ts, r, S, stop, seen)

-----------------------------------------------------------------------------
(* The requester                                                            *)

(* updateRequest, without the lock: the request's optimistic version, which  *)
(* every write of it moves on, refuses the edit if it was sent meanwhile      *)
EditDraft(p) ==
  /\ status \in {"draft", "returned"} /\ Requester \in active
  /\ payload' = p
  /\ UNCHANGED <<status, round, current, visited, version, tasks, signed,
                 contextVars, admin, cron>>

SubmitRepinned ==
  /\ status \in {"draft", "returned"} /\ Requester \in active
  /\ round < MaxRound
  /\ round' = round + 1
  /\ version' = published
  /\ Advance(tasks, round + 1, version', Start, {})
  /\ UNCHANGED <<payload, signed, contextVars, admin, cron>>

(* submit: a first submission pins the published version, a later one keeps it *)
Submit ==
  /\ status \in {"draft", "returned"} /\ Requester \in active
  /\ round < MaxRound
  /\ round' = round + 1
  /\ version' = IF status = "returned" /\ version # None THEN version ELSE published
  /\ Advance(tasks, round + 1, version', Start, {})
  /\ UNCHANGED <<payload, signed, contextVars, admin, cron>>

(* Tasks an action closes: ts with the tasks of S decided by u *)
Close(ts, S, how, u) ==
  [t \in DOMAIN ts |-> IF t \in S THEN [ts[t] EXCEPT !.status = how, !.actedBy = u] ELSE ts[t]]
Skip(ts, S) ==
  [t \in DOMAIN ts |-> IF t \in S THEN [ts[t] EXCEPT !.status = "skipped"] ELSE ts[t]]

RoundTasks == { t \in DOMAIN tasks : t.round = round }

(* cancel: once an approval was given in this round a pending request is kept *)
Cancel ==
  /\ status \in {"draft", "returned", "pending"} /\ Requester \in active
  /\ status = "pending" => \A t \in RoundTasks : tasks[t].status # "approved"
  /\ tasks' = IF status = "pending"
              THEN Skip(tasks, { t \in RoundTasks : tasks[t].status = "pending" })
              ELSE tasks
  /\ Finish("cancelled")
  /\ UNCHANGED <<round, visited, version, payload, signed, contextVars, admin, cron>>

-----------------------------------------------------------------------------
(* The approvers                                                            *)

(* actableStep: the open tasks of the current step *)
Open == { t \in RoundTasks : t.node = current /\ tasks[t].status = "pending" }
Eligible(u) == { t \in Open : CanAct(u, t) }

(* The task a click counts for: one's own, else a group's, else any *)
Preferred(u) ==
  LET own == { t \in Eligible(u) : Holds(t, u) }
      shared == { t \in Eligible(u) : IsGroupTask(t) }
  IN IF own # {} THEN own ELSE IF shared # {} THEN shared ELSE Eligible(u)

InAllStep == Step[current].mode = "all"

(* In an "all" step a decision counts for one slot, elsewhere for the step *)
Mine(E, pick) ==
  IF InAllStep THEN { t \in E : t = pick \/ (pick.slot # None /\ t.slot = pick.slot) } ELSE E

AlongWithAllEligible(E, mine, u) == IF InAllStep /\ u # None THEN E \ mine ELSE {}

(* Slots of an "all" step nobody but the actor could decide go along *)
AlongWith(E, mine, u) ==
  IF InAllStep /\ u # None THEN { t \in E \ mine : SoleApprover(u, t) } ELSE {}

ApproveStepOnly(E, pick, u) ==
  LET mine == Mine(E, pick)
      approved == mine \cup AlongWith(E, mine, u)
      done == Close(tasks, approved, "approved", u)
      rest == Open \ approved
      coSlot == { t \in rest : \E m \in mine : m.slot # None /\ t.slot = m.slot }
  IN /\ signed' = IF Step[current].requireSignature /\ u # None THEN signed \cup {pick} ELSE signed
     /\ IF InAllStep /\ rest \ coSlot # {}
        THEN /\ tasks' = Skip(done, coSlot)
             /\ UNCHANGED <<status, current, visited>>
        ELSE Advance(done, round, version, current, visited)
     /\ UNCHANGED <<round, version, payload>>

(* act(Approve) by u on the eligible tasks E, the click counting for pick.   *)
(* Afterwards an "all" step waits while a slot is open; any other step, or   *)
(* the last slot, closes what is left and the request walks on.              *)
ApproveStep(E, pick, u) ==
  LET mine == Mine(E, pick)
      approved == mine \cup AlongWith(E, mine, u)
      done == Close(tasks, approved, "approved", u)
      rest == Open \ approved
      coSlot == { t \in rest : \E m \in mine : m.slot # None /\ t.slot = m.slot }
  IN /\ signed' = IF Step[current].requireSignature /\ u # None THEN signed \cup {pick} ELSE signed
     /\ IF InAllStep /\ rest \ coSlot # {}
        THEN /\ tasks' = Skip(done, coSlot)
             /\ UNCHANGED <<status, current, visited>>
        ELSE Advance(Skip(done, rest), round, version, current, visited)
     /\ UNCHANGED <<round, version, payload>>

(* act(Reject), act(Return): whatever else is open in the step is skipped *)
StopStep(E, pick, u, how) ==
  LET mine == Mine(E, pick)
  IN /\ tasks' = Skip(Close(tasks, mine, how, u), Open \ mine)
     /\ Finish(how)
     /\ UNCHANGED <<round, visited, version, payload, signed>>

Actor(u) == u \in active /\ status = "pending"

Approve(u) ==
  /\ Actor(u)
  /\ \E pick \in Preferred(u) : ApproveStep(Eligible(u), pick, u)
  /\ UNCHANGED <<contextVars, admin, cron>>

Reject(u) ==
  /\ Actor(u)
  /\ \E pick \in Preferred(u) : StopStep(Eligible(u), pick, u, "rejected")
  /\ UNCHANGED <<contextVars, admin, cron>>

Return(u) ==
  /\ Actor(u) /\ current # None /\ Step[current].allowReturn
  /\ \E pick \in Preferred(u) : StopStep(Eligible(u), pick, u, "returned")
  /\ UNCHANGED <<contextVars, admin, cron>>

-----------------------------------------------------------------------------
(* Handing a task over (handOver)                                           *)

HandOver(t, u, fromGroup) ==
  [tasks[t] EXCEPT !.approver = u, !.assigned = fromGroup, !.handovers = HandoversOf(u, t.node)]

(* reassign reads the task first, and sees it pending ...                   *)
ReassignRead(t) ==
  /\ admin = None /\ ReassignTo # {}
  /\ tasks[t].status = "pending"
  /\ admin' = [task |-> t, holder |-> tasks[t].approver]
  /\ UNCHANGED <<requestVars, contextVars, cron>>

(* ... then locks the request and hands over the task as it read it: a column *)
(* is written only where it differs from what was read                       *)
ReassignWrite(u) ==
  /\ admin # None /\ u \in active \cap ReassignTo
  /\ LET t == admin.task
         moved == HandOver(t, u, FALSE)
     IN tasks' = [tasks EXCEPT ![t] =
                    IF u = admin.holder THEN [moved EXCEPT !.approver = tasks[t].approver] ELSE moved]
  /\ admin' = None
  /\ UNCHANGED <<status, round, current, visited, version, payload, signed, contextVars, cron>>

RepairAndStay(t) ==
  LET g == IF tasks[t].assigned THEN t.origin ELSE tasks[t].approver
  IN /\ status = "pending" /\ t \in Open
     /\ tasks[t].assigned \/ IsGroupTask(t)
     /\ IF tasks[t].assigned THEN tasks[t].approver \notin GroupMembers(g) ELSE GroupMembers(g) = {}
     /\ IF GroupMembers(g) # {}
        THEN \E u \in GroupMembers(g) : tasks' = [tasks EXCEPT ![t] = HandOver(t, u, TRUE)]
        ELSE tasks' = Skip(tasks, {t})
     /\ UNCHANGED <<status, current, visited, round, version, payload, signed, contextVars, admin, cron>>

RepairAssigned(t) ==
  /\ status = "pending" /\ t \in Open /\ tasks[t].assigned
  /\ tasks[t].approver \notin GroupMembers(t.origin)
  /\ \E u \in GroupMembers(t.origin) : tasks' = [tasks EXCEPT ![t] = HandOver(t, u, TRUE)]
  /\ UNCHANGED <<status, current, visited, round, version, payload, signed, contextVars, admin, cron>>

(* repairGroupTask: re-reads the task under the lock.  The person an "assign" *)
(* group's task was given to has left or is locked: another member gets it.   *)
(* Nobody is left in the group: the slot is dropped, and with the step's last *)
(* open task the request walks on.                                            *)
RepairGroupTask(t) ==
  LET g == IF tasks[t].assigned THEN t.origin ELSE tasks[t].approver
  IN /\ status = "pending" /\ t \in Open
     /\ tasks[t].assigned \/ IsGroupTask(t)
     /\ IF tasks[t].assigned THEN tasks[t].approver \notin GroupMembers(g) ELSE GroupMembers(g) = {}
     /\ IF GroupMembers(g) # {}
        THEN /\ \E u \in GroupMembers(g) : tasks' = [tasks EXCEPT ![t] = HandOver(t, u, TRUE)]
             /\ UNCHANGED <<status, current, visited>>
        ELSE IF Open # {t}
        THEN /\ tasks' = Skip(tasks, {t})
             /\ UNCHANGED <<status, current, visited>>
        ELSE Advance(Skip(tasks, {t}), round, version, current, visited)
     /\ UNCHANGED <<round, version, payload, signed, contextVars, admin, cron>>

-----------------------------------------------------------------------------
(* The SLA scan (handleOverdue)                                             *)

(* One SLA period goes by: dates are kept relative to each task's dueAt *)
Tick ==
  /\ \E t \in DOMAIN tasks : tasks[t].status = "pending" /\ Step[t.node].timed /\ tasks[t].late < 2
  /\ tasks' = [t \in DOMAIN tasks |->
                 IF tasks[t].status = "pending" /\ Step[t.node].timed /\ tasks[t].late < 2
                 THEN [tasks[t] EXCEPT !.late = @ + 1] ELSE tasks[t]]
  /\ UNCHANGED <<status, round, current, visited, version, payload, signed, contextVars, admin, cron>>

(* The cron job collects the overdue tasks of pending requests, ...          *)
Overdue == { t \in DOMAIN tasks : tasks[t].status = "pending" /\ tasks[t].late > 0 }
ScanStart ==
  /\ cron = Idle /\ Overdue # {} /\ status = "pending"
  /\ cron' = [Idle EXCEPT !.pc = "scan", !.batch = Overdue]
  /\ UNCHANGED <<requestVars, contextVars, admin>>

ScanGoesOn(batch) ==
  cron' = IF batch = {} THEN Idle ELSE [Idle EXCEPT !.pc = "scan", !.batch = batch]

(* ... and visits one after the other: reads the task, which has to be open, *)
OverdueRead ==
  /\ cron.pc = "scan"
  /\ \E t \in cron.batch :
       IF tasks[t].status = "pending"
       THEN cron' = [pc |-> "read", batch |-> cron.batch \ {t},
                     task |-> t, holder |-> tasks[t].approver]
       ELSE ScanGoesOn(cron.batch \ {t})
  /\ UNCHANGED <<requestVars, contextVars, admin>>

(* ... then locks the request, which has to wait at the task's step still.   *)
(* Nothing but the scan writes late, reminded and escalations, so only the   *)
(* holder (and the status) it read can be stale.                             *)
OverdueUnderLock ==
  /\ cron.pc = "read"
  /\ status = "pending" /\ current = cron.task.node
  /\ UNCHANGED <<status, round, current, visited, version, payload, signed, contextVars, admin>>

AutoApprovesUnsigned(n) == Step[n].onOverdue = "autoApprove"
AutoApproves(n) == Step[n].onOverdue = "autoApprove" /\ ~Step[n].requireSignature
LateAgain(t) == tasks[t].reminded /\ tasks[t].late = 2

(* The decision is made here, and carried out by a second transaction *)
OverdueDecide ==
  /\ OverdueUnderLock
  /\ \/ AutoApproves(cron.task.node) /\ cron' = [cron EXCEPT !.pc = "approve"]
     \/ /\ Step[cron.task.node].onOverdue = "autoReject" /\ LateAgain(cron.task)
        /\ cron' = [cron EXCEPT !.pc = "reject"]
  /\ UNCHANGED tasks

TargetsOnceTooOften(t, holder) ==
  LET above == IF holder \notin User THEN {}
               ELSE IF tasks[t].escalations = 0 THEN EscalateTo[holder] ELSE DeputyEscalateTo[holder]
  IN IF Step[t.node].onOverdue = "escalate" /\ LateAgain(t) /\ tasks[t].escalations <= MaxEscalations
     THEN (above \cap active) \ {Requester, holder} ELSE {}

(* The person above the holder: never the requester or the holder; the first *)
(* escalation goes up, the second only from a deputy to that unit's head.    *)
EscalationTargets(t, holder) ==
  LET above == IF holder \notin User THEN {}
               ELSE IF tasks[t].escalations = 0 THEN EscalateTo[holder] ELSE DeputyEscalateTo[holder]
  IN IF Step[t.node].onOverdue = "escalate" /\ LateAgain(t) /\ tasks[t].escalations < MaxEscalations
     THEN (above \cap active) \ {Requester, holder} ELSE {}

OverdueEscalate ==
  /\ OverdueUnderLock
  /\ \E u \in EscalationTargets(cron.task, cron.holder) :
       tasks' = [tasks EXCEPT ![cron.task] =
                   [HandOver(cron.task, u, FALSE) EXCEPT
                      !.late = 0, !.reminded = FALSE, !.escalations = @ + 1]]
  /\ ScanGoesOn(cron.batch)

OverdueRemindUnrecorded ==
  /\ OverdueUnderLock
  /\ ~AutoApproves(cron.task.node)
  /\ ~(Step[cron.task.node].onOverdue = "autoReject" /\ LateAgain(cron.task))
  /\ EscalationTargets(cron.task, cron.holder) = {}
  /\ UNCHANGED tasks
  /\ ScanGoesOn(cron.batch)

OverdueRemind ==
  /\ OverdueUnderLock
  /\ ~AutoApproves(cron.task.node)
  /\ ~(Step[cron.task.node].onOverdue = "autoReject" /\ LateAgain(cron.task))
  /\ EscalationTargets(cron.task, cron.holder) = {}
  /\ tasks' = [tasks EXCEPT ![cron.task].reminded = TRUE]
  /\ ScanGoesOn(cron.batch)

(* The request has moved on since the task was read: nothing is done *)
OverdueMissed ==
  /\ cron.pc = "read"
  /\ status # "pending" \/ current # cron.task.node
  /\ ScanGoesOn(cron.batch)
  /\ UNCHANGED <<requestVars, contextVars, admin>>

(* The second transaction: act() with the task's id and no actor *)
OverdueAct ==
  /\ status = "pending" /\ cron.task \in Open
  /\ \/ cron.pc = "approve" /\ ApproveStep({cron.task}, cron.task, None)
     \/ cron.pc = "reject" /\ StopStep({cron.task}, cron.task, None, "rejected")
  /\ ScanGoesOn(cron.batch)
  /\ UNCHANGED <<contextVars, admin>>

(* It finds the task decided by somebody else, or it cannot walk on from the *)
(* step: act() throws, the scan logs the error and goes on                   *)
OverdueActFails ==
  /\ cron.pc \in {"approve", "reject"}
  /\ \/ status # "pending" \/ cron.task \notin Open
     \/ /\ status = "pending" /\ cron.pc = "approve" /\ Stuck(version, current)
        /\ InAllStep => \A t \in Open : t.slot = cron.task.slot
  /\ ScanGoesOn(cron.batch)
  /\ UNCHANGED <<requestVars, contextVars, admin>>

-----------------------------------------------------------------------------
(* Administration: what the engine reads but does not write                 *)

Publish(v) ==
  /\ v # published
  /\ published' = v
  /\ UNCHANGED <<requestVars, active, members, delegation, admin, cron>>

LockUser(u) ==
  /\ u \in Lockable
  /\ active' = IF u \in active THEN active \ {u} ELSE active \cup {u}
  /\ UNCHANGED <<requestVars, published, members, delegation, admin, cron>>

ChangeGroup(u, g) ==
  /\ u \in Movable
  /\ members' = [members EXCEPT ![g] = IF u \in @ THEN @ \ {u} ELSE @ \cup {u}]
  /\ UNCHANGED <<requestVars, published, active, delegation, admin, cron>>

\* Created, put off, ended early or run out, deleted
Delegate(d) ==
  /\ \/ delegation[d] \in {"none", "expired"} /\ delegation' = [delegation EXCEPT ![d] = "active"]
     \/ delegation[d] = "active" /\ delegation' = [delegation EXCEPT ![d] = "expired"]
     \/ delegation[d] \in {"active", "expired"} /\ delegation' = [delegation EXCEPT ![d] = "deleted"]
  /\ UNCHANGED <<requestVars, published, active, members, admin, cron>>

-----------------------------------------------------------------------------

Init ==
  /\ status = "draft" /\ round = 0 /\ current = None /\ visited = {}
  /\ version = None /\ payload \in Payload
  /\ tasks = [t \in {} |-> t] /\ signed = {}
  /\ published \in Version /\ active = User
  /\ members \in Membership
  /\ delegation = [d \in Delegation |-> "none"]
  /\ admin = None /\ cron = Idle

RequesterNext == Submit \/ Cancel \/ \E p \in Payload : EditDraft(p)
ApproverNext == \E u \in User : Approve(u) \/ Reject(u) \/ Return(u)
ReassignNext == (\E t \in DOMAIN tasks : ReassignRead(t)) \/ (\E u \in User : ReassignWrite(u))
RepairNext == \E t \in DOMAIN tasks : RepairGroupTask(t)
ScanNext ==
  \/ ScanStart \/ OverdueRead
  \/ OverdueDecide \/ OverdueEscalate \/ OverdueRemind \/ OverdueMissed
  \/ OverdueAct \/ OverdueActFails
DirectoryNext ==
  \/ \E v \in Version : Publish(v)
  \/ \E u \in User : LockUser(u) \/ \E g \in Group : ChangeGroup(u, g)
  \/ \E d \in Delegation : Delegate(d)

Next ==
  \/ RequesterNext \/ ApproverNext \/ ReassignNext \/ RepairNext
  \/ Tick \/ ScanNext \/ DirectoryNext

Spec == Init /\ [][Next]_vars

(* The scan runs every 15 minutes: it repairs the group tasks it finds and    *)
(* then visits every overdue task, whatever becomes of the others (up to its *)
(* batch limit).  People owe nothing.                                        *)
FairSpec == Spec /\ WF_vars(Tick) /\ WF_vars(ScanNext) /\ WF_vars(RepairNext)

-----------------------------------------------------------------------------
(* What must hold                                                           *)

(* Approving, returning, cancelling, skipping and walking on together never *)
(* leave an open task behind: a task is pending only in the round and at the *)
(* step where the pending request waits, so every click that finds a task    *)
(* finds it at the current step.                                             *)
PendingOnlyAtCurrentStep ==
  \A t \in DOMAIN tasks :
    tasks[t].status = "pending" => status = "pending" /\ t.round = round /\ t.node = current

(* A pending request waits for at least one open task, whatever the approvers, *)
(* the SLA scan and the repair of empty groups did to the step: it never hangs *)
(* at a step nobody can decide.  A request in any other status waits nowhere.  *)
WaitsForAnOpenTask ==
  IF status = "pending" THEN current # None /\ Open # {} ELSE current = None

TasksAt(n) == { t \in RoundTasks : t.node = n /\ t.slot # None }
Approvals(n) == { t \in TasksAt(n) : tasks[t].status = "approved" }
DroppedOnly(S) == \A t \in S : tasks[t].status = "skipped" /\ t.origin \in Group

(* A step of this round the request has left behind was really decided: in an  *)
(* "all" step every slot was approved, in any other step some task was; the    *)
(* exceptions are the slots of groups that lost their last member.             *)
PassedStepsAreDecided ==
  status \in {"pending", "approved"} =>
    \A n \in visited \ {current} :
      IF Step[n].mode = "all"
      THEN \A t \in TasksAt(n) :
             LET slotTasks == { o \in TasksAt(n) : o.slot = t.slot }
             IN slotTasks \cap Approvals(n) # {} \/ DroppedOnly(slotTasks)
      ELSE Approvals(n) # {} \/ DroppedOnly(TasksAt(n))

(* Nobody, the system included, approves at a step that requires a signature   *)
(* unless the same person stored a signed document for that step.              *)
SignatureStepsAreSigned ==
  \A t \in DOMAIN tasks :
    tasks[t].status = "approved" /\ Step[t.node].requireSignature =>
      /\ tasks[t].actedBy # None
      /\ \E o \in signed : /\ o.round = t.round /\ o.node = t.node
                           /\ tasks[o].actedBy = tasks[t].actedBy

(* Both: the steps of a request are passed rightly                             *)
StepsArePassedRightly == PassedStepsAreDecided /\ SignatureStepsAreSigned

(* A decision is final: no later click, scan, repair, cancellation or          *)
(* resubmission changes the outcome of a closed task, or who decided it.       *)
VerdictsAreFinal ==
  [][\A t \in DOMAIN tasks :
       tasks[t].status # "pending" =>
         /\ t \in DOMAIN tasks'
         /\ tasks'[t].status = tasks[t].status
         /\ tasks'[t].actedBy = tasks[t].actedBy]_vars

(* In an "all" step nobody loses a say: what one person's click approves is    *)
(* one slot, and beyond it only tasks nobody else could have decided.          *)
OneClickOneSlot ==
  [][\A t, o \in Open :
       /\ InAllStep /\ t.slot # o.slot
       /\ tasks'[t].status = "approved" /\ tasks'[o].status = "approved"
       => \E u \in User : SoleApprover(u, t) \/ SoleApprover(u, o)]_vars

(* Both: what was decided stands, and nothing is decided for anybody else       *)
VerdictsStand == OneClickOneSlot /\ VerdictsAreFinal

(* A step with a deadline that the system approves or rejects when it is late  *)
(* is left in the end even if no approver ever acts, unless the walk is blocked *)
(* behind it: the scan is not held up by races, failed decisions or the order   *)
(* of its reminders.                                                            *)
OverdueIsDecided ==
  \A n \in Node :
    Step[n].timed /\ (AutoApproves(n) \/ Step[n].onOverdue = "autoReject") =>
      (status = "pending" /\ current = n) ~> (current # n \/ Stuck(version, n))

EmptyGroupTask(t) == t \in Open /\ IsGroupTask(t) /\ GroupMembers(tasks[t].approver) = {}

(* A task whose group has lost its last active member does not stay open: the *)
(* repair drops the slot, and the request walks on when it was the last one.  *)
EmptyGroupIsDropped ==
  \A t \in { x \in TaskId : /\ x.slot \in DOMAIN Step[x.node].approvers
                            /\ Step[x.node].approvers[x.slot].group = x.origin } :
    EmptyGroupTask(t) ~> (~EmptyGroupTask(t) \/ Stuck(version, current))

(* The engine keeps the promise of RequestLifecycle: a request meets no step   *)
(* twice in a round, moves on only from a pending state, follows the version   *)
(* of its first submission whatever is published since, cannot be cancelled    *)
(* once somebody approved in the round, starts a round only when it is sent,   *)
(* and never leaves an approved, rejected or cancelled state.                  *)
Endorsed == \E t \in RoundTasks : tasks[t].status = "approved"
Lifecycle == INSTANCE RequestLifecycle WITH
  phase <- status, turn <- round, step <- current,
  settled <- visited \ {current}, plan <- version, endorsed <- Endorsed
RequestLivesAsPromised == Lifecycle!Spec

(* Doc of reassign: "Admin gan lai nguoi duyet cua task dang cho" -- it gives  *)
(* pending tasks a new approver; a decided task keeps the one it had.          *)
ClosedTaskKeepsHolder ==
  [][\A t \in DOMAIN tasks :
       tasks[t].status # "pending" => tasks'[t].approver = tasks[t].approver]_vars

(* "Each person gets a task of the same slot, one approval is enough": a slot  *)
(* one of its people approved asks nobody else any more.                       *)
OneApprovalFillsTheSlot ==
  \A t, o \in Open \cup Approvals(current) :
    t.slot = o.slot => tasks[t].status = tasks[o].status

=============================================================================
