------------------------ MODULE ApprovalEngineProofs ------------------------
(***************************************************************************)
(* Theorems about the approval engine, for every set of users, workflow,   *)
(* directory and bound: types, where open tasks are, what approvers decide *)
(* stands, the steps of a request are passed rightly, and the engine lives *)
(* as RequestLifecycle promises.                                           *)
(*                                                                         *)
(* The argument about decisions.  A published workflow has no loop, so a    *)
(* walk meets only steps it has not met in the round: the rows it creates   *)
(* are new ones, and what was decided is never written over.  Every         *)
(* operation then is one of six: it leaves all outcomes alone, approves at  *)
(* the current step and stays or walks on, drops the slot of an empty group *)
(* and stays or walks on, stops the request, or sends it again.             *)
(***************************************************************************)
EXTENDS ApprovalEngine, WellFoundedInduction, FiniteSetTheorems, TLAPS

-----------------------------------------------------------------------------
(* Types of the helpers                                                     *)

Table(ts) == DOMAIN ts \subseteq TaskId /\ ts \in [DOMAIN ts -> Task]

(* What the steps' configuration and the directory give *)
LEMMA ApproversType ==
  ASSUME NEW n \in Node, NEW s \in Slots(n)
  PROVE  /\ s \in Slot
         /\ Step[n].approvers[s].group \in Group \cup {None}
         /\ Step[n].approvers[s].users \subseteq User
<1>1. Step[n] \in StepConfig
  BY ConstantsAssumption
<1>2. PICK S \in SUBSET Slot : Step[n].approvers \in [S -> ApproverConfig]
  BY <1>1 DEF StepConfig
<1>3. s \in S /\ Step[n].approvers[s] \in ApproverConfig
  BY <1>2 DEF Slots
<1> QED
  BY <1>2, <1>3 DEF ApproverConfig

LEMMA SlotUsersType ==
  ASSUME TypeOK, NEW n \in Node, NEW s \in Slots(n)
  PROVE  SlotUsers(n, s) \subseteq User
<1>1. CASE IsGroupSlot(n, s)
  <2>1. GroupOf(n, s) \in Group
    BY <1>1, ApproversType DEF IsGroupSlot, GroupOf
  <2> QED
    BY <1>1, <2>1 DEF SlotUsers, GroupMembers, TypeOK
<1>2. CASE ~IsGroupSlot(n, s)
  BY <1>2, ApproversType DEF SlotUsers
<1> QED
  BY <1>1, <1>2

LEMMA OriginsType ==
  ASSUME TypeOK, NEW n \in Node, NEW s \in Slots(n)
  PROVE  /\ Origins(n, s) \subseteq Principal
         /\ SlotUsers(n, s) # {} => Origins(n, s) # {}
<1>1. IsGroupSlot(n, s) => GroupOf(n, s) \in Group
  BY ApproversType DEF IsGroupSlot, GroupOf
<1> QED
  BY <1>1, SlotUsersType DEF Origins, Principal

(* The rows a step gets are rows of that step in that round; a step with an *)
(* open slot gets at least one                                              *)
LEMMA IdsType ==
  ASSUME TypeOK, NEW r \in 1..MaxRound, NEW n \in Node
  PROVE  /\ WaivedIds(r, n) \subseteq TaskId
         /\ OpenIds(r, n) \subseteq TaskId
         /\ \A t \in WaivedIds(r, n) : t.round = r /\ t.node = n /\ t.slot = None
         /\ \A t \in OpenIds(r, n) : t.round = r /\ t.node = n /\ t.slot \in OpenSlots(n)
         /\ OpenSlots(n) # {} => OpenIds(r, n) # {}
<1> DEFINE id(s, p) == [round |-> r, node |-> n, slot |-> s, origin |-> p]
<1>1. RequesterSlots(n) \subseteq Slots(n) /\ OpenSlots(n) \subseteq Slots(n)
  BY DEF RequesterSlots, OpenSlots, FilledSlots
<1>2. \A s \in OpenSlots(n) : Origins(n, s) # {}
  BY <1>1, OriginsType DEF OpenSlots, FilledSlots
<1>3. \A t : t \in WaivedIds(r, n) <=>
               \E s \in RequesterSlots(n) : \E p \in Origins(n, s) : t = id(None, p)
  BY DEF WaivedIds
<1>4. \A t : t \in OpenIds(r, n) <=>
               \E s \in OpenSlots(n) : \E p \in Origins(n, s) : t = id(s, p)
  BY DEF OpenIds
<1>5. \A s \in Slots(n), p \in Principal : id(None, p) \in TaskId /\ id(s, p) \in TaskId
  BY ApproversType DEF TaskId
<1>6. \A s \in Slots(n) : Origins(n, s) \subseteq Principal
  BY OriginsType
<1>7. ASSUME NEW t \in WaivedIds(r, n) PROVE t \in TaskId
  <2>1. PICK s \in RequesterSlots(n) : \E p \in Origins(n, s) : t = id(None, p)
    BY <1>3
  <2> QED
    BY <2>1, <1>1, <1>5, <1>6
<1>11. ASSUME NEW t \in OpenIds(r, n) PROVE t \in TaskId
  <2>1. PICK s \in OpenSlots(n) : \E p \in Origins(n, s) : t = id(s, p)
    BY <1>4
  <2> QED
    BY <2>1, <1>1, <1>5, <1>6
<1>8. \A t \in WaivedIds(r, n) : t.round = r /\ t.node = n /\ t.slot = None
  BY <1>3
<1>9. \A t \in OpenIds(r, n) : t.round = r /\ t.node = n /\ t.slot \in OpenSlots(n)
  BY <1>4
<1>10. OpenSlots(n) # {} => OpenIds(r, n) # {}
  BY <1>2, <1>4
<1> QED
  BY <1>7, <1>8, <1>9, <1>10, <1>11

LEMMA HandoversType ==
  ASSUME NEW u, NEW n
  PROVE  HandoversOf(u, n) \in SUBSET Delegation
BY DEF HandoversOf

LEMMA WaivedTaskType ==
  ASSUME NEW t \in TaskId
  PROVE  WaivedTask(t) \in Task /\ WaivedTask(t).status = "skipped"
<1>1. 0 \in 0..MaxEscalations /\ 0 \in 0..2
  BY ConstantsAssumption
<1> QED
  BY <1>1 DEF WaivedTask, Task, TaskId, TaskStatus

LEMMA OpenTaskType ==
  ASSUME TypeOK, NEW n \in Node, NEW draw \in Draws(n), NEW t \in TaskId
  PROVE  OpenTask(t, draw) \in Task /\ OpenTask(t, draw).status = "pending"
<1>1. 0 \in 0..MaxEscalations /\ 0 \in 0..2
  BY ConstantsAssumption
<1>2. draw \in [DrawnSlots(n) -> User]
  BY DEF Draws
<1> DEFINE drawn == t.slot \in DOMAIN draw
           holder == IF drawn THEN draw[t.slot] ELSE t.origin
<1>3. holder \in Principal
  BY <1>2 DEF Principal, TaskId
<1>4. drawn \in BOOLEAN
  OBVIOUS
<1>5. HandoversOf(holder, t.node) \in SUBSET Delegation
  BY HandoversType
<1>6. OpenTask(t, draw) =
        [status |-> "pending", approver |-> holder, assigned |-> drawn,
         handovers |-> HandoversOf(holder, t.node),
         actedBy |-> None, late |-> 0, reminded |-> FALSE, escalations |-> 0]
  BY DEF OpenTask
<1> HIDE DEF holder, drawn
<1> QED
  BY <1>1, <1>3, <1>4, <1>5, <1>6 DEF Task, TaskStatus

LEMMA CloseType ==
  ASSUME NEW ts, Table(ts), NEW S, NEW how \in TaskStatus, NEW u \in User \cup {None}
  PROVE  /\ Table(Close(ts, S, how, u)) /\ DOMAIN Close(ts, S, how, u) = DOMAIN ts
         /\ \A t \in DOMAIN ts : Close(ts, S, how, u)[t].status = IF t \in S THEN how ELSE ts[t].status
<1>1. \A t \in DOMAIN ts : ts[t] \in Task
  BY DEF Table
<1>2. \A t \in DOMAIN ts : /\ [ts[t] EXCEPT !.status = how, !.actedBy = u] \in Task
                           /\ [ts[t] EXCEPT !.status = how, !.actedBy = u].status = how
  BY <1>1 DEF Task
<1> QED
  BY <1>1, <1>2 DEF Close, Table

LEMMA SkipType ==
  ASSUME NEW ts, Table(ts), NEW S
  PROVE  /\ Table(Skip(ts, S)) /\ DOMAIN Skip(ts, S) = DOMAIN ts
         /\ \A t \in DOMAIN ts : Skip(ts, S)[t].status = IF t \in S THEN "skipped" ELSE ts[t].status
<1>1. \A t \in DOMAIN ts : ts[t] \in Task
  BY DEF Table
<1>2. \A t \in DOMAIN ts : /\ [ts[t] EXCEPT !.status = "skipped"] \in Task
                           /\ [ts[t] EXCEPT !.status = "skipped"].status = "skipped"
  BY <1>1 DEF Task, TaskStatus
<1> QED
  BY <1>1, <1>2 DEF Skip, Table

LEMMA HandOverType ==
  ASSUME TypeOK, NEW t \in DOMAIN tasks, NEW u \in User, NEW b \in BOOLEAN
  PROVE  /\ HandOver(t, u, b) \in Task
         /\ HandOver(t, u, b).status = tasks[t].status
<1>1. tasks[t] \in Task
  BY DEF TypeOK
<1>2. HandoversOf(u, t.node) \in SUBSET Delegation
  BY HandoversType
<1>3. u \in Principal
  BY DEF Principal
<1>4. \A x \in Task, p \in Principal, h \in SUBSET Delegation :
        /\ [x EXCEPT !.approver = p, !.assigned = b, !.handovers = h] \in Task
        /\ [x EXCEPT !.approver = p, !.assigned = b, !.handovers = h].status = x.status
  BY DEF Task
<1> QED
  BY <1>1, <1>2, <1>3, <1>4 DEF HandOver

(* Walking on creates well-typed rows, keeps the ones there are, and opens *)
(* tasks only at the step where the request now waits, at least one        *)
LEMMA AdvanceFacts ==
  ASSUME TypeOK, NEW ts, Table(ts), NEW r \in 1..MaxRound, NEW v, NEW from,
         NEW seen \in SUBSET Node, Advance(ts, r, v, from, seen)
  PROVE  /\ Table(tasks') /\ DOMAIN ts \subseteq DOMAIN tasks'
         /\ visited' \in SUBSET Node
         /\ \/ status' = "approved" /\ current' = None
            \/ /\ status' = "pending" /\ current' \in Node
               /\ \E t \in DOMAIN tasks' : /\ t.round = r /\ t.node = current'
                                          /\ tasks'[t].status = "pending"
         /\ \A t \in DOMAIN tasks' : tasks'[t].status = "pending" =>
              \/ t \in DOMAIN ts /\ ts[t].status = "pending"
              \/ status' = "pending" /\ t.round = r /\ t.node = current'
<1>1. PICK S \in SUBSET Node, stop \in Node \cup {End} :
         /\ StopsAt(v, from, S, stop)
         /\ IF stop = End THEN Complete(ts, r, S, seen) ELSE Arrive(ts, r, S, stop, seen)
  BY DEF Advance
<1>2. \A T \in SUBSET Node : Waived(r, T) \subseteq TaskId
  BY IdsType DEF Waived
<1>3. \A t \in DOMAIN ts : t \in TaskId /\ ts[t] \in Task
  BY DEF Table
<1>4. CASE stop = End
  <2> DEFINE W == Waived(r, S)
  <2>1. Complete(ts, r, S, seen)
    BY <1>1, <1>4
  <2>2. /\ status' = "approved" /\ current' = None /\ visited' = seen \cup S
        /\ tasks' = [t \in DOMAIN ts \cup W |-> IF t \in W THEN WaivedTask(t) ELSE ts[t]]
    BY <2>1 DEF Complete, Finish
  <2>3. W \subseteq TaskId
    BY <1>2
  <2> HIDE DEF W
  <2>4. \A t \in W : WaivedTask(t) \in Task /\ WaivedTask(t).status = "skipped"
    BY <2>3, WaivedTaskType
  <2>5. Table(tasks')
    BY <2>2, <2>3, <2>4, <1>3 DEF Table
  <2>6. \A t \in DOMAIN tasks' : tasks'[t].status = "pending" =>
          t \in DOMAIN ts /\ ts[t].status = "pending"
    BY <2>2, <2>4
  <2>7. DOMAIN ts \subseteq DOMAIN tasks' /\ visited' \in SUBSET Node
    BY <2>2
  <2> QED
    BY <2>2, <2>5, <2>6, <2>7
<1>5. CASE stop # End
  <2> DEFINE W == Waived(r, S \cup {stop})
             O == OpenIds(r, stop)
  <2>1. stop \in Node /\ Arrive(ts, r, S, stop, seen)
    BY <1>1, <1>5
  <2>2. PICK draw \in Draws(stop) :
          tasks' = [t \in DOMAIN ts \cup W \cup O |->
                      IF t \in O THEN OpenTask(t, draw)
                      ELSE IF t \in W THEN WaivedTask(t) ELSE ts[t]]
    BY <2>1 DEF Arrive
  <2>3. status' = "pending" /\ current' = stop /\ visited' = seen \cup S \cup {stop}
    BY <2>1 DEF Arrive
  <2>4. W \subseteq TaskId /\ O \subseteq TaskId
    BY <1>2, <2>1, IdsType
  <2>5. OpenSlots(stop) # {}
    BY <1>1, <1>5 DEF StopsAt
  <2>6. O # {} /\ \A t \in O : t.round = r /\ t.node = stop
    BY <2>1, <2>5, IdsType
  <2> HIDE DEF W, O
  <2>7. \A t \in W : WaivedTask(t) \in Task /\ WaivedTask(t).status = "skipped"
    BY <2>4, WaivedTaskType
  <2>8. \A t \in O : OpenTask(t, draw) \in Task /\ OpenTask(t, draw).status = "pending"
    BY <2>1, <2>4, OpenTaskType
  <2>9. Table(tasks')
    BY <2>2, <2>4, <2>7, <2>8, <1>3 DEF Table
  <2>10. \A t \in O : t \in DOMAIN tasks' /\ tasks'[t].status = "pending"
    BY <2>2, <2>8
  <2>11. \A t \in DOMAIN tasks' : tasks'[t].status = "pending" =>
          t \in O \/ (t \in DOMAIN ts /\ ts[t].status = "pending")
    BY <2>2, <2>7
  <2>12. DOMAIN ts \subseteq DOMAIN tasks' /\ visited' \in SUBSET Node
    BY <2>1, <2>2, <2>3
  <2> QED
    BY <2>1, <2>3, <2>6, <2>9, <2>10, <2>11, <2>12
<1> QED
  BY <1>4, <1>5

-----------------------------------------------------------------------------
(* The inductive invariant: types, open tasks only where the request waits, *)
(* and a round to file the next tasks under                                  *)

RoundBegun == status = "pending" => round \in 1..MaxRound

RequestOK ==
  /\ status \in RequestStatus /\ round \in 0..MaxRound /\ RoundBegun
  /\ current \in Node \cup {None} /\ visited \in SUBSET Node
  /\ version \in Version \cup {None} /\ payload \in Payload
  /\ Table(tasks) /\ signed \subseteq DOMAIN tasks
  /\ PendingOnlyAtCurrentStep /\ WaitsForAnOpenTask

Inv == TypeOK /\ RequestOK

Grown == DOMAIN tasks \subseteq DOMAIN tasks'

(* Three ways to change the request's tasks: decide what is open and walk on, *)
(* leave the step partly open, or close the request                           *)
LEMMA WalksOnOK ==
  ASSUME Inv, NEW ts, Table(ts), DOMAIN tasks \subseteq DOMAIN ts,
         \A t \in DOMAIN ts : ts[t].status # "pending",
         NEW v, NEW from, NEW seen \in SUBSET Node,
         round' \in 1..MaxRound, Advance(ts, round', v, from, seen),
         version' \in Version \cup {None}, payload' \in Payload,
         signed' \subseteq DOMAIN ts
  PROVE  RequestOK' /\ Grown
<1>1. /\ Table(tasks') /\ DOMAIN ts \subseteq DOMAIN tasks'
      /\ visited' \in SUBSET Node
      /\ \/ status' = "approved" /\ current' = None
         \/ /\ status' = "pending" /\ current' \in Node
            /\ \E t \in DOMAIN tasks' : /\ t.round = round' /\ t.node = current'
                                       /\ tasks'[t].status = "pending"
      /\ \A t \in DOMAIN tasks' : tasks'[t].status = "pending" =>
              \/ t \in DOMAIN ts /\ ts[t].status = "pending"
              \/ status' = "pending" /\ t.round = round' /\ t.node = current'
  <2> DEFINE r == round'
  <2>1. r \in 1..MaxRound /\ Advance(ts, r, v, from, seen)
    OBVIOUS
  <2> HIDE DEF r
  <2>2. TypeOK
    BY DEF Inv
  <2>3. /\ Table(tasks') /\ DOMAIN ts \subseteq DOMAIN tasks'
        /\ visited' \in SUBSET Node
        /\ \/ status' = "approved" /\ current' = None
           \/ /\ status' = "pending" /\ current' \in Node
              /\ \E t \in DOMAIN tasks' : /\ t.round = r /\ t.node = current'
                                         /\ tasks'[t].status = "pending"
        /\ \A t \in DOMAIN tasks' : tasks'[t].status = "pending" =>
                \/ t \in DOMAIN ts /\ ts[t].status = "pending"
                \/ status' = "pending" /\ t.round = r /\ t.node = current'
    BY <2>1, <2>2, AdvanceFacts
  <2> QED
    BY <2>3 DEF r
<1>2. PendingOnlyAtCurrentStep'
  BY <1>1 DEF PendingOnlyAtCurrentStep
<1>3. WaitsForAnOpenTask'
  BY <1>1, ConstantsAssumption DEF WaitsForAnOpenTask, Open, RoundTasks
<1>4. Table(tasks)'
  BY <1>1 DEF Table
<1>5. round' \in 0..MaxRound /\ RoundBegun'
  BY ConstantsAssumption DEF RoundBegun
<1>6. status' \in RequestStatus
  BY <1>1 DEF RequestStatus
<1> QED
  BY <1>1, <1>2, <1>3, <1>4, <1>5, <1>6 DEF RequestOK, Grown

LEMMA StaysOpenOK ==
  ASSUME Inv, status = "pending", Table(tasks'), DOMAIN tasks' = DOMAIN tasks,
         \A t \in DOMAIN tasks : tasks'[t].status = "pending" => tasks[t].status = "pending",
         NEW o \in Open, tasks'[o].status = "pending",
         signed' \subseteq DOMAIN tasks,
         UNCHANGED <<status, round, current, visited, version, payload>>
  PROVE  RequestOK' /\ Grown
<1>1. PendingOnlyAtCurrentStep'
  BY DEF Inv, RequestOK, PendingOnlyAtCurrentStep
<1>2. WaitsForAnOpenTask'
  BY DEF Inv, RequestOK, WaitsForAnOpenTask, Open, RoundTasks
<1> QED
  BY <1>1, <1>2 DEF Inv, RequestOK, Grown, RoundBegun, Table

LEMMA StopsOK ==
  ASSUME Inv, NEW how \in RequestStatus \ {"pending"}, Finish(how),
         Table(tasks'), DOMAIN tasks' = DOMAIN tasks,
         \A t \in DOMAIN tasks : tasks'[t].status # "pending",
         UNCHANGED <<round, visited, version, payload, signed>>
  PROVE  RequestOK' /\ Grown
<1>1. PendingOnlyAtCurrentStep'
  BY DEF PendingOnlyAtCurrentStep
<1>2. WaitsForAnOpenTask'
  BY DEF WaitsForAnOpenTask, Finish
<1> QED
  BY <1>1, <1>2 DEF Inv, RequestOK, Grown, Finish, RoundBegun, Table

-----------------------------------------------------------------------------
(* The decisions                                                            *)

LEMMA ApproveStepOK ==
  ASSUME Inv, status = "pending", NEW E \in SUBSET Open, NEW pick \in E,
         NEW u \in User \cup {None}, ApproveStep(E, pick, u)
  PROVE  RequestOK' /\ Grown
<1> DEFINE mine == Mine(E, pick)
           approved == mine \cup AlongWith(E, mine, u)
           done == Close(tasks, approved, "approved", u)
           rest == Open \ approved
           coSlot == { t \in rest : \E m \in mine : m.slot # None /\ t.slot = m.slot }
<1>1. /\ signed' = IF Step[current].requireSignature /\ u # None THEN signed \cup {pick} ELSE signed
      /\ IF InAllStep /\ rest \ coSlot # {}
         THEN /\ tasks' = Skip(done, coSlot)
              /\ UNCHANGED <<status, current, visited>>
         ELSE Advance(Skip(done, rest), round, version, current, visited)
      /\ UNCHANGED <<round, version, payload>>
  BY DEF ApproveStep
<1>2. Open \subseteq DOMAIN tasks /\ pick \in DOMAIN tasks
  BY DEF Open, RoundTasks
<1>3. signed' \subseteq DOMAIN tasks
  BY <1>1, <1>2 DEF Inv, RequestOK
<1>4. Table(tasks) /\ "approved" \in TaskStatus
  BY DEF Inv, RequestOK, TaskStatus
<1>5. /\ Table(done) /\ DOMAIN done = DOMAIN tasks
      /\ \A t \in DOMAIN tasks : done[t].status = IF t \in approved THEN "approved" ELSE tasks[t].status
  BY <1>4, CloseType
<1> HIDE DEF done, approved
<1>6. CASE InAllStep /\ rest \ coSlot # {}
  <2>1. /\ tasks' = Skip(done, coSlot)
        /\ UNCHANGED <<status, round, current, visited, version, payload>>
    BY <1>1, <1>6
  <2>2. PICK o \in rest : o \notin coSlot
    BY <1>6
  <2>3. /\ Table(tasks') /\ DOMAIN tasks' = DOMAIN tasks
        /\ \A t \in DOMAIN tasks : tasks'[t].status = IF t \in coSlot THEN "skipped" ELSE done[t].status
    BY <2>1, <1>5, SkipType
  <2>4. o \in Open /\ tasks'[o].status = "pending"
    BY <2>2, <2>3, <1>2, <1>5 DEF Open
  <2>5. \A t \in DOMAIN tasks : tasks'[t].status = "pending" => tasks[t].status = "pending"
    BY <2>3, <1>5
  <2> QED
    BY <2>1, <2>3, <2>4, <2>5, <1>3, StaysOpenOK
<1>7. CASE ~(InAllStep /\ rest \ coSlot # {})
  <2> DEFINE ts == Skip(done, rest)
  <2>1. Advance(ts, round, version, current, visited) /\ UNCHANGED <<round, version, payload>>
    BY <1>1, <1>7
  <2>2. /\ Table(ts) /\ DOMAIN ts = DOMAIN tasks
        /\ \A t \in DOMAIN tasks : ts[t].status = IF t \in rest THEN "skipped" ELSE done[t].status
    BY <1>5, SkipType
  <2>3. \A t \in DOMAIN tasks : tasks[t].status = "pending" => t \in Open
    BY DEF Inv, RequestOK, PendingOnlyAtCurrentStep, Open, RoundTasks
  <2>4. \A t \in DOMAIN ts : ts[t].status # "pending"
    BY <2>2, <2>3, <1>5
  <2> HIDE DEF ts
  <2>5. Advance(ts, round', version, current, visited) /\ round' \in 1..MaxRound
    BY <2>1 DEF Inv, RequestOK, RoundBegun
  <2>6. visited \in SUBSET Node /\ version' \in Version \cup {None} /\ payload' \in Payload
    BY <2>1 DEF Inv, RequestOK
  <2> QED
    BY <2>2, <2>4, <2>5, <2>6, <1>3, WalksOnOK
<1> QED
  BY <1>6, <1>7

LEMMA StopStepOK ==
  ASSUME Inv, status = "pending", NEW E \in SUBSET Open, NEW pick \in E,
         NEW u \in User \cup {None}, NEW how \in {"rejected", "returned"},
         StopStep(E, pick, u, how)
  PROVE  RequestOK' /\ Grown
<1> DEFINE mine == Mine(E, pick)
           done == Close(tasks, mine, how, u)
<1>1. /\ tasks' = Skip(done, Open \ mine)
      /\ Finish(how) /\ UNCHANGED <<round, visited, version, payload, signed>>
  BY DEF StopStep
<1>2. Table(tasks) /\ how \in TaskStatus /\ how \in RequestStatus \ {"pending"}
  BY DEF Inv, RequestOK, TaskStatus, RequestStatus
<1>3. /\ Table(done) /\ DOMAIN done = DOMAIN tasks
      /\ \A t \in DOMAIN tasks : done[t].status = IF t \in mine THEN how ELSE tasks[t].status
  BY <1>2, CloseType
<1> HIDE DEF done, mine
<1>4. /\ Table(tasks') /\ DOMAIN tasks' = DOMAIN tasks
      /\ \A t \in DOMAIN tasks : tasks'[t].status = IF t \in Open \ mine THEN "skipped" ELSE done[t].status
  BY <1>1, <1>3, SkipType
<1>5. \A t \in DOMAIN tasks : tasks[t].status = "pending" => t \in Open
  BY DEF Inv, RequestOK, PendingOnlyAtCurrentStep, Open, RoundTasks
<1>6. \A t \in DOMAIN tasks : tasks'[t].status # "pending"
  BY <1>2, <1>3, <1>4, <1>5
<1> QED
  BY <1>1, <1>2, <1>4, <1>6, StopsOK

-----------------------------------------------------------------------------
(* Every operation keeps the request in order                               *)

LEMMA SubmitOK ==
  ASSUME Inv, Submit
  PROVE  RequestOK' /\ Grown
<1>1. \A t \in DOMAIN tasks : tasks[t].status # "pending"
  BY DEF Inv, RequestOK, PendingOnlyAtCurrentStep, Submit
<1>2. round' = round + 1 /\ round' \in 1..MaxRound
  BY ConstantsAssumption DEF Inv, RequestOK, Submit
<1>3. Advance(tasks, round', version', Start, {})
  BY <1>2 DEF Submit
<1>4. version' \in Version \cup {None}
  BY DEF Inv, TypeOK, Submit
<1>5. payload' \in Payload /\ signed' \subseteq DOMAIN tasks /\ Table(tasks)
  BY DEF Inv, RequestOK, Submit
<1> QED
  BY <1>1, <1>2, <1>3, <1>4, <1>5, WalksOnOK

LEMMA EditDraftOK ==
  ASSUME Inv, NEW p \in Payload, EditDraft(p)
  PROVE  RequestOK' /\ Grown
<1>1. /\ payload' \in Payload
      /\ UNCHANGED <<status, round, current, visited, version, tasks, signed>>
  BY DEF EditDraft, Inv, TypeOK
<1> QED
  BY <1>1 DEF Inv, RequestOK, Grown, RoundBegun, Table, PendingOnlyAtCurrentStep,
              WaitsForAnOpenTask, Open, RoundTasks

LEMMA CancelOK ==
  ASSUME Inv, Cancel
  PROVE  RequestOK' /\ Grown
<1>1. /\ tasks' = IF status = "pending"
                  THEN Skip(tasks, { t \in RoundTasks : tasks[t].status = "pending" })
                  ELSE tasks
      /\ Finish("cancelled") /\ UNCHANGED <<round, visited, version, payload, signed>>
  BY DEF Cancel
<1>2. "cancelled" \in RequestStatus \ {"pending"} /\ Table(tasks)
  BY DEF RequestStatus, Inv, RequestOK
<1>3. \A t \in DOMAIN tasks : tasks[t].status = "pending" => status = "pending" /\ t \in RoundTasks
  BY DEF Inv, RequestOK, PendingOnlyAtCurrentStep, RoundTasks
<1>4. CASE status = "pending"
  <2> DEFINE P == { t \in RoundTasks : tasks[t].status = "pending" }
  <2>1. /\ Table(tasks') /\ DOMAIN tasks' = DOMAIN tasks
        /\ \A t \in DOMAIN tasks : tasks'[t].status = IF t \in P THEN "skipped" ELSE tasks[t].status
    BY <1>1, <1>2, <1>4, SkipType
  <2>2. \A t \in DOMAIN tasks : tasks'[t].status # "pending"
    BY <2>1, <1>3
  <2> QED
    BY <1>1, <1>2, <2>1, <2>2, StopsOK
<1>5. CASE status # "pending"
  BY <1>1, <1>2, <1>3, <1>5, StopsOK
<1> QED
  BY <1>4, <1>5

LEMMA PreferredType ==
  ASSUME NEW u
  PROVE  Preferred(u) \subseteq Eligible(u) /\ Eligible(u) \subseteq Open
BY DEF Preferred, Eligible

LEMMA DecisionOK ==
  ASSUME Inv, NEW u \in User, Approve(u) \/ Reject(u) \/ Return(u)
  PROVE  RequestOK' /\ Grown
<1>1. status = "pending"
  BY DEF Approve, Reject, Return, Actor
<1>2. CASE Approve(u)
  <2>1. PICK pick \in Preferred(u) : ApproveStep(Eligible(u), pick, u)
    BY <1>2 DEF Approve
  <2>2. Eligible(u) \in SUBSET Open /\ pick \in Eligible(u)
    BY PreferredType
  <2> QED
    BY <1>1, <2>1, <2>2, ApproveStepOK
<1>3. CASE Reject(u)
  <2>1. PICK pick \in Preferred(u) : StopStep(Eligible(u), pick, u, "rejected")
    BY <1>3 DEF Reject
  <2>2. Eligible(u) \in SUBSET Open /\ pick \in Eligible(u)
    BY PreferredType
  <2> QED
    BY <1>1, <2>1, <2>2, StopStepOK
<1>4. CASE Return(u)
  <2>1. PICK pick \in Preferred(u) : StopStep(Eligible(u), pick, u, "returned")
    BY <1>4 DEF Return
  <2>2. Eligible(u) \in SUBSET Open /\ pick \in Eligible(u)
    BY PreferredType
  <2> QED
    BY <1>1, <2>1, <2>2, StopStepOK
<1> QED
  BY <1>2, <1>3, <1>4

(* Changing one row without closing or opening it *)
LEMMA RowChangeOK ==
  ASSUME Inv, NEW t \in DOMAIN tasks, NEW row \in Task, row.status = tasks[t].status,
         tasks' = [tasks EXCEPT ![t] = row],
         UNCHANGED <<status, round, current, visited, version, payload, signed>>
  PROVE  RequestOK' /\ Grown
<1>1. Table(tasks)
  BY DEF Inv, RequestOK
<1>2. DOMAIN tasks' = DOMAIN tasks /\ \A o \in DOMAIN tasks : tasks'[o] = IF o = t THEN row ELSE tasks[o]
  BY <1>1 DEF Table
<1>3. \A o \in DOMAIN tasks : tasks'[o] \in Task /\ tasks'[o].status = tasks[o].status
  BY <1>1, <1>2 DEF Table
<1>4. Table(tasks)'
  BY <1>1, <1>2, <1>3 DEF Table
<1>5. PendingOnlyAtCurrentStep'
  BY <1>2, <1>3 DEF PendingOnlyAtCurrentStep, Inv, RequestOK
<1>6. Open' = Open
  BY <1>2, <1>3 DEF Open, RoundTasks
<1>7. WaitsForAnOpenTask'
  BY <1>6 DEF WaitsForAnOpenTask, Inv, RequestOK
<1> QED
  BY <1>2, <1>4, <1>5, <1>7 DEF Inv, RequestOK, RoundBegun, Grown

LEMMA ReassignWriteOK ==
  ASSUME Inv, NEW u \in User, ReassignWrite(u)
  PROVE  RequestOK' /\ Grown
<1> DEFINE t == admin.task
           moved == HandOver(t, u, FALSE)
           row == IF u = admin.holder THEN [moved EXCEPT !.approver = tasks[t].approver] ELSE moved
<1>1. tasks' = [tasks EXCEPT ![t] = row]
  BY DEF ReassignWrite
<1>2. t \in DOMAIN tasks
  BY DEF Inv, TypeOK, ReassignWrite
<1>3. moved \in Task /\ moved.status = tasks[t].status
  BY <1>2, HandOverType DEF Inv
<1>4. tasks[t].approver \in Principal
  BY <1>2 DEF Inv, TypeOK, Task
<1>5. \A x \in Task, p \in Principal :
        [x EXCEPT !.approver = p] \in Task /\ [x EXCEPT !.approver = p].status = x.status
  BY DEF Task
<1>6. row \in Task /\ row.status = tasks[t].status
  BY <1>3, <1>4, <1>5
<1>7. UNCHANGED <<status, round, current, visited, version, payload, signed>>
  BY DEF ReassignWrite
<1> HIDE DEF row, t
<1> QED
  BY <1>1, <1>2, <1>6, <1>7, RowChangeOK

LEMMA RepairOK ==
  ASSUME Inv, NEW t \in DOMAIN tasks, RepairGroupTask(t)
  PROVE  RequestOK' /\ Grown
<1> DEFINE g == IF tasks[t].assigned THEN t.origin ELSE tasks[t].approver
           ts == Skip(tasks, {t})
<1>1. /\ status = "pending" /\ t \in Open
      /\ tasks[t].assigned \/ IsGroupTask(t)
      /\ IF GroupMembers(g) # {}
         THEN /\ \E u \in GroupMembers(g) : tasks' = [tasks EXCEPT ![t] = HandOver(t, u, TRUE)]
              /\ UNCHANGED <<status, current, visited>>
         ELSE IF Open # {t}
         THEN tasks' = ts /\ UNCHANGED <<status, current, visited>>
         ELSE Advance(ts, round, version, current, visited)
      /\ UNCHANGED <<round, version, payload, signed>>
  BY DEF RepairGroupTask
<1>2. /\ Table(tasks) /\ Table(ts) /\ DOMAIN ts = DOMAIN tasks
      /\ \A o \in DOMAIN tasks : ts[o].status = IF o = t THEN "skipped" ELSE tasks[o].status
  BY SkipType DEF Inv, RequestOK
<1>3. \A o \in DOMAIN tasks : tasks[o].status = "pending" => o \in Open
  BY DEF Inv, RequestOK, PendingOnlyAtCurrentStep, Open, RoundTasks
<1>4. signed' \subseteq DOMAIN tasks
  BY <1>1 DEF Inv, RequestOK
<1> HIDE DEF g, ts
<1>5. CASE GroupMembers(g) # {}
  <2>1. PICK u \in GroupMembers(g) : tasks' = [tasks EXCEPT ![t] = HandOver(t, u, TRUE)]
    BY <1>1, <1>5
  <2>2. u \in User
    BY DEF GroupMembers, Inv, TypeOK
  <2>3. HandOver(t, u, TRUE) \in Task /\ HandOver(t, u, TRUE).status = tasks[t].status
    BY <2>2, HandOverType DEF Inv
  <2> QED
    BY <1>1, <1>5, <2>1, <2>3, RowChangeOK
<1>6. CASE GroupMembers(g) = {} /\ Open # {t}
  <2>1. tasks' = ts /\ UNCHANGED <<status, round, current, visited, version, payload>>
    BY <1>1, <1>6
  <2>2. PICK o \in Open : o # t
    BY <1>1, <1>6
  <2>3. o \in DOMAIN tasks /\ tasks'[o].status = "pending"
    BY <2>1, <2>2, <1>2 DEF Open, RoundTasks
  <2>4. \A x \in DOMAIN tasks : tasks'[x].status = "pending" => tasks[x].status = "pending"
    BY <2>1, <1>2
  <2> QED
    BY <1>1, <1>2, <1>4, <2>1, <2>3, <2>4, StaysOpenOK
<1>7. CASE GroupMembers(g) = {} /\ Open = {t}
  <2>1. Advance(ts, round, version, current, visited) /\ UNCHANGED <<round, version, payload>>
    BY <1>1, <1>7
  <2>2. \A o \in DOMAIN ts : ts[o].status # "pending"
    BY <1>2, <1>3, <1>7
  <2>3. Advance(ts, round', version, current, visited) /\ round' \in 1..MaxRound
    BY <2>1, <1>1 DEF Inv, RequestOK, RoundBegun
  <2>4. visited \in SUBSET Node /\ version' \in Version \cup {None} /\ payload' \in Payload
    BY <2>1 DEF Inv, RequestOK
  <2> QED
    BY <1>2, <1>4, <2>2, <2>3, <2>4, WalksOnOK
<1> QED
  BY <1>5, <1>6, <1>7

LEMMA TickOK ==
  ASSUME Inv, Tick
  PROVE  RequestOK' /\ Grown
<1> DEFINE ages(t) == tasks[t].status = "pending" /\ Step[t.node].timed /\ tasks[t].late < 2
<1>1. /\ tasks' = [t \in DOMAIN tasks |->
                     IF ages(t) THEN [tasks[t] EXCEPT !.late = @ + 1] ELSE tasks[t]]
      /\ UNCHANGED <<status, round, current, visited, version, payload, signed>>
  BY DEF Tick
<1>2. \A t \in DOMAIN tasks : ages(t) => tasks[t].late < 2
  OBVIOUS
<1> HIDE DEF ages
<1>3. Table(tasks)
  BY DEF Inv, RequestOK
<1>4. \A x \in Task : x.late < 2 =>
        [x EXCEPT !.late = @ + 1] \in Task /\ [x EXCEPT !.late = @ + 1].status = x.status
  BY DEF Task
<1>5. \A t \in DOMAIN tasks : tasks'[t] \in Task /\ tasks'[t].status = tasks[t].status
  BY <1>1, <1>2, <1>3, <1>4 DEF Table
<1>6. Table(tasks)' /\ DOMAIN tasks' = DOMAIN tasks
  BY <1>1, <1>3, <1>5 DEF Table
<1>7. Open' = Open
  BY <1>1, <1>5, <1>6 DEF Open, RoundTasks
<1>8. PendingOnlyAtCurrentStep' /\ WaitsForAnOpenTask'
  BY <1>1, <1>5, <1>6, <1>7 DEF PendingOnlyAtCurrentStep, WaitsForAnOpenTask, Inv, RequestOK
<1> QED
  BY <1>1, <1>6, <1>8 DEF Inv, RequestOK, RoundBegun, Grown

LEMMA OverdueEscalateOK ==
  ASSUME Inv, OverdueEscalate
  PROVE  RequestOK' /\ Grown
<1> DEFINE t == cron.task
           row(u) == [HandOver(t, u, FALSE) EXCEPT !.late = 0, !.reminded = FALSE, !.escalations = @ + 1]
<1>1. PICK u \in EscalationTargets(t, cron.holder) : tasks' = [tasks EXCEPT ![t] = row(u)]
  BY DEF OverdueEscalate
<1>2. t \in DOMAIN tasks /\ cron.holder \in Principal
  BY DEF Inv, TypeOK, Idle, OverdueEscalate, OverdueUnderLock
<1>3. u \in active /\ tasks[t].escalations < MaxEscalations
  BY <1>1 DEF EscalationTargets
<1>4. u \in User
  BY <1>3 DEF Inv, TypeOK
<1>5. HandOver(t, u, FALSE) \in Task /\ HandOver(t, u, FALSE).status = tasks[t].status
  BY <1>2, <1>4, HandOverType DEF Inv
<1>6. HandOver(t, u, FALSE).escalations = tasks[t].escalations
  <2>1. tasks[t] \in Task
    BY <1>2 DEF Inv, TypeOK
  <2>2. \A x \in Task : \A h :
          [x EXCEPT !.approver = u, !.assigned = FALSE, !.handovers = h].escalations = x.escalations
    BY DEF Task
  <2> QED
    BY <2>1, <2>2 DEF HandOver
<1>7. ASSUME NEW x \in Task, x.escalations < MaxEscalations
      PROVE  LET y == [x EXCEPT !.late = 0, !.reminded = FALSE, !.escalations = @ + 1]
             IN y \in Task /\ y.status = x.status
  <2>1. x.escalations \in 0..MaxEscalations
    BY DEF Task
  <2>2. x.escalations + 1 \in 0..MaxEscalations /\ 0 \in 0..2
    BY <1>7, <2>1, ConstantsAssumption
  <2>3. \A e \in 0..MaxEscalations :
          /\ [x EXCEPT !.late = 0, !.reminded = FALSE, !.escalations = e] \in Task
          /\ [x EXCEPT !.late = 0, !.reminded = FALSE, !.escalations = e].status = x.status
    BY <2>2 DEF Task
  <2> QED
    BY <2>2, <2>3
<1>8. row(u) \in Task /\ row(u).status = tasks[t].status
  BY <1>3, <1>5, <1>6, <1>7
<1>9. UNCHANGED <<status, round, current, visited, version, payload, signed>>
  BY DEF OverdueEscalate, OverdueUnderLock
<1> HIDE DEF row, t
<1> QED
  BY <1>1, <1>2, <1>8, <1>9, RowChangeOK

LEMMA OverdueRemindOK ==
  ASSUME Inv, OverdueRemind
  PROVE  RequestOK' /\ Grown
<1> DEFINE t == cron.task
           row == [tasks[t] EXCEPT !.reminded = TRUE]
<1>1. t \in DOMAIN tasks
  BY DEF Inv, TypeOK, Idle, OverdueRemind, OverdueUnderLock
<1>2. tasks' = [tasks EXCEPT ![t] = row]
  BY DEF OverdueRemind
<1>3. tasks[t] \in Task
  BY <1>1 DEF Inv, TypeOK
<1>4. \A x \in Task : [x EXCEPT !.reminded = TRUE] \in Task /\ [x EXCEPT !.reminded = TRUE].status = x.status
  BY DEF Task
<1>5. row \in Task /\ row.status = tasks[t].status
  BY <1>3, <1>4
<1>6. UNCHANGED <<status, round, current, visited, version, payload, signed>>
  BY DEF OverdueRemind, OverdueUnderLock
<1> HIDE DEF row, t
<1> QED
  BY <1>1, <1>2, <1>5, <1>6, RowChangeOK

LEMMA OverdueActOK ==
  ASSUME Inv, OverdueAct
  PROVE  RequestOK' /\ Grown
<1>1. status = "pending" /\ {cron.task} \in SUBSET Open /\ cron.task \in {cron.task}
  BY DEF OverdueAct
<1>2. CASE ApproveStep({cron.task}, cron.task, None)
  BY <1>1, <1>2, ApproveStepOK
<1>3. CASE StopStep({cron.task}, cron.task, None, "rejected")
  BY <1>1, <1>3, StopStepOK
<1> QED
  BY <1>2, <1>3 DEF OverdueAct

(* Steps that leave the request's own row and its tasks alone *)
LEMMA RequestUnchangedOK ==
  ASSUME Inv, UNCHANGED requestVars
  PROVE  RequestOK' /\ Grown
BY DEF Inv, RequestOK, Grown, requestVars, RoundBegun, Table, PendingOnlyAtCurrentStep,
       WaitsForAnOpenTask, Open, RoundTasks

LEMMA RequestStep ==
  ASSUME Inv, [Next]_vars
  PROVE  RequestOK' /\ Grown
<1>1. CASE RequesterNext
  BY <1>1, SubmitOK, CancelOK, EditDraftOK DEF RequesterNext
<1>2. CASE ApproverNext
  BY <1>2, DecisionOK DEF ApproverNext
<1>3. CASE ReassignNext
  <2>1. CASE \E t \in DOMAIN tasks : ReassignRead(t)
    BY <2>1, RequestUnchangedOK DEF ReassignRead
  <2> QED
    BY <1>3, <2>1, ReassignWriteOK DEF ReassignNext
<1>4. CASE RepairNext
  BY <1>4, RepairOK DEF RepairNext
<1>5. CASE Tick
  BY <1>5, TickOK
<1>6. CASE ScanNext
  <2>1. CASE ScanStart \/ OverdueRead \/ OverdueMissed \/ OverdueActFails
    BY <2>1, RequestUnchangedOK DEF ScanStart, OverdueRead, OverdueMissed, OverdueActFails
  <2>2. CASE OverdueDecide
    BY <2>2, RequestUnchangedOK DEF OverdueDecide, OverdueUnderLock, requestVars
  <2> QED
    BY <1>6, <2>1, <2>2, OverdueEscalateOK, OverdueRemindOK, OverdueActOK DEF ScanNext
<1>7. CASE DirectoryNext
  BY <1>7, RequestUnchangedOK DEF DirectoryNext, Publish, LockUser, ChangeGroup, Delegate
<1>8. CASE UNCHANGED vars
  BY <1>8, RequestUnchangedOK DEF vars
<1> QED
  BY <1>1, <1>2, <1>3, <1>4, <1>5, <1>6, <1>7, <1>8 DEF Next

-----------------------------------------------------------------------------
(* The directory, and what reassign and the scan remember                   *)

DirectoryOK ==
  /\ published \in Version /\ active \subseteq User
  /\ members \in [Group -> SUBSET User]
  /\ delegation \in [Delegation -> {"none", "active", "expired", "deleted"}]

AdminOK == admin \in [task : DOMAIN tasks, holder : Principal] \cup {None}

CronOK ==
  \/ cron = Idle
  \/ /\ cron \in [pc : {"scan"}, batch : SUBSET DOMAIN tasks, task : {None}, holder : {None}]
     /\ cron.batch # {}
  \/ cron \in [pc : {"read", "approve", "reject"}, batch : SUBSET DOMAIN tasks,
               task : DOMAIN tasks, holder : Principal]

LEMMA TypeParts ==
  /\ Inv => DirectoryOK /\ AdminOK /\ CronOK
  /\ RequestOK /\ DirectoryOK /\ AdminOK /\ CronOK => Inv
BY DEF Inv, TypeOK, RequestOK, DirectoryOK, AdminOK, CronOK, Table

LEMMA DirectoryStep ==
  ASSUME Inv, [Next]_vars
  PROVE  DirectoryOK'
<1>1. DirectoryOK
  BY TypeParts
<1>2. CASE UNCHANGED contextVars
  BY <1>1, <1>2 DEF contextVars, DirectoryOK
<1>3. CASE DirectoryNext
  <2>1. ASSUME NEW v \in Version, Publish(v) PROVE DirectoryOK'
    BY <1>1, <2>1 DEF Publish, DirectoryOK
  <2>2. ASSUME NEW u \in User, LockUser(u) PROVE DirectoryOK'
    BY <1>1, <2>2 DEF LockUser, DirectoryOK
  <2>3. ASSUME NEW u \in User, NEW g \in Group, ChangeGroup(u, g) PROVE DirectoryOK'
    BY <1>1, <2>3 DEF ChangeGroup, DirectoryOK
  <2>4. ASSUME NEW d \in Delegation, Delegate(d) PROVE DirectoryOK'
    BY <1>1, <2>4 DEF Delegate, DirectoryOK
  <2> QED
    BY <1>3, <2>1, <2>2, <2>3, <2>4 DEF DirectoryNext
<1>4. CASE RequesterNext
  BY <1>4, <1>2 DEF RequesterNext, Submit, Cancel, EditDraft
<1>5. CASE ApproverNext
  BY <1>5, <1>2 DEF ApproverNext, Approve, Reject, Return
<1>6. CASE ReassignNext
  BY <1>6, <1>2 DEF ReassignNext, ReassignRead, ReassignWrite
<1>7. CASE RepairNext
  BY <1>7, <1>2 DEF RepairNext, RepairGroupTask
<1>8. CASE Tick \/ ScanNext
  BY <1>8, <1>2 DEF Tick, ScanNext, ScanStart, OverdueRead, OverdueDecide, OverdueEscalate, OverdueRemind,
     OverdueMissed, OverdueAct, OverdueActFails, OverdueUnderLock
<1> QED
  BY <1>2, <1>3, <1>4, <1>5, <1>6, <1>7, <1>8 DEF Next, vars

LEMMA AdminStep ==
  ASSUME Inv, [Next]_vars, Grown
  PROVE  AdminOK'
<1>1. AdminOK
  BY TypeParts
<1>2. CASE UNCHANGED admin
  BY <1>1, <1>2 DEF AdminOK, Grown
<1>3. CASE \E t \in DOMAIN tasks : ReassignRead(t)
  <2>1. PICK t \in DOMAIN tasks : ReassignRead(t)
    BY <1>3
  <2>2. tasks[t].approver \in Principal
    BY DEF Inv, TypeOK, Task
  <2>3. admin' = [task |-> t, holder |-> tasks[t].approver]
    BY <2>1 DEF ReassignRead
  <2> QED
    BY <2>2, <2>3 DEF AdminOK, Grown
<1>4. CASE \E u \in User : ReassignWrite(u)
  BY <1>4 DEF ReassignWrite, AdminOK
<1>5. CASE RequesterNext
  BY <1>5, <1>2 DEF RequesterNext, Submit, Cancel, EditDraft
<1>6. CASE ApproverNext
  BY <1>6, <1>2 DEF ApproverNext, Approve, Reject, Return
<1>7. CASE RepairNext \/ Tick
  BY <1>7, <1>2 DEF RepairNext, RepairGroupTask, Tick
<1>8. CASE ScanNext
  BY <1>8, <1>2 DEF ScanNext, ScanStart, OverdueRead, OverdueDecide, OverdueEscalate, OverdueRemind,
     OverdueMissed, OverdueAct, OverdueActFails, OverdueUnderLock
<1>9. CASE DirectoryNext
  BY <1>9, <1>2 DEF DirectoryNext, Publish, LockUser, ChangeGroup, Delegate
<1> QED
  BY <1>2, <1>3, <1>4, <1>5, <1>6, <1>7, <1>8, <1>9 DEF Next, ReassignNext, vars

LEMMA ScanGoesOnOK ==
  ASSUME NEW batch \in SUBSET DOMAIN tasks, Grown, ScanGoesOn(batch)
  PROVE  CronOK'
BY DEF ScanGoesOn, Idle, CronOK, Grown

LEMMA CronStep ==
  ASSUME Inv, [Next]_vars, Grown
  PROVE  CronOK'
<1>1. CronOK
  BY TypeParts
<1>2. CASE UNCHANGED cron
  BY <1>1, <1>2 DEF CronOK, Grown, Idle
<1>3. CASE ScanNext
  <2>1. CASE ScanStart
    BY <2>1 DEF ScanStart, Overdue, Idle, CronOK, Grown
  <2>2. cron.pc # "idle" => cron.batch \in SUBSET DOMAIN tasks
    BY <1>1 DEF CronOK, Idle
  <2>3. CASE OverdueRead
    <3>1. PICK t \in cron.batch :
            IF tasks[t].status = "pending"
            THEN cron' = [pc |-> "read", batch |-> cron.batch \ {t},
                          task |-> t, holder |-> tasks[t].approver]
            ELSE ScanGoesOn(cron.batch \ {t})
      BY <2>3 DEF OverdueRead
    <3>2. t \in DOMAIN tasks /\ cron.batch \ {t} \in SUBSET DOMAIN tasks
      BY <2>2, <2>3 DEF OverdueRead
    <3>3. tasks[t].approver \in Principal
      BY <3>2 DEF Inv, TypeOK, Task
    <3>4. CASE tasks[t].status = "pending"
      BY <3>1, <3>2, <3>3, <3>4 DEF CronOK, Grown
    <3> QED
      BY <3>1, <3>2, <3>4, ScanGoesOnOK
  <2>4. CASE OverdueDecide
    <3>1. cron \in [pc : {"read"}, batch : SUBSET DOMAIN tasks, task : DOMAIN tasks, holder : Principal]
      BY <1>1, <2>4 DEF CronOK, Idle, OverdueDecide, OverdueUnderLock
    <3>2. cron' = [cron EXCEPT !.pc = "approve"] \/ cron' = [cron EXCEPT !.pc = "reject"]
      BY <2>4 DEF OverdueDecide
    <3>3. cron' \in [pc : {"approve", "reject"}, batch : SUBSET DOMAIN tasks,
                     task : DOMAIN tasks, holder : Principal]
      BY <3>1, <3>2
    <3> QED
      BY <3>3 DEF CronOK, Grown
  <2>5. CASE OverdueEscalate \/ OverdueRemind \/ OverdueMissed \/ OverdueAct \/ OverdueActFails
    <3>1. cron.pc # "idle" /\ ScanGoesOn(cron.batch)
      BY <2>5 DEF OverdueEscalate, OverdueRemind, OverdueMissed, OverdueAct, OverdueActFails,
                  OverdueUnderLock
    <3> QED
      BY <2>2, <3>1, ScanGoesOnOK
  <2> QED
    BY <1>3, <2>1, <2>3, <2>4, <2>5 DEF ScanNext
<1>4. CASE RequesterNext
  BY <1>4, <1>2 DEF RequesterNext, Submit, Cancel, EditDraft
<1>5. CASE ApproverNext
  BY <1>5, <1>2 DEF ApproverNext, Approve, Reject, Return
<1>6. CASE ReassignNext \/ RepairNext \/ Tick
  BY <1>6, <1>2 DEF ReassignNext, ReassignRead, ReassignWrite, RepairNext, RepairGroupTask, Tick
<1>7. CASE DirectoryNext
  BY <1>7, <1>2 DEF DirectoryNext, Publish, LockUser, ChangeGroup, Delegate
<1> QED
  BY <1>2, <1>3, <1>4, <1>5, <1>6, <1>7 DEF Next, vars

-----------------------------------------------------------------------------
(* The theorems                                                             *)

LEMMA InvInit == Init => Inv
<1> SUFFICES ASSUME Init PROVE Inv
  OBVIOUS
<1>1. DOMAIN tasks = {} /\ signed = {}
  BY DEF Init
<1>2. RequestOK
  BY <1>1, ConstantsAssumption
     DEF Init, RequestOK, RequestStatus, RoundBegun, Table, PendingOnlyAtCurrentStep, WaitsForAnOpenTask
<1>3. DirectoryOK /\ AdminOK /\ CronOK
  BY ConstantsAssumption DEF Init, DirectoryOK, AdminOK, CronOK
<1> QED
  BY <1>2, <1>3, TypeParts

LEMMA InvStep == Inv /\ [Next]_vars => Inv'
<1> SUFFICES ASSUME Inv, [Next]_vars PROVE Inv'
  OBVIOUS
<1>1. RequestOK' /\ Grown
  BY RequestStep
<1>2. DirectoryOK' /\ AdminOK' /\ CronOK'
  BY <1>1, DirectoryStep, AdminStep, CronStep
<1>3. (RequestOK /\ DirectoryOK /\ AdminOK /\ CronOK => Inv)'
  BY TypeParts, PTL
<1> QED
  BY <1>1, <1>2, <1>3

LEMMA InvHolds == Spec => []Inv
BY InvInit, InvStep, PTL DEF Spec

(* Types, in every reachable state: in particular no task is ever lost and a *)
(* task is escalated at most MaxEscalations times.                           *)
THEOREM TypeCorrect == Spec => []TypeOK
<1>1. Inv => TypeOK
  BY DEF Inv
<1> QED
  BY <1>1, InvHolds, PTL

(* An open task belongs to the step and the round the pending request is at, *)
(* whatever approvals, returns, cancellations, repairs and scans raced.      *)
THEOREM OpenTasksAreCurrent == Spec => []PendingOnlyAtCurrentStep
<1>1. Inv => PendingOnlyAtCurrentStep
  BY DEF Inv, RequestOK
<1> QED
  BY <1>1, InvHolds, PTL

(* A pending request always waits for an open task: no interleaving leaves it *)
(* hanging at a step without tasks.                                           *)
THEOREM NeverStranded == Spec => []WaitsForAnOpenTask
<1>1. Inv => WaitsForAnOpenTask
  BY DEF Inv, RequestOK
<1> QED
  BY <1>1, InvHolds, PTL

-----------------------------------------------------------------------------
(* A walk goes down the workflow                                            *)

(* A set of naturals has a least element, and a greatest if it is bounded *)
LEMMA LeastElement ==
  ASSUME NEW T \in SUBSET Nat, T # {}
  PROVE  \E x \in T : \A y \in T : x <= y
<1> DEFINE R == OpToRel(<, Nat)
<1>1. IsWellFoundedOn(R, Nat)
  BY NatLessThanWellFounded
<1>2. \A a, b \in Nat : a < b => <<a, b>> \in R
  BY DEF OpToRel
<1> HIDE DEF R
<1>3. PICK x \in T : \A y \in T : ~(<<y, x>> \in R)
  BY <1>1, WFMin
<1>4. ASSUME NEW y \in T PROVE x <= y
  <2>1. ~(y < x)
    BY <1>2, <1>3
  <2>2. x \in Nat /\ y \in Nat
    OBVIOUS
  <2> QED
    BY <2>1, <2>2
<1> QED
  BY <1>4

LEMMA GreatestElement ==
  ASSUME NEW N \in Nat, NEW T \in SUBSET (0..N), T # {}
  PROVE  \E x \in T : \A y \in T : y <= x
<1> DEFINE M == { N - y : y \in T }
<1>1. M \in SUBSET Nat /\ M # {}
  <2>1. \A y \in T : N - y \in Nat
    OBVIOUS
  <2> QED
    BY <2>1
<1>2. PICK m \in M : \A y \in M : m <= y
  BY <1>1, LeastElement
<1>3. PICK x \in T : m = N - x
  OBVIOUS
<1>4. ASSUME NEW y \in T PROVE y <= x
  <2>1. N - x <= N - y
    BY <1>2, <1>3
  <2> QED
    BY <2>1
<1> QED
  BY <1>4

LEMMA DepthsType ==
  ASSUME NEW v \in Version
  PROVE  /\ Cardinality(Place) \in Nat
         /\ \A depth \in Depths(v) : /\ depth \in [Place -> 0..Cardinality(Place)]
                                     /\ \A p \in Payload, x \in Place \ {End} : depth[x] < depth[Walk[v][p][x]]
         /\ Depths(v) # {}
<1>1. IsFiniteSet({Start, End})
  <2>1. IsFiniteSet({Start}) /\ IsFiniteSet({End})
    BY FS_Singleton
  <2>2. {Start, End} = {Start} \cup {End}
    OBVIOUS
  <2> QED
    BY <2>1, <2>2, FS_Union
<1>2. IsFiniteSet(Place)
  BY <1>1, ConstantsAssumption, FS_Union DEF Place
<1>3. Cardinality(Place) \in Nat
  BY <1>2, FS_CardinalityType
<1>4. Depths(v) # {}
  BY AcyclicAssumption
<1> QED
  BY <1>3, <1>4 DEF Depths

(* Every step a walk skips lies below the place it came from, and the place *)
(* where it stops below them all                                            *)
LEMMA WalksDown ==
  ASSUME TypeOK, NEW v \in Version, NEW from \in Place \ {End}, NEW S \in SUBSET Node,
         NEW stop \in Node \cup {End}, StopsAt(v, from, S, stop), NEW depth \in Depths(v)
  PROVE  /\ \A n \in S : depth[from] < depth[n]
         /\ \A x \in S \cup {from} : depth[x] < depth[stop]
<1> DEFINE next(x) == Walk[v][payload][x]
           N == Cardinality(Place)
<1>1. /\ stop \notin S
      /\ \A x \in S \cup {from} : next(x) \in S \cup {stop}
      /\ \A n \in S : \E x \in S \cup {from} : next(x) = n
  BY DEF StopsAt
<1>2. S \cup {from} \subseteq Place \ {End} /\ stop \in Place
  BY ConstantsAssumption DEF Place
<1>3. N \in Nat /\ depth \in [Place -> 0..N]
  BY DepthsType
<1>4. \A x \in S \cup {from} : depth[x] < depth[next(x)]
  BY <1>2, DepthsType DEF TypeOK
<1>5. \A x \in Place : depth[x] \in 0..N /\ depth[x] \in Nat
  BY <1>3
<1> HIDE DEF next, N
<1>6. \A n \in S : depth[from] < depth[n]
  <2> DEFINE C == { n \in S : depth[n] <= depth[from] }
             T == { depth[n] : n \in C }
  <2>1. SUFFICES ASSUME C # {} PROVE FALSE
    BY <1>2, <1>5
  <2>2. T \in SUBSET Nat /\ T # {}
    BY <2>1, <1>2, <1>5
  <2>3. PICK m \in T : \A y \in T : m <= y
    BY <2>2, LeastElement
  <2>4. PICK n \in C : m = depth[n]
    OBVIOUS
  <2>5. PICK x \in S \cup {from} : next(x) = n
    BY <1>1
  <2>6. depth[x] < depth[n] /\ depth[n] <= depth[from]
    BY <2>5, <1>4
  <2>7. x \in S /\ depth[x] <= depth[from]
    BY <2>6, <1>2, <1>5
  <2>8. depth[n] <= depth[x]
    BY <2>3, <2>4, <2>7
  <2> QED
    BY <2>6, <2>8, <2>7, <1>2, <1>5
<1>7. \A x \in S \cup {from} : depth[x] < depth[stop]
  <2> DEFINE C == { x \in S \cup {from} : depth[stop] <= depth[x] }
             T == { depth[x] : x \in C }
  <2>1. SUFFICES ASSUME C # {} PROVE FALSE
    BY <1>2, <1>5
  <2>2. T \in SUBSET (0..N) /\ T # {}
    BY <2>1, <1>2, <1>5
  <2>3. PICK m \in T : \A y \in T : y <= m
    BY <1>3, <2>2, GreatestElement
  <2>4. PICK x \in C : m = depth[x]
    OBVIOUS
  <2>5. depth[x] < depth[next(x)] /\ next(x) \in S \cup {stop} /\ depth[stop] <= depth[x]
    BY <1>1, <1>4
  <2>6. next(x) \in S /\ depth[stop] <= depth[next(x)]
    BY <2>5, <1>2, <1>5
  <2>7. depth[next(x)] <= depth[x]
    BY <2>3, <2>4, <2>6
  <2> QED
    BY <2>5, <2>6, <2>7, <1>2, <1>5
<1> QED
  BY <1>6, <1>7

-----------------------------------------------------------------------------
(* What a walk writes                                                       *)

(* Rows of rounds before r, and in r of the steps met so far *)
Filed(ts, r, seen) == \A t \in DOMAIN ts : t.round < r \/ (t.round = r /\ t.node \in seen)

(* Only the slot of a group is ever in a group's hands, or drawn from it *)
OfItsGroup(t, row) == row.assigned = TRUE \/ row.approver \in Group => t.origin \in Group

(* A task comes into nobody's hands but a person's; a reassignment may find it *)
(* in other hands than it read                                                *)
Handed(t, row) ==
  \/ row.approver = tasks[t].approver /\ row.handovers = tasks[t].handovers
  \/ row.approver \in User
  \/ admin # None /\ admin.task = t /\ admin.holder \in User /\ row.approver = tasks[t].approver

(* A row the walk created: it asks somebody at the step where the request   *)
(* now waits, or records that the requester's own slot was passed over      *)
NewRow(t, r, new) ==
  /\ t.round = r /\ t.node \in new
  /\ \/ t.slot = None /\ tasks'[t].status = "skipped"
     \/ /\ t.slot # None /\ tasks'[t].status = "pending"
        /\ status' = "pending" /\ t.node = current'
  /\ OfItsGroup(t, tasks'[t])

Below(v, n, m) == \A depth \in Depths(v) : depth[n] < depth[m]
BelowAll(v, seen, m) == \A n \in seen \ {m} : Below(v, n, m)

Walked(ts, r, v, seen, new) ==
  /\ visited' = seen \cup new /\ new \cap seen = {}
  /\ DOMAIN ts \subseteq DOMAIN tasks' /\ \A t \in DOMAIN ts : tasks'[t] = ts[t]
  /\ \A t \in DOMAIN tasks' \ DOMAIN ts : NewRow(t, r, new)
  /\ \/ status' = "approved" /\ current' = None
     \/ status' = "pending" /\ current' \in new /\ BelowAll(v, visited', current')

LEMMA NewRows ==
  ASSUME TypeOK, NEW n \in Node, NEW r \in 1..MaxRound
  PROVE  /\ \A t \in WaivedIds(r, n) :
              WaivedTask(t).status = "skipped" /\ OfItsGroup(t, WaivedTask(t))
         /\ \A draw \in Draws(n), t \in OpenIds(r, n) :
              OpenTask(t, draw).status = "pending" /\ OfItsGroup(t, OpenTask(t, draw))
<1>1. \A t \in WaivedIds(r, n) :
        WaivedTask(t).status = "skipped" /\ OfItsGroup(t, WaivedTask(t))
  BY DEF WaivedTask, OfItsGroup
<1>2. ASSUME NEW draw \in Draws(n), NEW t \in OpenIds(r, n)
      PROVE  OpenTask(t, draw).status = "pending" /\ OfItsGroup(t, OpenTask(t, draw))
  <2> DEFINE drawn == t.slot \in DOMAIN draw
             holder == IF drawn THEN draw[t.slot] ELSE t.origin
  <2>1. /\ OpenTask(t, draw).status = "pending"
        /\ OpenTask(t, draw).approver = holder /\ OpenTask(t, draw).assigned = drawn
    BY DEF OpenTask
  <2>2. PICK s \in OpenSlots(n) : t.slot = s /\ t.origin \in Origins(n, s)
    BY DEF OpenIds
  <2>3. s \in Slots(n)
    BY DEF OpenSlots, FilledSlots
  <2>4. drawn => IsGroupSlot(n, s)
    BY <2>2 DEF Draws, DrawnSlots
  <2>5. IsGroupSlot(n, s) => t.origin \in Group
    BY <2>2, <2>3, ApproversType DEF Origins, IsGroupSlot, GroupOf
  <2>6. ~drawn => holder = t.origin
    OBVIOUS
  <2> HIDE DEF drawn, holder
  <2> QED
    BY <2>1, <2>4, <2>5, <2>6 DEF OfItsGroup
<1> QED
  BY <1>1, <1>2

LEMMA WalkFacts ==
  ASSUME TypeOK, NEW ts, Table(ts), NEW r \in 1..MaxRound, NEW v \in Version,
         NEW from \in Place \ {End}, NEW seen \in SUBSET Node, Filed(ts, r, seen),
         \A depth \in Depths(v), n \in seen : depth[n] <= depth[from],
         Advance(ts, r, v, from, seen)
  PROVE  \E new \in SUBSET Node : Walked(ts, r, v, seen, new)
<1>1. PICK S \in SUBSET Node, stop \in Node \cup {End} :
         /\ StopsAt(v, from, S, stop)
         /\ IF stop = End THEN Complete(ts, r, S, seen) ELSE Arrive(ts, r, S, stop, seen)
  BY DEF Advance
<1>2. \A depth \in Depths(v) :
        /\ \A n \in S : depth[from] < depth[n]
        /\ \A x \in S \cup {from} : depth[x] < depth[stop]
  BY <1>1, WalksDown
<1>3. \A depth \in Depths(v), x \in Place : depth[x] \in Nat
  BY DepthsType
<1>4. seen \subseteq Place /\ S \subseteq Place /\ stop \in Place /\ from \in Place
  BY DEF Place
<1>5. (S \cup {stop}) \cap seen = {}
  <2>1. PICK depth : depth \in Depths(v)
    BY DepthsType
  <2>2. ASSUME NEW n \in S \cup {stop}, n \in seen PROVE FALSE
    <3>1. depth[from] < depth[n] /\ depth[n] <= depth[from]
      BY <1>2, <2>1, <2>2
    <3> QED
      BY <3>1, <2>1, <1>3, <1>4
  <2> QED
    BY <2>2
<1>6. \A T \in SUBSET (S \cup {stop}) : \A t \in Waived(r, T) :
        T \subseteq Node => /\ t.round = r /\ t.node \in T /\ t.slot = None
                            /\ t \notin DOMAIN ts
                            /\ WaivedTask(t).status = "skipped" /\ OfItsGroup(t, WaivedTask(t))
  <2>1. ASSUME NEW T \in SUBSET (S \cup {stop}), NEW t \in Waived(r, T), T \subseteq Node
        PROVE  /\ t.round = r /\ t.node \in T /\ t.slot = None
               /\ t \notin DOMAIN ts
               /\ WaivedTask(t).status = "skipped" /\ OfItsGroup(t, WaivedTask(t))
    <3>1. PICK n \in T : t \in WaivedIds(r, n)
      BY <2>1 DEF Waived
    <3>2. n \in Node /\ t.round = r /\ t.node = n /\ t.slot = None
      BY <2>1, <3>1, IdsType
    <3>3. t \notin DOMAIN ts
      BY <3>2, <1>5 DEF Filed
    <3> QED
      BY <3>1, <3>2, <3>3, NewRows
  <2> QED
    BY <2>1
<1>7. CASE stop = End
  <2> DEFINE W == Waived(r, S)
  <2>1. /\ status' = "approved" /\ current' = None /\ visited' = seen \cup S
        /\ tasks' = [t \in DOMAIN ts \cup W |-> IF t \in W THEN WaivedTask(t) ELSE ts[t]]
    BY <1>1, <1>7 DEF Complete, Finish
  <2>2. \A t \in W : /\ t.round = r /\ t.node \in S /\ t.slot = None /\ t \notin DOMAIN ts
                     /\ WaivedTask(t).status = "skipped" /\ OfItsGroup(t, WaivedTask(t))
    BY <1>6
  <2> HIDE DEF W
  <2>3. \A t \in DOMAIN tasks' \ DOMAIN ts : NewRow(t, r, S)
    BY <2>1, <2>2 DEF NewRow
  <2>4. DOMAIN ts \subseteq DOMAIN tasks' /\ \A t \in DOMAIN ts : tasks'[t] = ts[t]
    BY <2>1, <2>2
  <2> QED
    BY <1>5, <2>1, <2>3, <2>4 DEF Walked
<1>8. CASE stop # End
  <2> DEFINE W == Waived(r, S \cup {stop})
             O == OpenIds(r, stop)
             new == S \cup {stop}
  <2>1. stop \in Node /\ Arrive(ts, r, S, stop, seen)
    BY <1>1, <1>8
  <2>2. PICK draw \in Draws(stop) :
          tasks' = [t \in DOMAIN ts \cup W \cup O |->
                      IF t \in O THEN OpenTask(t, draw)
                      ELSE IF t \in W THEN WaivedTask(t) ELSE ts[t]]
    BY <2>1 DEF Arrive
  <2>3. status' = "pending" /\ current' = stop /\ visited' = seen \cup new
    BY <2>1 DEF Arrive
  <2>4. \A t \in W : /\ t.round = r /\ t.node \in new /\ t.slot = None /\ t \notin DOMAIN ts
                     /\ WaivedTask(t).status = "skipped" /\ OfItsGroup(t, WaivedTask(t))
    BY <1>6, <2>1
  <2>5. \A t \in O : /\ t.round = r /\ t.node = stop /\ t.slot # None /\ t \notin DOMAIN ts
                     /\ OpenTask(t, draw).status = "pending" /\ OfItsGroup(t, OpenTask(t, draw))
    <3>1. \A t \in O : t.round = r /\ t.node = stop /\ t.slot \in OpenSlots(stop)
      BY <2>1, IdsType
    <3>2. \A s \in OpenSlots(stop) : s # None
      BY <2>1, ApproversType, ConstantsAssumption DEF OpenSlots, FilledSlots
    <3>3. \A t \in O : t \notin DOMAIN ts
      BY <3>1, <1>5 DEF Filed
    <3> QED
      BY <2>1, <3>1, <3>2, <3>3, NewRows
  <2> HIDE DEF W, O
  <2>6. \A t \in DOMAIN tasks' \ DOMAIN ts : NewRow(t, r, new)
    BY <2>2, <2>3, <2>4, <2>5 DEF NewRow
  <2>7. DOMAIN ts \subseteq DOMAIN tasks' /\ \A t \in DOMAIN ts : tasks'[t] = ts[t]
    BY <2>2, <2>4, <2>5
  <2>8. BelowAll(v, visited', stop)
    <3>1. ASSUME NEW n \in visited' \ {stop}, NEW depth \in Depths(v) PROVE depth[n] < depth[stop]
      <4>1. CASE n \in S
        BY <4>1, <1>2
      <4>2. CASE n \in seen
        <5>1. depth[n] <= depth[from] /\ depth[from] < depth[stop]
          BY <4>2, <1>2
        <5> QED
          BY <5>1, <4>2, <1>3, <1>4
      <4> QED
        BY <3>1, <2>3, <4>1, <4>2
    <3> QED
      BY <3>1 DEF BelowAll, Below
  <2>9. new \in SUBSET Node /\ stop \in new
    BY <2>1
  <2> QED
    BY <1>5, <2>3, <2>6, <2>7, <2>8, <2>9 DEF Walked
<1> QED
  BY <1>7, <1>8

-----------------------------------------------------------------------------
(* The inductive invariant                                                  *)

(* Rows are filed under the rounds and steps met; an open one has a slot *)
RowsOK ==
  /\ Filed(tasks, round, visited)
  /\ \A t \in DOMAIN tasks : /\ OfItsGroup(t, tasks[t])
                             /\ tasks[t].status = "pending" => t.slot # None

(* The steps met in the round lie above the one where the request waits *)
WalkOK ==
  /\ status = "pending" => /\ version \in Version /\ current \in visited
                           /\ BelowAll(version, visited, current)
  /\ status = "draft" => version = None

(* What became of a task of the current step: it is open, or its group is gone, *)
(* or in an "all" step its slot was approved                                    *)
AtWork(t) ==
  \/ tasks[t].status = "pending"
  \/ tasks[t].status = "skipped" /\ t.origin \in Group
  \/ InAllStep /\ \E o \in Approvals(current) : o.slot = t.slot

StepOK == status = "pending" => \A t \in TasksAt(current) : AtWork(t)

SignaturesOK == SignatureStepsAreSigned /\ \A o \in signed : tasks[o].status # "pending"

(* What the scan has decided on its own is no approval that needs a signature *)
ScanOK == cron.pc = "approve" => AutoApproves(cron.task.node)

Decisions == RowsOK /\ WalkOK /\ StepOK /\ PassedStepsAreDecided /\ SignaturesOK

DecisionInv == Inv /\ Decisions /\ ScanOK

-----------------------------------------------------------------------------
(* The kinds of steps                                                       *)

(* ts is the table with the tasks of A closed by u and those of D skipped *)
Decides(ts, A, how, D, u) ==
  /\ DOMAIN ts = DOMAIN tasks
  /\ \A t \in DOMAIN tasks :
       /\ OfItsGroup(t, tasks[t]) => OfItsGroup(t, ts[t])
       /\ Handed(t, ts[t])
       /\ t \in A => ts[t].status = how /\ ts[t].actedBy = u
       /\ t \in D \ A => ts[t].status = "skipped" /\ ts[t].actedBy = tasks[t].actedBy
       /\ t \notin A \cup D => ts[t].status = tasks[t].status /\ ts[t].actedBy = tasks[t].actedBy

Quiet ==
  /\ Decides(tasks', {}, "approved", {}, None)
  /\ UNCHANGED <<status, round, current, visited, version, signed>>

(* u's click, or the system's own approval, decides the tasks of A; those of *)
(* D go with them                                                            *)
Approves(ts, A, D, u) ==
  /\ status = "pending" /\ A \subseteq Open /\ A # {} /\ D \subseteq Open
  /\ Table(ts) /\ Decides(ts, A, "approved", D, u)
  /\ InAllStep => \A d \in D : \E a \in A : a.slot = d.slot
  /\ \E pick \in A :
       signed' = IF Step[current].requireSignature /\ u # None THEN signed \cup {pick} ELSE signed
  /\ Step[current].requireSignature => u # None
  /\ InAllStep => \A t, o \in A : t.slot # o.slot =>
       \E w \in User : SoleApprover(w, t) \/ SoleApprover(w, o)
  /\ UNCHANGED <<round, version>>

(* The slot of a group without members is given up *)
Drops(ts, t) ==
  /\ status = "pending" /\ t \in Open /\ t.origin \in Group
  /\ Table(ts) /\ Decides(ts, {}, "approved", {t}, None)
  /\ UNCHANGED <<round, version, signed>>

Stays(ts) == tasks' = ts /\ UNCHANGED <<status, current, visited>>
Leaves(ts) == Advance(ts, round, version, current, visited)

Stops(A, verdict, D, u, how) ==
  /\ A \subseteq Open /\ D \subseteq Open /\ verdict \in {"rejected", "returned"}
  /\ Decides(tasks', A, verdict, D, u)
  /\ Finish(how)
  /\ \/ status = "pending" /\ how \in {"rejected", "returned"}
     \/ /\ status \in {"draft", "returned", "pending"} /\ how = "cancelled"
        /\ status = "pending" => \A t \in RoundTasks : tasks[t].status # "approved"
  /\ UNCHANGED <<round, visited, version, signed>>

Sends ==
  /\ status \in {"draft", "returned"} /\ round < MaxRound /\ round' = round + 1
  /\ version' = IF status = "returned" /\ version # None THEN version ELSE published
  /\ Advance(tasks, round + 1, version', Start, {})
  /\ UNCHANGED signed

ApprovalStep(ts, A, D, u) ==
  /\ Approves(ts, A, D, u)
  /\ (InAllStep /\ Stays(ts)) \/ (Open \subseteq A \cup D /\ Leaves(ts))

DropStep(ts, t) ==
  /\ Drops(ts, t)
  /\ Stays(ts) \/ (Open = {t} /\ Leaves(ts))

-----------------------------------------------------------------------------
(* Every operation is of one of these kinds                                 *)

LEMMA CloseRows ==
  ASSUME NEW ts, Table(ts), NEW S, NEW how, NEW u
  PROVE  /\ \A t \in DOMAIN ts : /\ Close(ts, S, how, u)[t].approver = ts[t].approver
                                 /\ Close(ts, S, how, u)[t].assigned = ts[t].assigned
                                 /\ Close(ts, S, how, u)[t].handovers = ts[t].handovers
                                 /\ t \in S => /\ Close(ts, S, how, u)[t].status = how
                                               /\ Close(ts, S, how, u)[t].actedBy = u
                                 /\ t \notin S => Close(ts, S, how, u)[t] = ts[t]
         /\ DOMAIN Close(ts, S, how, u) = DOMAIN ts
<1>1. \A x \in Task : LET y == [x EXCEPT !.status = how, !.actedBy = u] IN
        /\ y.approver = x.approver /\ y.assigned = x.assigned /\ y.handovers = x.handovers
        /\ y.status = how /\ y.actedBy = u
  BY DEF Task
<1>2. \A t \in DOMAIN ts : ts[t] \in Task
  BY DEF Table
<1> QED
  BY <1>1, <1>2 DEF Close

LEMMA SkipRows ==
  ASSUME NEW ts, Table(ts), NEW S
  PROVE  /\ \A t \in DOMAIN ts : /\ Skip(ts, S)[t].approver = ts[t].approver
                                 /\ Skip(ts, S)[t].assigned = ts[t].assigned
                                 /\ Skip(ts, S)[t].handovers = ts[t].handovers
                                 /\ Skip(ts, S)[t].actedBy = ts[t].actedBy
                                 /\ t \in S => Skip(ts, S)[t].status = "skipped"
                                 /\ t \notin S => Skip(ts, S)[t] = ts[t]
         /\ DOMAIN Skip(ts, S) = DOMAIN ts
<1>1. \A x \in Task : LET y == [x EXCEPT !.status = "skipped"] IN
        /\ y.approver = x.approver /\ y.assigned = x.assigned /\ y.status = "skipped"
        /\ y.actedBy = x.actedBy /\ y.handovers = x.handovers
  BY DEF Task
<1>2. \A t \in DOMAIN ts : ts[t] \in Task
  BY DEF Table
<1> QED
  BY <1>1, <1>2 DEF Skip

(* Skipping what is left over after a decision *)
LEMMA DecisionRows ==
  ASSUME Inv, NEW A, NEW D, A \cap D = {}, NEW how \in TaskStatus, NEW u \in User \cup {None}
  PROVE  LET ts == Skip(Close(tasks, A, how, u), D)
         IN Table(ts) /\ Decides(ts, A, how, D, u)
<1> DEFINE cs == Close(tasks, A, how, u)
<1>1. Table(tasks)
  BY DEF Inv, RequestOK
<1>2. Table(cs) /\ DOMAIN cs = DOMAIN tasks
  BY <1>1, CloseType
<1>3. \A t \in DOMAIN tasks : /\ cs[t].approver = tasks[t].approver
                              /\ cs[t].assigned = tasks[t].assigned
                              /\ cs[t].handovers = tasks[t].handovers
                              /\ t \in A => cs[t].status = how /\ cs[t].actedBy = u
                              /\ t \notin A => cs[t] = tasks[t]
  BY <1>1, CloseRows
<1> HIDE DEF cs
<1>4. Table(Skip(cs, D)) /\ DOMAIN Skip(cs, D) = DOMAIN tasks
  BY <1>2, SkipType
<1>5. \A t \in DOMAIN tasks : /\ Skip(cs, D)[t].approver = cs[t].approver
                              /\ Skip(cs, D)[t].assigned = cs[t].assigned
                              /\ Skip(cs, D)[t].handovers = cs[t].handovers
                              /\ Skip(cs, D)[t].actedBy = cs[t].actedBy
                              /\ t \in D => Skip(cs, D)[t].status = "skipped"
                              /\ t \notin D => Skip(cs, D)[t] = cs[t]
  BY <1>2, SkipRows
<1>6. Decides(Skip(cs, D), A, how, D, u)
  BY <1>3, <1>4, <1>5 DEF Decides, OfItsGroup, Handed
<1> QED
  BY <1>4, <1>6 DEF cs

LEMMA ApproveKind ==
  ASSUME Inv, status = "pending", NEW E \in SUBSET Open, NEW pick \in E,
         NEW u \in User \cup {None}, Step[current].requireSignature => u # None,
         ApproveStep(E, pick, u)
  PROVE  \E ts, A, D : ApprovalStep(ts, A, D, u) /\ pick \in A
<1> DEFINE mine == Mine(E, pick)
           along == AlongWith(E, mine, u)
           A == mine \cup along
           rest == Open \ A
           coSlot == { t \in rest : \E m \in mine : m.slot # None /\ t.slot = m.slot }
           D == IF InAllStep /\ rest \ coSlot # {} THEN coSlot ELSE rest
           ts == Skip(Close(tasks, A, "approved", u), D)
<1>1. /\ signed' = IF Step[current].requireSignature /\ u # None THEN signed \cup {pick} ELSE signed
      /\ IF InAllStep /\ rest \ coSlot # {}
         THEN tasks' = ts /\ UNCHANGED <<status, current, visited>>
         ELSE Advance(ts, round, version, current, visited)
      /\ UNCHANGED <<round, version, payload>>
  BY DEF ApproveStep
<1>2. /\ mine \subseteq Open /\ along \subseteq Open /\ pick \in mine
      /\ InAllStep => \A t \in mine : t.slot = pick.slot
      /\ \A t \in along : u \in User /\ SoleApprover(u, t)
  BY DEF Mine, AlongWith
<1>3. /\ A \subseteq Open /\ pick \in A /\ D \subseteq Open /\ A \cap D = {}
      /\ InAllStep => \A d \in D : \E a \in A : a.slot = d.slot
      /\ ~(InAllStep /\ rest \ coSlot # {}) => Open \subseteq A \cup D
  BY <1>2
<1>4. InAllStep => \A t, o \in A : t.slot # o.slot =>
        \E w \in User : SoleApprover(w, t) \/ SoleApprover(w, o)
  <2>1. ASSUME InAllStep, NEW t \in A, NEW o \in A, t.slot # o.slot
        PROVE  \E w \in User : SoleApprover(w, t) \/ SoleApprover(w, o)
    <3>1. t \in along \/ o \in along
      BY <1>2, <2>1
    <3> QED
      BY <1>2, <3>1
  <2> QED
    BY <2>1
<1>5. Table(ts) /\ Decides(ts, A, "approved", D, u)
  <2>1. "approved" \in TaskStatus
    BY DEF TaskStatus
  <2> HIDE DEF A, D
  <2> QED
    BY <1>3, <2>1, DecisionRows
<1> HIDE DEF mine, along, rest, coSlot, A, D, ts
<1>6. Approves(ts, A, D, u)
  BY <1>1, <1>3, <1>4, <1>5 DEF Approves
<1>7. (InAllStep /\ Stays(ts)) \/ (Open \subseteq A \cup D /\ Leaves(ts))
  BY <1>1, <1>3 DEF Stays, Leaves
<1> QED
  BY <1>3, <1>6, <1>7 DEF ApprovalStep

LEMMA StopKind ==
  ASSUME Inv, status = "pending", NEW E \in SUBSET Open, NEW pick \in E,
         NEW u \in User \cup {None}, NEW how \in {"rejected", "returned"},
         StopStep(E, pick, u, how)
  PROVE  \E A, D : Stops(A, how, D, u, how) /\ pick \in A
<1> DEFINE A == Mine(E, pick)
           D == Open \ A
<1>1. /\ tasks' = Skip(Close(tasks, A, how, u), D)
      /\ Finish(how) /\ UNCHANGED <<round, visited, version, signed>>
  BY DEF StopStep
<1>2. A \subseteq Open /\ D \subseteq Open /\ A \cap D = {} /\ how \in TaskStatus /\ pick \in A
  BY DEF Mine, TaskStatus
<1> HIDE DEF A, D
<1>3. Decides(tasks', A, how, D, u)
  BY <1>1, <1>2, DecisionRows
<1> QED
  BY <1>1, <1>2, <1>3 DEF Stops

LEMMA CancelKind ==
  ASSUME Inv, Cancel
  PROVE  \E A, D : Stops(A, "rejected", D, None, "cancelled")
<1> DEFINE D == IF status = "pending" THEN { t \in RoundTasks : tasks[t].status = "pending" } ELSE {}
<1>1. /\ status \in {"draft", "returned", "pending"}
      /\ status = "pending" => \A t \in RoundTasks : tasks[t].status # "approved"
      /\ tasks' = IF status = "pending" THEN Skip(tasks, D) ELSE tasks
      /\ Finish("cancelled") /\ UNCHANGED <<round, visited, version, signed>>
  BY DEF Cancel
<1>2. D \subseteq Open
  BY DEF Open, RoundTasks, Inv, RequestOK, PendingOnlyAtCurrentStep
<1>3. Table(tasks) /\ (status # "pending" => D = {})
  BY DEF Inv, RequestOK
<1> HIDE DEF D
<1>4. Decides(tasks', {}, "rejected", D, None)
  <2>1. CASE status = "pending"
    BY <1>1, <1>3, <2>1, SkipRows DEF Decides, OfItsGroup, Handed
  <2>2. CASE status # "pending"
    BY <1>1, <1>3, <2>2 DEF Decides, Handed
  <2> QED
    BY <2>1, <2>2
<1>5. Stops({}, "rejected", D, None, "cancelled")
  BY <1>1, <1>2, <1>4 DEF Stops
<1> QED
  BY <1>5

LEMMA SubmitKind ==
  ASSUME Submit
  PROVE  Sends
BY DEF Submit, Sends

(* One row changes hands, or its clock *)
LEMMA RowKind ==
  ASSUME Inv, NEW t \in DOMAIN tasks, NEW row, tasks' = [tasks EXCEPT ![t] = row],
         row.status = tasks[t].status, row.actedBy = tasks[t].actedBy,
         OfItsGroup(t, tasks[t]) => OfItsGroup(t, row), Handed(t, row),
         UNCHANGED <<status, round, current, visited, version, signed>>
  PROVE  Quiet
<1>1. Table(tasks)
  BY DEF Inv, RequestOK
<1>2. DOMAIN tasks' = DOMAIN tasks /\ \A o \in DOMAIN tasks : tasks'[o] = IF o = t THEN row ELSE tasks[o]
  BY <1>1 DEF Table
<1>3. \A o \in DOMAIN tasks : Handed(o, tasks'[o])
  BY <1>2 DEF Handed
<1>4. Decides(tasks', {}, "approved", {}, None)
  BY <1>2, <1>3 DEF Decides
<1> QED
  BY <1>4 DEF Quiet

LEMMA HandOverRow ==
  ASSUME Inv, NEW t \in DOMAIN tasks, NEW u \in User, NEW b \in BOOLEAN
  PROVE  LET moved == HandOver(t, u, b) IN
         /\ moved \in Task
         /\ moved.status = tasks[t].status /\ moved.actedBy = tasks[t].actedBy
         /\ moved.approver = u /\ moved.assigned = b
<1>1. tasks[t] \in Task
  BY DEF Inv, TypeOK
<1>2. \A x \in Task : \A h : LET y == [x EXCEPT !.approver = u, !.assigned = b, !.handovers = h] IN
        /\ y.status = x.status /\ y.actedBy = x.actedBy /\ y.approver = u /\ y.assigned = b
  BY DEF Task
<1>3. HandOver(t, u, b) \in Task
  BY HandOverType DEF Inv
<1> QED
  BY <1>1, <1>2, <1>3 DEF HandOver

LEMMA RepairKind ==
  ASSUME Inv, RowsOK, NEW t \in DOMAIN tasks, RepairGroupTask(t)
  PROVE  Quiet \/ \E ts : DropStep(ts, t)
<1> DEFINE g == IF tasks[t].assigned THEN t.origin ELSE tasks[t].approver
           ts == Skip(tasks, {t})
<1>1. /\ status = "pending" /\ t \in Open
      /\ tasks[t].assigned \/ IsGroupTask(t)
      /\ IF tasks[t].assigned THEN tasks[t].approver \notin GroupMembers(g) ELSE GroupMembers(g) = {}
      /\ IF GroupMembers(g) # {}
         THEN /\ \E u \in GroupMembers(g) : tasks' = [tasks EXCEPT ![t] = HandOver(t, u, TRUE)]
              /\ UNCHANGED <<status, current, visited>>
         ELSE IF Open # {t}
         THEN tasks' = ts /\ UNCHANGED <<status, current, visited>>
         ELSE Advance(ts, round, version, current, visited)
      /\ UNCHANGED <<round, version, payload, signed>>
  BY DEF RepairGroupTask
<1>2. t.origin \in Group
  BY <1>1 DEF RowsOK, OfItsGroup, IsGroupTask, Inv, TypeOK, Task
<1> HIDE DEF g
<1>3. CASE GroupMembers(g) # {}
  <2>1. PICK u \in GroupMembers(g) : tasks' = [tasks EXCEPT ![t] = HandOver(t, u, TRUE)]
    BY <1>1, <1>3
  <2>2. u \in User
    BY DEF GroupMembers, Inv, TypeOK
  <2> DEFINE row == HandOver(t, u, TRUE)
  <2>3. row.status = tasks[t].status /\ row.actedBy = tasks[t].actedBy
    BY <2>2, HandOverRow
  <2>4. OfItsGroup(t, row) /\ Handed(t, row)
    BY <1>2, <2>2, HandOverRow DEF OfItsGroup, Handed
  <2> HIDE DEF row
  <2>5. tasks' = [tasks EXCEPT ![t] = row]
    BY <2>1 DEF row
  <2> QED
    BY <1>1, <1>3, <2>3, <2>4, <2>5, RowKind
<1>4. CASE GroupMembers(g) = {}
  <2>1. Table(tasks) /\ Table(ts) /\ DOMAIN ts = DOMAIN tasks
    BY SkipType DEF Inv, RequestOK
  <2>2. Decides(ts, {}, "approved", {t}, None)
    BY <2>1, SkipRows DEF Decides, OfItsGroup, Handed
  <2> HIDE DEF ts
  <2>3. Drops(ts, t)
    BY <1>1, <1>2, <2>1, <2>2 DEF Drops
  <2>4. Stays(ts) \/ (Open = {t} /\ Leaves(ts))
    BY <1>1, <1>4 DEF Stays, Leaves
  <2> QED
    BY <2>3, <2>4 DEF DropStep
<1> QED
  BY <1>3, <1>4

LEMMA ReassignKind ==
  ASSUME Inv, NEW u \in User, ReassignWrite(u)
  PROVE  Quiet
<1> DEFINE t == admin.task
           moved == HandOver(t, u, FALSE)
           row == IF u = admin.holder THEN [moved EXCEPT !.approver = tasks[t].approver] ELSE moved
<1>1. tasks' = [tasks EXCEPT ![t] = row]
  BY DEF ReassignWrite
<1>2. t \in DOMAIN tasks
  BY DEF Inv, TypeOK, ReassignWrite
<1>3. /\ moved \in Task /\ moved.status = tasks[t].status /\ moved.actedBy = tasks[t].actedBy
      /\ moved.approver = u /\ moved.assigned = FALSE
  BY <1>2, HandOverRow
<1>4. \A x \in Task : \A p : LET y == [x EXCEPT !.approver = p] IN
        y.status = x.status /\ y.actedBy = x.actedBy /\ y.assigned = x.assigned /\ y.approver = p
  BY DEF Task
<1>5. /\ row.status = tasks[t].status /\ row.actedBy = tasks[t].actedBy /\ row.assigned = FALSE
      /\ row.approver \in {u, tasks[t].approver}
  BY <1>3, <1>4
<1>6. u \notin Group
  BY ConstantsAssumption
<1>7. UNCHANGED <<status, round, current, visited, version, signed>>
  BY DEF ReassignWrite
<1>9. Handed(t, row)
  BY <1>3, <1>5 DEF Handed, ReassignWrite
<1> HIDE DEF row, t
<1>8. OfItsGroup(t, tasks[t]) => OfItsGroup(t, row)
  BY <1>5, <1>6 DEF OfItsGroup
<1> QED
  BY <1>1, <1>2, <1>5, <1>7, <1>8, <1>9, RowKind

LEMMA TickKind ==
  ASSUME Inv, Tick
  PROVE  Quiet
<1> DEFINE ages(t) == tasks[t].status = "pending" /\ Step[t.node].timed /\ tasks[t].late < 2
<1>1. /\ tasks' = [t \in DOMAIN tasks |->
                     IF ages(t) THEN [tasks[t] EXCEPT !.late = @ + 1] ELSE tasks[t]]
      /\ UNCHANGED <<status, round, current, visited, version, signed>>
  BY DEF Tick
<1> HIDE DEF ages
<1>2. \A t \in DOMAIN tasks : tasks[t] \in Task
  BY DEF Inv, TypeOK
<1>3. \A x \in Task : LET y == [x EXCEPT !.late = @ + 1] IN
        /\ y.status = x.status /\ y.actedBy = x.actedBy /\ y.assigned = x.assigned /\ y.approver = x.approver
        /\ y.handovers = x.handovers
  BY DEF Task
<1>4. Decides(tasks', {}, "approved", {}, None)
  BY <1>1, <1>2, <1>3 DEF Decides, OfItsGroup, Handed
<1> QED
  BY <1>1, <1>4 DEF Quiet

LEMMA EscalateKind ==
  ASSUME Inv, OverdueEscalate
  PROVE  Quiet
<1> DEFINE t == cron.task
           row(u) == [HandOver(t, u, FALSE) EXCEPT !.late = 0, !.reminded = FALSE, !.escalations = @ + 1]
<1>1. PICK u \in EscalationTargets(t, cron.holder) : tasks' = [tasks EXCEPT ![t] = row(u)]
  BY DEF OverdueEscalate
<1>2. t \in DOMAIN tasks
  BY DEF Inv, TypeOK, Idle, OverdueEscalate, OverdueUnderLock
<1>3. u \in User /\ u \notin Group
  BY <1>1, ConstantsAssumption DEF EscalationTargets, Inv, TypeOK
<1>4. LET moved == HandOver(t, u, FALSE) IN
        /\ moved \in Task /\ moved.status = tasks[t].status /\ moved.actedBy = tasks[t].actedBy
        /\ moved.approver = u /\ moved.assigned = FALSE
  BY <1>2, <1>3, HandOverRow
<1>5. \A x \in Task : \A e : LET y == [x EXCEPT !.late = 0, !.reminded = FALSE, !.escalations = e] IN
        y.status = x.status /\ y.actedBy = x.actedBy /\ y.assigned = x.assigned /\ y.approver = x.approver
  BY DEF Task
<1>6. /\ row(u).status = tasks[t].status /\ row(u).actedBy = tasks[t].actedBy
      /\ row(u).assigned = FALSE /\ row(u).approver = u
  BY <1>4, <1>5
<1>7. UNCHANGED <<status, round, current, visited, version, signed>>
  BY DEF OverdueEscalate, OverdueUnderLock
<1> HIDE DEF row, t
<1>8. OfItsGroup(t, row(u)) /\ Handed(t, row(u))
  BY <1>3, <1>6 DEF OfItsGroup, Handed
<1> QED
  BY <1>1, <1>2, <1>6, <1>7, <1>8, RowKind

LEMMA RemindKind ==
  ASSUME Inv, OverdueRemind
  PROVE  Quiet
<1> DEFINE t == cron.task
           row == [tasks[t] EXCEPT !.reminded = TRUE]
<1>1. t \in DOMAIN tasks
  BY DEF Inv, TypeOK, Idle, OverdueRemind, OverdueUnderLock
<1>2. tasks' = [tasks EXCEPT ![t] = row]
  BY DEF OverdueRemind
<1>3. tasks[t] \in Task
  BY <1>1 DEF Inv, TypeOK
<1>4. \A x \in Task : LET y == [x EXCEPT !.reminded = TRUE] IN
        /\ y.status = x.status /\ y.actedBy = x.actedBy /\ y.assigned = x.assigned /\ y.approver = x.approver
        /\ y.handovers = x.handovers
  BY DEF Task
<1>5. /\ row.status = tasks[t].status /\ row.actedBy = tasks[t].actedBy
      /\ OfItsGroup(t, tasks[t]) => OfItsGroup(t, row)
      /\ Handed(t, row)
  BY <1>3, <1>4 DEF OfItsGroup, Handed
<1>6. UNCHANGED <<status, round, current, visited, version, signed>>
  BY DEF OverdueRemind, OverdueUnderLock
<1> HIDE DEF row, t
<1> QED
  BY <1>1, <1>2, <1>5, <1>6, RowKind

LEMMA OverdueActKind ==
  ASSUME Inv, ScanOK, OverdueAct
  PROVE  \/ \E ts, A, D : ApprovalStep(ts, A, D, None)
         \/ \E A, D : Stops(A, "rejected", D, None, "rejected")
<1>1. status = "pending" /\ {cron.task} \in SUBSET Open /\ cron.task \in {cron.task}
  BY DEF OverdueAct
<1>2. CASE cron.pc = "approve" /\ ApproveStep({cron.task}, cron.task, None)
  <2>1. cron.task.node = current
    BY <1>1 DEF Open
  <2>2. Step[current].requireSignature => None # None
    BY <1>2, <2>1 DEF ScanOK, AutoApproves
  <2> QED
    BY <1>1, <1>2, <2>2, ApproveKind
<1>3. CASE StopStep({cron.task}, cron.task, None, "rejected")
  BY <1>1, <1>3, StopKind
<1> QED
  BY <1>2, <1>3 DEF OverdueAct

LEMMA UnchangedKind ==
  ASSUME UNCHANGED <<status, round, current, visited, version, tasks, signed>>
  PROVE  Quiet
BY DEF Quiet, Decides, Handed

(* A click decides at least one of the tasks the clicker prefers *)
LEMMA ApproveClick ==
  ASSUME Inv, NEW u \in User, Approve(u)
  PROVE  \E ts, A, D : ApprovalStep(ts, A, D, u) /\ A \cap Preferred(u) # {}
<1>1. PICK pick \in Preferred(u) : ApproveStep(Eligible(u), pick, u)
  BY DEF Approve
<1>2. Eligible(u) \in SUBSET Open /\ pick \in Eligible(u)
  BY PreferredType
<1>3. status = "pending" /\ u # None
  BY ConstantsAssumption DEF Approve, Actor
<1>4. \E ts, A, D : ApprovalStep(ts, A, D, u) /\ pick \in A
  BY <1>1, <1>2, <1>3, ApproveKind
<1> QED
  BY <1>4

LEMMA StopClick ==
  ASSUME Inv, NEW u \in User, Reject(u) \/ Return(u)
  PROVE  \E A, how, D : /\ Stops(A, how, D, u, how) /\ A \cap Preferred(u) # {}
                        /\ how = "returned" => Step[current].allowReturn
<1>1. PICK how \in {"rejected", "returned"}, pick \in Preferred(u) :
        StopStep(Eligible(u), pick, u, how) /\ (how = "returned" => Step[current].allowReturn)
  BY DEF Reject, Return
<1>2. Eligible(u) \in SUBSET Open /\ pick \in Eligible(u)
  BY PreferredType
<1>3. status = "pending"
  BY DEF Reject, Return, Actor
<1>4. \E A, D : Stops(A, how, D, u, how) /\ pick \in A
  BY <1>1, <1>2, <1>3, StopKind
<1> QED
  BY <1>1, <1>4

(* Whatever no approver's click brings about is nobody's decision *)
LEMMA SystemKinds ==
  ASSUME Inv, RowsOK, ScanOK, [Next]_vars, ~ApproverNext
  PROVE  \/ Quiet
         \/ \E ts, A, D : ApprovalStep(ts, A, D, None)
         \/ \E t \in DOMAIN tasks : \E ts : DropStep(ts, t)
         \/ \E A, verdict, D, how : Stops(A, verdict, D, None, how)
         \/ Sends
<1>1. CASE Submit
  BY <1>1, SubmitKind
<1>2. CASE Cancel
  BY <1>2, CancelKind
<1>3. CASE \E p \in Payload : EditDraft(p)
  BY <1>3, UnchangedKind DEF EditDraft
<1>4. CASE ReassignNext
  <2>1. CASE \E t \in DOMAIN tasks : ReassignRead(t)
    BY <2>1, UnchangedKind DEF ReassignRead, requestVars
  <2> QED
    BY <1>4, <2>1, ReassignKind DEF ReassignNext
<1>5. CASE RepairNext
  BY <1>5, RepairKind DEF RepairNext
<1>6. CASE Tick
  BY <1>6, TickKind
<1>7. CASE ScanNext
  <2>1. CASE ScanStart \/ OverdueRead \/ OverdueMissed \/ OverdueActFails
    BY <2>1, UnchangedKind DEF ScanStart, OverdueRead, OverdueMissed, OverdueActFails, requestVars
  <2>2. CASE OverdueDecide
    BY <2>2, UnchangedKind DEF OverdueDecide, OverdueUnderLock
  <2>3. CASE OverdueAct
    BY <2>3, OverdueActKind
  <2> QED
    BY <1>7, <2>1, <2>2, <2>3, EscalateKind, RemindKind DEF ScanNext
<1>8. CASE DirectoryNext
  BY <1>8, UnchangedKind DEF DirectoryNext, Publish, LockUser, ChangeGroup, Delegate, requestVars
<1>9. CASE UNCHANGED vars
  BY <1>9, UnchangedKind DEF vars, requestVars
<1> QED
  BY <1>1, <1>2, <1>3, <1>4, <1>5, <1>6, <1>7, <1>8, <1>9
     DEF Next, RequesterNext

LEMMA StepKinds ==
  ASSUME Inv, RowsOK, ScanOK, [Next]_vars
  PROVE  \/ Quiet
         \/ \E u \in User \cup {None} : \E ts, A, D : ApprovalStep(ts, A, D, u)
         \/ \E t \in DOMAIN tasks : \E ts : DropStep(ts, t)
         \/ \E A, verdict, D, u, how : Stops(A, verdict, D, u, how)
         \/ Sends
<1>1. CASE ApproverNext
  <2>1. PICK u \in User : Approve(u) \/ Reject(u) \/ Return(u)
    BY <1>1 DEF ApproverNext
  <2> QED
    BY <2>1, ApproveClick, StopClick
<1>2. CASE ~ApproverNext
  BY <1>2, SystemKinds
<1> QED
  BY <1>1, <1>2

-----------------------------------------------------------------------------
(* What a step does to the rows                                             *)

(* The table continues ts: nothing of ts is touched, and the new rows are of *)
(* steps no row of the round is filed under                                  *)
Continues(ts, new) ==
  /\ DOMAIN ts \subseteq DOMAIN tasks' /\ \A t \in DOMAIN ts : tasks'[t] = ts[t]
  /\ \A t \in DOMAIN tasks' \ DOMAIN ts : NewRow(t, round', new)
  /\ \A t \in DOMAIN ts : t.round = round' => t.node \notin new

LEMMA LeavesWalks ==
  ASSUME Inv, RowsOK, WalkOK, status = "pending", NEW ts, Table(ts), DOMAIN ts = DOMAIN tasks,
         Leaves(ts), round' = round
  PROVE  /\ version \in Version /\ current \in Node /\ current \in visited
         /\ \E new \in SUBSET Node : Walked(ts, round, version, visited, new) /\ Continues(ts, new)
<1>1. /\ version \in Version /\ current \in Node /\ current \in visited
      /\ visited \in SUBSET Node /\ round \in 1..MaxRound /\ TypeOK
  BY DEF WalkOK, Inv, RequestOK, RoundBegun, WaitsForAnOpenTask
<1>2. current \in Place \ {End} /\ visited \subseteq Place
  BY <1>1, ConstantsAssumption DEF Place
<1>3. ASSUME NEW depth \in Depths(version), NEW n \in visited PROVE depth[n] <= depth[current]
  <2>1. depth[n] \in Nat /\ depth[current] \in Nat
    BY <1>1, <1>2, DepthsType
  <2>2. n # current => depth[n] < depth[current]
    BY <1>1 DEF WalkOK, BelowAll, Below
  <2> QED
    BY <2>1, <2>2
<1>4. Filed(ts, round, visited)
  BY DEF Filed, RowsOK
<1>5. Advance(ts, round, version, current, visited)
  BY DEF Leaves
<1>6. PICK new \in SUBSET Node : Walked(ts, round, version, visited, new)
  BY <1>1, <1>2, <1>3, <1>4, <1>5, WalkFacts
<1>7. \A t \in DOMAIN ts : t.round = round => t.node \notin new
  <2>1. \A t \in DOMAIN ts : t.round \in Nat
    BY DEF Table, TaskId
  <2>2. new \cap visited = {}
    BY <1>6 DEF Walked
  <2> QED
    BY <1>1, <1>4, <2>1, <2>2 DEF Filed
<1>8. Continues(ts, new)
  BY <1>6, <1>7 DEF Walked, Continues
<1> QED
  BY <1>1, <1>6, <1>8

LEMMA SendsWalks ==
  ASSUME Inv, RowsOK, Sends
  PROVE  /\ version' \in Version /\ round < round'
         /\ \E new \in SUBSET Node : Walked(tasks, round', version', {}, new) /\ Continues(tasks, new)
<1>1. /\ round \in 0..MaxRound /\ MaxRound \in Nat /\ round' = round + 1 /\ round < MaxRound
      /\ version' \in Version /\ TypeOK /\ Table(tasks)
  BY ConstantsAssumption DEF Sends, Inv, RequestOK, TypeOK
<1>2. round < round' /\ round' \in 1..MaxRound
  BY <1>1
<1>3. \A t \in DOMAIN tasks : t.round < round'
  <2>1. \A t \in DOMAIN tasks : t.round \in Nat /\ t.round <= round
    BY <1>1 DEF Table, TaskId, RowsOK, Filed
  <2> QED
    BY <1>1, <1>2, <2>1
<1>4. Start \in Place \ {End}
  BY ConstantsAssumption DEF Place
<1>5. Filed(tasks, round', {})
  BY <1>3 DEF Filed
<1>6. PICK new \in SUBSET Node : Walked(tasks, round', version', {}, new)
  <2> DEFINE r == round'
             v == version'
  <2>1. Advance(tasks, r, v, Start, {})
    BY <1>1 DEF Sends
  <2>2. r \in 1..MaxRound /\ v \in Version /\ Filed(tasks, r, {})
    BY <1>1, <1>2, <1>5
  <2> HIDE DEF r, v
  <2>3. \E new \in SUBSET Node : Walked(tasks, r, v, {}, new)
    BY <1>1, <1>4, <2>1, <2>2, WalkFacts
  <2> QED
    BY <2>3 DEF r, v
<1>7. \A t \in DOMAIN tasks : t.round = round' => t.node \notin new
  <2>1. \A t \in DOMAIN tasks : t.round \in Nat
    BY <1>1 DEF Table, TaskId
  <2> QED
    BY <1>1, <1>3, <2>1
<1>8. Continues(tasks, new)
  BY <1>6, <1>7 DEF Walked, Continues
<1> QED
  BY <1>1, <1>2, <1>6, <1>8

(* Rows stay filed, of their group and with a slot *)
LEMMA RowsKept ==
  ASSUME Inv, RowsOK, NEW ts, NEW A \in SUBSET Open, NEW D \in SUBSET Open, NEW u,
         NEW how \in {"approved", "rejected", "returned"}, Decides(ts, A, how, D, u),
         NEW new, Continues(ts, new), Filed(tasks, round', visited'), new \subseteq visited'
  PROVE  RowsOK'
<1>1. \A t \in DOMAIN tasks' : t \in DOMAIN tasks \/ NewRow(t, round', new)
  BY DEF Continues, Decides
<1>2. \A t \in DOMAIN tasks' : t.round < round' \/ (t.round = round' /\ t.node \in visited')
  BY <1>1 DEF Filed, NewRow
<1>3. ASSUME NEW t \in DOMAIN tasks'
      PROVE  OfItsGroup(t, tasks'[t]) /\ (tasks'[t].status = "pending" => t.slot # None)
  <2>1. CASE t \in DOMAIN ts
    <3>1. t \in DOMAIN tasks /\ tasks'[t] = ts[t] /\ OfItsGroup(t, tasks[t])
          /\ (tasks[t].status = "pending" => t.slot # None)
      BY <2>1 DEF Continues, Decides, RowsOK
    <3>2. ts[t].status = "pending" => tasks[t].status = "pending"
      BY <3>1 DEF Decides
    <3> QED
      BY <3>1, <3>2 DEF Decides
  <2>2. CASE t \notin DOMAIN ts
    BY <2>2 DEF Continues, NewRow
  <2> QED
    BY <2>1, <2>2
<1> QED
  BY <1>2, <1>3 DEF RowsOK, Filed

(* Signatures: what was signed is decided for good *)
LEMMA SignaturesKept ==
  ASSUME Inv, SignaturesOK, NEW ts, NEW A \in SUBSET Open, NEW D \in SUBSET Open, NEW u,
         NEW how \in {"approved", "rejected", "returned"}, Decides(ts, A, how, D, u),
         NEW new, Continues(ts, new),
         signed \subseteq signed', signed' \subseteq signed \cup A,
         how = "approved" /\ A # {} /\ Step[current].requireSignature => u # None /\ signed' \cap A # {}
  PROVE  SignaturesOK'
<1>1. /\ \A t \in Open : t \in DOMAIN tasks /\ tasks[t].status = "pending" /\ t.node = current /\ t.round = round
      /\ signed \subseteq DOMAIN tasks
  BY DEF Open, RoundTasks, Inv, RequestOK
<1>2. \A t \in DOMAIN tasks : tasks[t].status # "pending" =>
        tasks'[t].status = tasks[t].status /\ tasks'[t].actedBy = tasks[t].actedBy
  BY <1>1 DEF Decides, Continues
<1>3. \A t \in A : tasks'[t].status = how /\ tasks'[t].actedBy = u
  BY <1>1 DEF Decides, Continues
<1>4. \A t \in DOMAIN tasks' : tasks'[t].status = "approved" =>
        \/ t \in A /\ how = "approved"
        \/ t \in DOMAIN tasks /\ tasks[t].status = "approved"
  BY <1>1, <1>3 DEF Decides, Continues, NewRow
<1>5. \A o \in signed' : tasks'[o].status # "pending"
  BY <1>1, <1>2, <1>3 DEF SignaturesOK
<1>6. ASSUME NEW t \in DOMAIN tasks', tasks'[t].status = "approved", Step[t.node].requireSignature
      PROVE  /\ tasks'[t].actedBy # None
             /\ \E o \in signed' : /\ o.round = t.round /\ o.node = t.node
                                   /\ tasks'[o].actedBy = tasks'[t].actedBy
  <2>1. CASE t \in A /\ how = "approved"
    <3>1. u # None /\ signed' \cap A # {}
      BY <1>1, <1>6, <2>1
    <3>2. PICK pick \in A : pick \in signed'
      BY <3>1
    <3> QED
      BY <1>1, <1>3, <2>1, <3>1, <3>2
  <2>2. CASE t \in DOMAIN tasks /\ tasks[t].status = "approved"
    <3>1. /\ tasks[t].actedBy # None
          /\ \E o \in signed : /\ o.round = t.round /\ o.node = t.node
                               /\ tasks[o].actedBy = tasks[t].actedBy
      BY <1>6, <2>2 DEF SignaturesOK, SignatureStepsAreSigned
    <3>2. PICK o \in signed : /\ o.round = t.round /\ o.node = t.node
                              /\ tasks[o].actedBy = tasks[t].actedBy
      BY <3>1
    <3>3. tasks'[o].actedBy = tasks[o].actedBy /\ tasks'[t].actedBy = tasks[t].actedBy
      BY <1>1, <1>2, <2>2, <3>2 DEF SignaturesOK
    <3> QED
      BY <3>1, <3>2, <3>3
  <2> QED
    BY <1>4, <1>6, <2>1, <2>2
<1> QED
  BY <1>5, <1>6 DEF SignaturesOK, SignatureStepsAreSigned

-----------------------------------------------------------------------------
(* Steps behind, the step at hand and steps ahead                           *)

(* A step was really decided, which is what PassedStepsAreDecided asks of   *)
(* every step behind the request                                            *)
Decided(n) ==
  IF Step[n].mode = "all"
  THEN \A t \in TasksAt(n) :
         LET slotTasks == { o \in TasksAt(n) : o.slot = t.slot }
         IN slotTasks \cap Approvals(n) # {} \/ DroppedOnly(slotTasks)
  ELSE Approvals(n) # {} \/ DroppedOnly(TasksAt(n))

LEMMA PassedAsDecided ==
  PassedStepsAreDecided <=> (status \in {"pending", "approved"} => \A n \in visited \ {current} : Decided(n))
BY DEF PassedStepsAreDecided, Decided

(* A decided step stays decided as long as its rows keep their outcomes *)
LEMMA DecidedKept ==
  ASSUME NEW n, Decided(n), TasksAt(n)' = TasksAt(n),
         \A t \in TasksAt(n) : tasks'[t].status = tasks[t].status
  PROVE  Decided(n)'
<1>1. Approvals(n)' = Approvals(n)
  BY DEF Approvals
<1>2. \A T \in SUBSET TasksAt(n) : DroppedOnly(T) => DroppedOnly(T)'
  BY DEF DroppedOnly
<1>3. CASE Step[n].mode = "all"
  <2>1. ASSUME NEW t \in TasksAt(n)
        PROVE  LET slotTasks == { o \in TasksAt(n) : o.slot = t.slot }
               IN slotTasks \cap Approvals(n)' # {} \/ DroppedOnly(slotTasks)'
    <3> DEFINE T == { o \in TasksAt(n) : o.slot = t.slot }
    <3>1. T \cap Approvals(n) # {} \/ DroppedOnly(T)
      BY <1>3 DEF Decided
    <3>2. T \in SUBSET TasksAt(n)
      OBVIOUS
    <3> QED
      BY <1>1, <1>2, <3>1, <3>2
  <2> QED
    BY <1>3, <2>1 DEF Decided
<1>4. CASE Step[n].mode # "all"
  <2>1. Approvals(n) # {} \/ DroppedOnly(TasksAt(n))
    BY <1>4 DEF Decided
  <2> QED
    BY <1>1, <1>2, <1>4, <2>1 DEF Decided
<1> QED
  BY <1>3, <1>4

(* A step behind the request keeps its rows in every step of the same round *)
LEMMA BehindKept ==
  ASSUME Inv, NEW ts, NEW A \in SUBSET Open, NEW D \in SUBSET Open, NEW how, NEW u,
         Decides(ts, A, how, D, u), NEW new, Continues(ts, new), round' = round,
         NEW n, n # current, n \notin new, Decided(n)
  PROVE  Decided(n)'
<1>1. \A t \in Open : t.node = current
  BY DEF Open
<1>2. TasksAt(n)' = TasksAt(n)
  BY DEF TasksAt, RoundTasks, Continues, Decides, NewRow
<1>3. \A t \in TasksAt(n) : tasks'[t].status = tasks[t].status
  BY <1>1 DEF TasksAt, RoundTasks, Continues, Decides
<1> QED
  BY <1>2, <1>3, DecidedKept

(* A step the walk passed over asks nobody *)
LEMMA PassedOver ==
  ASSUME NEW ts, NEW new, Continues(ts, new), NEW n \in new, n # current'
  PROVE  Decided(n)'
<1>1. TasksAt(n)' = {}
  BY DEF TasksAt, RoundTasks, Continues, NewRow
<1> QED
  BY <1>1 DEF Decided, DroppedOnly

(* The step where the walk stopped has only asked so far *)
LEMMA StepEntered ==
  ASSUME NEW ts, NEW new, Continues(ts, new), status' = "pending" => current' \in new
  PROVE  StepOK'
<1>1. ASSUME status' = "pending", NEW t \in TasksAt(current)' PROVE tasks'[t].status = "pending"
  BY <1>1 DEF TasksAt, RoundTasks, Continues, NewRow
<1> QED
  BY <1>1 DEF StepOK, AtWork

(* A step none of whose tasks is open any more is decided *)
Settled(n) ==
  \A t \in TasksAt(n) : \/ tasks[t].status = "skipped" /\ t.origin \in Group
                        \/ \E o \in Approvals(n) : Step[n].mode = "all" => o.slot = t.slot

LEMMA SettledIsDecided == \A n \in Node : Settled(n) => Decided(n)
<1> SUFFICES ASSUME NEW n \in Node, Settled(n) PROVE Decided(n)
  OBVIOUS
<1>1. Approvals(n) \subseteq TasksAt(n)
  BY DEF Approvals
<1>2. CASE Step[n].mode = "all"
  <2>1. ASSUME NEW t \in TasksAt(n)
        PROVE  LET slotTasks == { o \in TasksAt(n) : o.slot = t.slot }
               IN slotTasks \cap Approvals(n) # {} \/ DroppedOnly(slotTasks)
    <3> DEFINE T == { o \in TasksAt(n) : o.slot = t.slot }
    <3>1. CASE T \cap Approvals(n) = {}
      <4>1. ASSUME NEW o \in T PROVE tasks[o].status = "skipped" /\ o.origin \in Group
        <5>1. ASSUME NEW x \in Approvals(n), x.slot = o.slot PROVE FALSE
          BY <1>1, <3>1, <5>1
        <5> QED
          BY <1>2, <5>1 DEF Settled
      <4> QED
        BY <4>1 DEF DroppedOnly
    <3> QED
      BY <3>1
  <2> QED
    BY <1>2, <2>1 DEF Decided
<1>3. CASE Step[n].mode # "all"
  <2>1. CASE Approvals(n) = {}
    BY <2>1 DEF Settled, DroppedOnly, Decided
  <2> QED
    BY <1>3, <2>1 DEF Decided
<1> QED
  BY <1>2, <1>3

LEMMA SettledIsDecidedNext == \A n \in Node : Settled(n)' => Decided(n)'
<1>1. (\A n \in Node : Settled(n) => Decided(n))'
  BY SettledIsDecided, PTL
<1> QED
  BY <1>1

(* The request leaves the current step with every task of it closed *)
LEMMA CurrentSettled ==
  ASSUME Inv, RowsOK, StepOK, status = "pending", round' = round,
         NEW ts, NEW A \in SUBSET Open, NEW D \in SUBSET Open, NEW u,
         Decides(ts, A, "approved", D, u), Open \subseteq A \cup D,
         \A d \in D \ A : d.origin \in Group \/ \E a \in A : InAllStep => a.slot = d.slot,
         NEW new, Continues(ts, new), NEW n \in Node, n = current, n \notin new
  PROVE  Settled(n)'
<1>1. /\ \A t \in Open : t \in TasksAt(n)
      /\ \A t \in TasksAt(n) : t \in DOMAIN tasks /\ (tasks[t].status = "pending" => t \in Open)
  BY DEF Open, TasksAt, RoundTasks, RowsOK
<1>2. TasksAt(n)' = TasksAt(n)
  BY DEF TasksAt, RoundTasks, Continues, Decides, NewRow
<1>3. \A a \in A : a \in Approvals(n)'
  BY <1>1, <1>2 DEF Approvals, Decides, Continues
<1>4. \A o \in Approvals(n) : o \in Approvals(n)'
  <2>1. \A o \in Approvals(n) : o \in TasksAt(n) /\ o \in DOMAIN tasks /\ o \notin Open /\ tasks[o].status = "approved"
    BY <1>1 DEF Approvals, Open
  <2> QED
    BY <1>2, <2>1 DEF Approvals, Decides, Continues
<1>5. ASSUME NEW t \in TasksAt(n)
      PROVE  \/ tasks'[t].status = "skipped" /\ t.origin \in Group
             \/ \E o \in Approvals(n)' : Step[n].mode = "all" => o.slot = t.slot
  <2>1. CASE t \in A
    BY <1>3, <2>1
  <2>2. CASE t \in D \ A
    <3>1. tasks'[t].status = "skipped"
      BY <1>1, <2>2 DEF Decides, Continues
    <3> QED
      BY <1>3, <2>2, <3>1 DEF InAllStep
  <2>3. CASE t \notin A \cup D
    <3>1. t \in DOMAIN tasks /\ tasks'[t].status = tasks[t].status /\ tasks[t].status # "pending"
      BY <1>1, <2>3 DEF Decides, Continues
    <3>2. AtWork(t)
      BY DEF StepOK
    <3> QED
      BY <1>4, <3>1, <3>2 DEF AtWork, InAllStep
  <2> QED
    BY <2>1, <2>2, <2>3
<1> QED
  BY <1>2, <1>5 DEF Settled

(* The request stays: the tasks of the current step are accounted for still *)
LEMMA StepGoesOn ==
  ASSUME Inv, RowsOK, StepOK, status = "pending", UNCHANGED <<round, current>>,
         NEW ts, NEW A \in SUBSET Open, NEW D \in SUBSET Open, NEW u,
         Decides(ts, A, "approved", D, u), A # {} => InAllStep,
         \A d \in D \ A : d.origin \in Group \/ \E a \in A : a.slot = d.slot,
         tasks' = ts
  PROVE  StepOK'
<1>1. /\ \A t \in Open : t \in TasksAt(current)
      /\ TasksAt(current)' = TasksAt(current)
      /\ \A t \in TasksAt(current) : t \in DOMAIN tasks
  BY DEF Open, TasksAt, RoundTasks, RowsOK, Decides
<1>2. \A a \in A : a \in Approvals(current)'
  BY <1>1 DEF Approvals, Decides
<1>3. \A o \in Approvals(current) : o \in Approvals(current)'
  <2>1. \A o \in Approvals(current) : o \in TasksAt(current) /\ o \in DOMAIN tasks /\ o \notin Open /\ tasks[o].status = "approved"
    BY <1>1 DEF Approvals, Open
  <2> QED
    BY <1>1, <2>1 DEF Approvals, Decides
<1>4. InAllStep' <=> InAllStep
  BY DEF InAllStep
<1>5. ASSUME NEW t \in TasksAt(current) PROVE AtWork(t)'
  <2>1. CASE t \in A
    BY <1>2, <1>4, <2>1 DEF AtWork
  <2>2. CASE t \in D \ A
    <3>1. tasks'[t].status = "skipped"
      BY <1>1, <2>2 DEF Decides
    <3> QED
      BY <1>2, <1>4, <2>2, <3>1 DEF AtWork
  <2>3. CASE t \notin A \cup D
    <3>1. AtWork(t) /\ tasks'[t].status = tasks[t].status
      BY <1>1, <2>3 DEF StepOK, Decides
    <3> QED
      BY <1>3, <1>4, <3>1 DEF AtWork
  <2> QED
    BY <2>1, <2>2, <2>3
<1> QED
  BY <1>1, <1>5 DEF StepOK

-----------------------------------------------------------------------------
(* Every kind of step keeps the decisions in order                          *)

LEMMA FiledMore ==
  ASSUME Inv, RowsOK, NEW new, NEW seen, visited' = seen \cup new,
         (round' = round /\ seen = visited) \/ round < round', round' \in Nat
  PROVE  Filed(tasks, round', visited') /\ new \subseteq visited'
<1>1. \A t \in DOMAIN tasks : t.round \in Nat /\ (t.round < round \/ (t.round = round /\ t.node \in visited))
  BY DEF RowsOK, Filed, Inv, RequestOK, Table, TaskId
<1>2. round \in Nat
  BY DEF Inv, RequestOK
<1> QED
  BY <1>1, <1>2 DEF Filed

(* Steps after which the request waits where it waited, or nowhere *)
LEMMA StayingOK ==
  ASSUME Inv, Decisions, UNCHANGED <<round, visited, version>>,
         \/ UNCHANGED <<status, current>> /\ StepOK'
         \/ status' \in {"rejected", "returned", "cancelled"},
         NEW ts, NEW A \in SUBSET Open, NEW D \in SUBSET Open, NEW u,
         NEW how \in {"approved", "rejected", "returned"},
         Decides(ts, A, how, D, u), tasks' = ts,
         signed \subseteq signed', signed' \subseteq signed \cup A,
         how = "approved" /\ A # {} /\ Step[current].requireSignature => u # None /\ signed' \cap A # {}
  PROVE  Decisions'
<1> DEFINE new == {}
<1>1. Continues(ts, new) /\ new \subseteq visited' /\ \A n : n \notin new
  BY DEF Continues, Decides
<1> HIDE DEF new
<1>2. RowsOK'
  <2>1. Filed(tasks, round', visited') /\ RowsOK
    BY DEF Filed, Decisions, RowsOK
  <2> QED
    BY <1>1, <2>1, RowsKept
<1>3. WalkOK' /\ StepOK'
  BY DEF Decisions, WalkOK, StepOK
<1>4. SignaturesOK'
  BY <1>1, SignaturesKept DEF Decisions
<1>5. PassedStepsAreDecided'
  <2>1. CASE UNCHANGED <<status, current>>
    <3>1. ASSUME status \in {"pending", "approved"}, NEW n \in visited \ {current} PROVE Decided(n)'
      <4>1. Decided(n) /\ n # current
        BY <3>1, PassedAsDecided DEF Decisions
      <4> QED
        BY <1>1, <4>1, BehindKept
    <3>2. status' \in {"pending", "approved"} => \A n \in visited' \ {current'} : Decided(n)'
      BY <2>1, <3>1
    <3>3. (PassedStepsAreDecided <=> (status \in {"pending", "approved"} => \A n \in visited \ {current} : Decided(n)))'
      BY PassedAsDecided, PTL
    <3> QED
      BY <3>2, <3>3
  <2>2. CASE status' \in {"rejected", "returned", "cancelled"}
    BY <2>2 DEF PassedStepsAreDecided
  <2> QED
    BY <2>1, <2>2
<1> QED
  BY <1>2, <1>3, <1>4, <1>5 DEF Decisions

LEMMA PassedNext ==
  (status' \in {"pending", "approved"} => \A n \in visited' \ {current'} : Decided(n)')
     => PassedStepsAreDecided'
<1>1. (PassedStepsAreDecided <=> (status \in {"pending", "approved"} => \A n \in visited \ {current} : Decided(n)))'
  BY PassedAsDecided, PTL
<1> QED
  BY <1>1

(* The request walks on from a step whose open tasks were all closed *)
LEMMA LeavingOK ==
  ASSUME Inv, Decisions, status = "pending", UNCHANGED <<round, version>>,
         NEW ts, NEW A \in SUBSET Open, NEW D \in SUBSET Open, NEW u,
         Table(ts), Decides(ts, A, "approved", D, u), Open \subseteq A \cup D,
         \A d \in D \ A : d.origin \in Group \/ \E a \in A : InAllStep => a.slot = d.slot,
         Leaves(ts),
         signed \subseteq signed', signed' \subseteq signed \cup A,
         A # {} /\ Step[current].requireSignature => u # None /\ signed' \cap A # {}
  PROVE  Decisions'
<1>1. RowsOK /\ WalkOK /\ StepOK /\ PassedStepsAreDecided /\ SignaturesOK
  BY DEF Decisions
<1>2. DOMAIN ts = DOMAIN tasks
  BY DEF Decides
<1>3. /\ version \in Version /\ current \in Node /\ current \in visited
      /\ \E new \in SUBSET Node : Walked(ts, round, version, visited, new) /\ Continues(ts, new)
  BY <1>1, <1>2, LeavesWalks
<1>4. PICK new \in SUBSET Node : Walked(ts, round, version, visited, new) /\ Continues(ts, new)
  BY <1>3
<1>5. /\ WalkOK' /\ (status' = "pending" => current' \in new) /\ visited' = visited \cup new
      /\ new \cap visited = {}
  BY <1>3, <1>4 DEF WalkOK, Walked
<1>6. RowsOK'
  <2>1. round' \in Nat
    BY DEF Inv, RequestOK
  <2>2. Filed(tasks, round', visited') /\ new \subseteq visited'
    BY <1>1, <1>5, <2>1, FiledMore
  <2>3. "approved" \in {"approved", "rejected", "returned"}
    OBVIOUS
  <2> QED
    BY <1>1, <1>4, <2>2, <2>3, RowsKept
<1>7. StepOK'
  BY <1>4, <1>5, StepEntered
<1>8. SignaturesOK'
  BY <1>1, <1>4, SignaturesKept
<1>9. ASSUME NEW n \in visited' \ {current'} PROVE Decided(n)'
  <2>1. CASE n \in new
    BY <1>4, <1>9, <2>1, PassedOver
  <2>2. CASE n \in visited /\ n # current
    <3>1. Decided(n) /\ n \notin new
      BY <1>1, <1>5, <2>2, PassedAsDecided
    <3> QED
      BY <1>4, <2>2, <3>1, BehindKept
  <2>3. CASE n = current
    <3>1. n \in Node /\ n \notin new
      BY <1>3, <1>5, <2>3
    <3>2. Settled(n)'
      BY <1>1, <1>4, <2>3, <3>1, CurrentSettled
    <3> QED
      BY <3>1, <3>2, SettledIsDecidedNext
  <2> QED
    BY <1>5, <1>9, <2>1, <2>2, <2>3
<1> QED
  BY <1>5, <1>6, <1>7, <1>8, <1>9, PassedNext DEF Decisions

(* The request is sent, for the first time or again *)
LEMMA SendingOK ==
  ASSUME Inv, Decisions, Sends
  PROVE  Decisions'
<1>1. RowsOK /\ SignaturesOK
  BY DEF Decisions
<1>2. /\ version' \in Version /\ round < round'
      /\ \E new \in SUBSET Node : Walked(tasks, round', version', {}, new) /\ Continues(tasks, new)
  BY <1>1, SendsWalks
<1>3. PICK new \in SUBSET Node : Walked(tasks, round', version', {}, new) /\ Continues(tasks, new)
  BY <1>2
<1>4. /\ WalkOK' /\ (status' = "pending" => current' \in new) /\ visited' = new
  BY <1>2, <1>3 DEF WalkOK, Walked
<1>5. Decides(tasks, {}, "approved", {}, None) /\ {} \in SUBSET Open /\ signed' = signed
  BY DEF Decides, Handed, Sends
<1> DEFINE none == {}
<1>6. /\ Decides(tasks, none, "approved", none, None) /\ none \in SUBSET Open
      /\ signed \subseteq signed' /\ signed' \subseteq signed \cup none /\ none = {}
  BY <1>5
<1> HIDE DEF none
<1>7. RowsOK'
  <2>1. round' \in Nat
    BY DEF Inv, RequestOK, Sends
  <2>2. Filed(tasks, round', visited') /\ new \subseteq visited'
    BY <1>1, <1>2, <1>4, <2>1, FiledMore
  <2> QED
    BY <1>1, <1>3, <1>6, <2>2, RowsKept
<1>8. StepOK'
  BY <1>3, <1>4, StepEntered
<1>9. SignaturesOK'
  BY <1>1, <1>3, <1>6, SignaturesKept
<1>10. ASSUME NEW n \in visited' \ {current'} PROVE Decided(n)'
  BY <1>3, <1>4, <1>10, PassedOver
<1> QED
  BY <1>4, <1>7, <1>8, <1>9, <1>10, PassedNext DEF Decisions

LEMMA ApprovalOK ==
  ASSUME Inv, Decisions, NEW u \in User \cup {None}, NEW ts, NEW A, NEW D, ApprovalStep(ts, A, D, u)
  PROVE  Decisions'
<1>1. /\ status = "pending" /\ A \in SUBSET Open /\ A # {} /\ D \in SUBSET Open
      /\ Table(ts) /\ Decides(ts, A, "approved", D, u)
      /\ InAllStep => \A d \in D : \E a \in A : a.slot = d.slot
      /\ Step[current].requireSignature => u # None
      /\ UNCHANGED <<round, version>>
  BY DEF ApprovalStep, Approves
<1>2. /\ signed \subseteq signed' /\ signed' \subseteq signed \cup A
      /\ Step[current].requireSignature => u # None /\ signed' \cap A # {}
  BY DEF ApprovalStep, Approves
<1>3. CASE InAllStep /\ Stays(ts)
  <2>1. tasks' = ts /\ UNCHANGED <<status, current, visited>>
    BY <1>3 DEF Stays
  <2>2. StepOK'
    BY <1>1, <1>3, <2>1, StepGoesOn DEF Decisions
  <2>3. "approved" \in {"approved", "rejected", "returned"}
    OBVIOUS
  <2> QED
    BY <1>1, <1>2, <2>1, <2>2, <2>3, StayingOK
<1>4. CASE Open \subseteq A \cup D /\ Leaves(ts)
  <2>1. \A d \in D \ A : \E a \in A : InAllStep => a.slot = d.slot
    BY <1>1
  <2> QED
    BY <1>1, <1>2, <1>4, <2>1, LeavingOK
<1> QED
  BY <1>3, <1>4 DEF ApprovalStep

LEMMA DropOK ==
  ASSUME Inv, Decisions, NEW t \in DOMAIN tasks, NEW ts, DropStep(ts, t)
  PROVE  Decisions'
<1> DEFINE A == {}
           D == {t}
<1>1. /\ status = "pending" /\ A \in SUBSET Open /\ A = {} /\ D \in SUBSET Open
      /\ Table(ts) /\ Decides(ts, A, "approved", D, None)
      /\ \A d \in D : d.origin \in Group
      /\ signed \subseteq signed' /\ signed' \subseteq signed \cup A
      /\ UNCHANGED <<round, version>>
      /\ Open = {t} => Open \subseteq A \cup D
  BY DEF DropStep, Drops
<1>2. Stays(ts) \/ (Open = {t} /\ Leaves(ts))
  BY DEF DropStep
<1> HIDE DEF A, D
<1>3. CASE Stays(ts)
  <2>1. tasks' = ts /\ UNCHANGED <<status, current, visited>>
    BY <1>3 DEF Stays
  <2>2. StepOK'
    BY <1>1, <2>1, StepGoesOn DEF Decisions
  <2>3. "approved" \in {"approved", "rejected", "returned"}
    OBVIOUS
  <2> QED
    BY <1>1, <2>1, <2>2, <2>3, StayingOK
<1>4. CASE Open = {t} /\ Leaves(ts)
  BY <1>1, <1>4, LeavingOK
<1> QED
  BY <1>2, <1>3, <1>4

LEMMA StoppingOK ==
  ASSUME Inv, Decisions, NEW A, NEW verdict, NEW D, NEW u, NEW how, Stops(A, verdict, D, u, how)
  PROVE  Decisions'
<1> DEFINE ts == tasks'
<1>1. /\ A \in SUBSET Open /\ D \in SUBSET Open /\ verdict \in {"approved", "rejected", "returned"}
      /\ verdict # "approved" /\ Decides(ts, A, verdict, D, u) /\ tasks' = ts
      /\ status' \in {"rejected", "returned", "cancelled"}
      /\ UNCHANGED <<round, visited, version>>
      /\ signed \subseteq signed' /\ signed' \subseteq signed \cup A
  BY DEF Stops, Finish
<1> HIDE DEF ts
<1> QED
  BY <1>1, StayingOK

LEMMA QuietOK ==
  ASSUME Inv, Decisions, Quiet
  PROVE  Decisions'
<1> DEFINE ts == tasks'
           none == {}
<1>1. /\ none \in SUBSET Open /\ none = {} /\ tasks' = ts
      /\ Decides(ts, none, "approved", none, None)
      /\ signed \subseteq signed' /\ signed' \subseteq signed \cup none
      /\ UNCHANGED <<status, round, current, visited, version>>
  BY DEF Quiet
<1> HIDE DEF ts, none
<1>2. "approved" \in {"approved", "rejected", "returned"}
  OBVIOUS
<1>3. StepOK'
  <2>1. CASE status = "pending"
    BY <1>1, <2>1, StepGoesOn DEF Decisions
  <2>2. CASE status # "pending"
    BY <1>1, <2>2 DEF StepOK
  <2> QED
    BY <2>1, <2>2
<1> QED
  BY <1>1, <1>2, <1>3, StayingOK

LEMMA DecisionsStep ==
  ASSUME DecisionInv, [Next]_vars
  PROVE  Decisions'
<1>1. Inv /\ Decisions /\ RowsOK /\ ScanOK
  BY DEF DecisionInv, Decisions
<1>2. \/ Quiet
      \/ \E u \in User \cup {None} : \E ts, A, D : ApprovalStep(ts, A, D, u)
      \/ \E t \in DOMAIN tasks : \E ts : DropStep(ts, t)
      \/ \E A, verdict, D, u, how : Stops(A, verdict, D, u, how)
      \/ Sends
  BY <1>1, StepKinds
<1> QED
  BY <1>1, <1>2, QuietOK, ApprovalOK, DropOK, StoppingOK, SendingOK

(* The scan decides to approve only where no signature is required *)
LEMMA ScanStep ==
  ASSUME Inv, ScanOK, [Next]_vars
  PROVE  ScanOK'
<1>1. CASE UNCHANGED cron
  BY <1>1 DEF ScanOK, AutoApproves
<1>2. CASE ScanNext
  <2>1. CASE OverdueDecide
    <3>1. cron \in [pc : {"read"}, batch : SUBSET DOMAIN tasks, task : DOMAIN tasks, holder : Principal]
      BY <2>1, TypeParts DEF CronOK, Idle, OverdueDecide, OverdueUnderLock
    <3>2. \/ AutoApproves(cron.task.node) /\ cron' = [cron EXCEPT !.pc = "approve"]
          \/ cron' = [cron EXCEPT !.pc = "reject"]
      BY <2>1 DEF OverdueDecide
    <3>3. \/ AutoApproves(cron.task.node) /\ cron'.task = cron.task
          \/ cron'.pc = "reject"
      BY <3>1, <3>2
    <3> QED
      BY <3>3 DEF ScanOK, AutoApproves
  <2>2. CASE ScanStart \/ OverdueRead \/ OverdueEscalate \/ OverdueRemind \/ OverdueMissed
             \/ OverdueAct \/ OverdueActFails
    <3>1. \A batch : ScanGoesOn(batch) => cron'.pc \in {"idle", "scan"}
      BY DEF ScanGoesOn, Idle
    <3>2. CASE ScanStart
      BY <3>2 DEF ScanStart, Idle, ScanOK
    <3>3. CASE OverdueRead
      BY <3>1, <3>3 DEF OverdueRead, ScanOK
    <3>4. CASE OverdueEscalate \/ OverdueRemind \/ OverdueMissed \/ OverdueAct \/ OverdueActFails
      BY <3>1, <3>4 DEF OverdueEscalate, OverdueRemind, OverdueMissed, OverdueAct, OverdueActFails, ScanOK
    <3> QED
      BY <2>2, <3>2, <3>3, <3>4
  <2> QED
    BY <1>2, <2>1, <2>2 DEF ScanNext
<1>3. CASE RequesterNext
  BY <1>3, <1>1 DEF RequesterNext, Submit, Cancel, EditDraft
<1>4. CASE ApproverNext
  BY <1>4, <1>1 DEF ApproverNext, Approve, Reject, Return
<1>5. CASE ReassignNext \/ RepairNext \/ Tick
  BY <1>5, <1>1 DEF ReassignNext, ReassignRead, ReassignWrite, RepairNext, RepairGroupTask, Tick
<1>6. CASE DirectoryNext
  BY <1>6, <1>1 DEF DirectoryNext, Publish, LockUser, ChangeGroup, Delegate
<1> QED
  BY <1>1, <1>2, <1>3, <1>4, <1>5, <1>6 DEF Next, vars

LEMMA DecisionInvInit == Init => DecisionInv
<1> SUFFICES ASSUME Init PROVE DecisionInv
  OBVIOUS
<1>1. DOMAIN tasks = {} /\ signed = {} /\ status = "draft" /\ visited = {} /\ version = None
  BY DEF Init
<1>2. Decisions
  BY <1>1 DEF Decisions, RowsOK, Filed, WalkOK, StepOK, PassedStepsAreDecided, SignaturesOK,
              SignatureStepsAreSigned
<1>3. ScanOK
  BY DEF Init, ScanOK, Idle
<1> QED
  BY <1>2, <1>3, InvInit DEF DecisionInv

LEMMA DecisionInvStep == DecisionInv /\ [Next]_vars => DecisionInv'
<1> SUFFICES ASSUME DecisionInv, [Next]_vars PROVE DecisionInv'
  OBVIOUS
<1> QED
  BY InvStep, DecisionsStep, ScanStep DEF DecisionInv

LEMMA DecisionInvHolds == Spec => []DecisionInv
BY DecisionInvInit, DecisionInvStep, PTL DEF Spec

(* Passed steps were decided, and nobody approves at a step that requires a *)
(* signature without having signed there.                                   *)
THEOREM StepsPassedRightly == Spec => []StepsArePassedRightly
<1>1. DecisionInv => StepsArePassedRightly
  BY DEF DecisionInv, Decisions, SignaturesOK, StepsArePassedRightly
<1> QED
  BY <1>1, DecisionInvHolds, PTL

-----------------------------------------------------------------------------
(* Verdicts stand                                                           *)

Final == \A t \in DOMAIN tasks :
  tasks[t].status # "pending" =>
    /\ t \in DOMAIN tasks'
    /\ tasks'[t].status = tasks[t].status
    /\ tasks'[t].actedBy = tasks[t].actedBy

OneSlot == \A t, o \in Open :
  /\ InAllStep /\ t.slot # o.slot
  /\ tasks'[t].status = "approved" /\ tasks'[o].status = "approved"
  => \E u \in User : SoleApprover(u, t) \/ SoleApprover(u, o)

(* A decision at the current step touches no closed task, and approves of the *)
(* open ones those it was taken on                                            *)
LEMMA DecisionTouches ==
  ASSUME NEW ts, NEW A \in SUBSET Open, NEW D \in SUBSET Open, NEW how, NEW u,
         Decides(ts, A, how, D, u), NEW new, Continues(ts, new)
  PROVE  /\ Final
         /\ \A t \in Open : tasks'[t].status = "approved" => t \in A /\ how = "approved"
<1>1. \A t \in Open : t \in DOMAIN tasks /\ tasks[t].status = "pending"
  BY DEF Open, RoundTasks
<1>2. Final
  BY <1>1 DEF Final, Decides, Continues
<1>3. ASSUME NEW t \in Open, tasks'[t].status = "approved" PROVE t \in A /\ how = "approved"
  BY <1>1, <1>3 DEF Decides, Continues
<1> QED
  BY <1>2, <1>3

LEMMA NothingNew ==
  ASSUME NEW ts, tasks' = ts
  PROVE  Continues(ts, {})
BY DEF Continues

LEMMA VerdictsStep ==
  ASSUME DecisionInv, [Next]_vars
  PROVE  Final /\ OneSlot
<1>1. Inv /\ RowsOK /\ WalkOK /\ ScanOK
  BY DEF DecisionInv, Decisions
<1>2. CASE Quiet
  <2> DEFINE ts == tasks'
             none == {}
  <2>1. Decides(ts, none, "approved", none, None) /\ none \in SUBSET Open /\ none = {} /\ tasks' = ts
    BY <1>2 DEF Quiet
  <2> HIDE DEF ts, none
  <2>2. Continues(ts, {})
    BY <2>1, NothingNew
  <2> QED
    BY <2>1, <2>2, DecisionTouches DEF OneSlot
<1>3. ASSUME NEW u \in User \cup {None}, NEW ts, NEW A, NEW D, ApprovalStep(ts, A, D, u)
      PROVE  Final /\ OneSlot
  <2>1. /\ status = "pending" /\ A \in SUBSET Open /\ D \in SUBSET Open
        /\ Table(ts) /\ Decides(ts, A, "approved", D, u) /\ round' = round
        /\ InAllStep => \A t, o \in A : t.slot # o.slot =>
             \E w \in User : SoleApprover(w, t) \/ SoleApprover(w, o)
    BY <1>3 DEF ApprovalStep, Approves
  <2>2. Stays(ts) \/ Leaves(ts)
    BY <1>3 DEF ApprovalStep
  <2>3. DOMAIN ts = DOMAIN tasks
    BY <2>1 DEF Decides
  <2>4. PICK new : Continues(ts, new)
    BY <1>1, <2>1, <2>2, <2>3, NothingNew, LeavesWalks DEF Stays
  <2>5. Final /\ \A t \in Open : tasks'[t].status = "approved" => t \in A
    BY <2>1, <2>4, DecisionTouches
  <2> QED
    BY <2>1, <2>5 DEF OneSlot
<1>4. ASSUME NEW t \in DOMAIN tasks, NEW ts, DropStep(ts, t)
      PROVE  Final /\ OneSlot
  <2> DEFINE none == {}
             D == {t}
  <2>1. /\ status = "pending" /\ none \in SUBSET Open /\ none = {} /\ D \in SUBSET Open
        /\ Table(ts) /\ Decides(ts, none, "approved", D, None) /\ round' = round
    BY <1>4 DEF DropStep, Drops
  <2> HIDE DEF none, D
  <2>2. Stays(ts) \/ Leaves(ts)
    BY <1>4 DEF DropStep
  <2>3. DOMAIN ts = DOMAIN tasks
    BY <2>1 DEF Decides
  <2>4. PICK new : Continues(ts, new)
    BY <1>1, <2>1, <2>2, <2>3, NothingNew, LeavesWalks DEF Stays
  <2> QED
    BY <2>1, <2>4, DecisionTouches DEF OneSlot
<1>5. ASSUME NEW A, NEW verdict, NEW D, NEW u, NEW how, Stops(A, verdict, D, u, how)
      PROVE  Final /\ OneSlot
  <2> DEFINE ts == tasks'
  <2>1. /\ A \in SUBSET Open /\ D \in SUBSET Open /\ verdict # "approved"
        /\ Decides(ts, A, verdict, D, u) /\ tasks' = ts
    BY <1>5 DEF Stops
  <2> HIDE DEF ts
  <2>2. PICK new : Continues(ts, new)
    BY <2>1, NothingNew
  <2>3. Final /\ \A t \in Open : tasks'[t].status = "approved" => t \in A /\ verdict = "approved"
    BY <2>1, <2>2, DecisionTouches
  <2> QED
    BY <2>1, <2>3 DEF OneSlot
<1>6. CASE Sends
  <2> DEFINE none == {}
  <2>1. Decides(tasks, none, "approved", none, None) /\ none \in SUBSET Open /\ none = {}
    BY DEF Decides, Handed
  <2> HIDE DEF none
  <2>2. PICK new : Continues(tasks, new)
    BY <1>1, <1>6, SendsWalks
  <2> QED
    BY <2>1, <2>2, DecisionTouches DEF OneSlot
<1>7. \/ Quiet
      \/ \E u \in User \cup {None} : \E ts, A, D : ApprovalStep(ts, A, D, u)
      \/ \E t \in DOMAIN tasks : \E ts : DropStep(ts, t)
      \/ \E A, verdict, D, u, how : Stops(A, verdict, D, u, how)
      \/ Sends
  BY <1>1, StepKinds
<1> QED
  BY <1>2, <1>3, <1>4, <1>5, <1>6, <1>7

(* A decision is final, whatever clicks, scans, repairs, cancellations and  *)
(* resubmissions follow; and one person's click at an "all" step decides    *)
(* beyond its slot only what nobody else could have decided.                *)
THEOREM VerdictsDoStand == Spec => VerdictsStand
<1>1. DecisionInv /\ [Next]_vars => [Final]_vars /\ [OneSlot]_vars
  BY VerdictsStep
<1> QED
  BY <1>1, DecisionInvHolds, PTL DEF Spec, VerdictsStand, VerdictsAreFinal, OneClickOneSlot, Final, OneSlot

-----------------------------------------------------------------------------
(* The engine implements RequestLifecycle                                   *)

LEMMA EndorsedAfter ==
  ASSUME NEW ts, NEW A \in SUBSET Open, NEW D \in SUBSET Open, NEW how, NEW u,
         Decides(ts, A, how, D, u), NEW new, Continues(ts, new), round' = round
  PROVE  Endorsed' <=> Endorsed \/ (how = "approved" /\ A # {})
<1>1. \A t \in Open : t \in RoundTasks /\ tasks[t].status = "pending"
  BY DEF Open
<1>2. ASSUME NEW t \in RoundTasks, tasks[t].status = "approved"
      PROVE  t \in RoundTasks' /\ tasks'[t].status = "approved"
  BY <1>1, <1>2 DEF RoundTasks, Decides, Continues
<1>3. ASSUME NEW t \in A, how = "approved"
      PROVE  t \in RoundTasks' /\ tasks'[t].status = "approved"
  BY <1>1, <1>3 DEF RoundTasks, Decides, Continues
<1>4. ASSUME NEW t \in RoundTasks', tasks'[t].status = "approved"
      PROVE  \/ t \in RoundTasks /\ tasks[t].status = "approved"
             \/ t \in A /\ how = "approved"
  BY <1>1, <1>4 DEF RoundTasks, Decides, Continues, NewRow
<1> QED
  BY <1>2, <1>3, <1>4 DEF Endorsed

LEMMA EndorsedValue ==
  /\ Endorsed => Endorsed = TRUE
  /\ ~Endorsed => Endorsed = FALSE
  /\ Endorsed' => Endorsed' = TRUE
  /\ ~Endorsed' => Endorsed' = FALSE
BY DEF Endorsed

(* Walking on from a step, or from the start, is MoveOn *)
LEMMA WalkIsMoveOn ==
  ASSUME NEW ts, NEW seen \in SUBSET Node, NEW new \in SUBSET Node, NEW r, NEW v,
         Walked(ts, r, v, seen, new), None \notin Node
  PROVE  Lifecycle!MoveOn(seen)
<1>1. /\ visited' = seen \cup new /\ new \cap seen = {}
      /\ \/ status' = "approved" /\ current' = None
         \/ status' = "pending" /\ current' \in new
  BY DEF Walked
<1> DEFINE S == visited' \ {current'}
<1>2. S \in SUBSET Node /\ seen \subseteq S
  BY <1>1
<1>3. \/ status' = "pending" /\ current' \in Node \ S
      \/ status' = "approved" /\ current' = None
  BY <1>1
<1> QED
  BY <1>2, <1>3 DEF Lifecycle!MoveOn

LEMMA LifecycleStays ==
  ASSUME UNCHANGED <<status, round, current, visited, version>>, Endorsed' <=> Endorsed
  PROVE  UNCHANGED Lifecycle!vars
<1>1. Endorsed' = Endorsed
  BY EndorsedValue
<1> QED
  BY <1>1 DEF Lifecycle!vars

LEMMA ApprovalLives ==
  ASSUME DecisionInv, NEW u \in User \cup {None}, NEW ts, NEW A, NEW D, ApprovalStep(ts, A, D, u)
  PROVE  Lifecycle!Endorse \/ Lifecycle!Proceed
<1>1. Inv /\ RowsOK /\ WalkOK
  BY DEF DecisionInv, Decisions
<1>2. /\ status = "pending" /\ A \in SUBSET Open /\ A # {} /\ D \in SUBSET Open
      /\ Table(ts) /\ Decides(ts, A, "approved", D, u) /\ UNCHANGED <<round, version>>
  BY DEF ApprovalStep, Approves
<1>3. DOMAIN ts = DOMAIN tasks
  BY <1>2 DEF Decides
<1>4. CASE Stays(ts)
  <2>1. tasks' = ts /\ UNCHANGED <<status, current, visited>>
    BY <1>4 DEF Stays
  <2>2. PICK new : Continues(ts, new)
    BY <2>1, NothingNew
  <2>3. Endorsed' = TRUE
    BY <1>2, <2>2, EndorsedAfter, EndorsedValue
  <2> QED
    BY <1>2, <2>1, <2>3 DEF Lifecycle!Endorse
<1>5. CASE Leaves(ts)
  <2>1. PICK new \in SUBSET Node : Walked(ts, round, version, visited, new) /\ Continues(ts, new)
    BY <1>1, <1>2, <1>3, <1>5, LeavesWalks
  <2>2. visited \in SUBSET Node /\ visited = (visited \ {current}) \cup {current}
    BY <1>1, <1>2 DEF Inv, RequestOK, WalkOK
  <2>3. Lifecycle!MoveOn(visited)
    BY <2>1, <2>2, WalkIsMoveOn, ConstantsAssumption
  <2>4. Endorsed' = TRUE
    BY <1>2, <2>1, EndorsedAfter, EndorsedValue
  <2> QED
    BY <1>2, <2>2, <2>3, <2>4 DEF Lifecycle!Proceed
<1> QED
  BY <1>4, <1>5 DEF ApprovalStep

LEMMA DropLives ==
  ASSUME DecisionInv, NEW t \in DOMAIN tasks, NEW ts, DropStep(ts, t)
  PROVE  Lifecycle!Proceed \/ UNCHANGED Lifecycle!vars
<1> DEFINE none == {}
           D == {t}
<1>1. Inv /\ RowsOK /\ WalkOK
  BY DEF DecisionInv, Decisions
<1>2. /\ status = "pending" /\ none \in SUBSET Open /\ none = {} /\ D \in SUBSET Open
      /\ Table(ts) /\ Decides(ts, none, "approved", D, None) /\ UNCHANGED <<round, version>>
  BY DEF DropStep, Drops
<1> HIDE DEF none, D
<1>3. DOMAIN ts = DOMAIN tasks
  BY <1>2 DEF Decides
<1>4. CASE Stays(ts)
  <2>1. tasks' = ts /\ UNCHANGED <<status, current, visited>>
    BY <1>4 DEF Stays
  <2>2. PICK new : Continues(ts, new)
    BY <2>1, NothingNew
  <2>3. Endorsed' <=> Endorsed
    BY <1>2, <2>2, EndorsedAfter
  <2> QED
    BY <1>2, <2>1, <2>3, LifecycleStays
<1>5. CASE Leaves(ts)
  <2>1. PICK new \in SUBSET Node : Walked(ts, round, version, visited, new) /\ Continues(ts, new)
    BY <1>1, <1>2, <1>3, <1>5, LeavesWalks
  <2>2. visited \in SUBSET Node /\ visited = (visited \ {current}) \cup {current}
    BY <1>1, <1>2 DEF Inv, RequestOK, WalkOK
  <2>3. Lifecycle!MoveOn(visited)
    BY <2>1, <2>2, WalkIsMoveOn, ConstantsAssumption
  <2>4. Endorsed' = Endorsed
    BY <1>2, <2>1, EndorsedAfter, EndorsedValue
  <2> QED
    BY <1>2, <2>2, <2>3, <2>4 DEF Lifecycle!Proceed
<1> QED
  BY <1>4, <1>5 DEF DropStep

LEMMA StopLives ==
  ASSUME DecisionInv, NEW A, NEW verdict, NEW D, NEW u, NEW how, Stops(A, verdict, D, u, how)
  PROVE  Lifecycle!Cancel \/ \E h \in {"rejected", "returned"} : Lifecycle!Stop(h)
<1> DEFINE ts == tasks'
<1>1. /\ A \in SUBSET Open /\ D \in SUBSET Open /\ verdict # "approved"
      /\ Decides(ts, A, verdict, D, u) /\ tasks' = ts
      /\ status' = how /\ current' = None
      /\ \/ status = "pending" /\ how \in {"rejected", "returned"}
         \/ /\ status \in {"draft", "returned", "pending"} /\ how = "cancelled"
            /\ status = "pending" => \A t \in RoundTasks : tasks[t].status # "approved"
      /\ UNCHANGED <<round, visited, version>>
  BY DEF Stops, Finish
<1> HIDE DEF ts
<1>2. PICK new : Continues(ts, new)
  BY <1>1, NothingNew
<1>3. Endorsed' = Endorsed
  BY <1>1, <1>2, EndorsedAfter, EndorsedValue
<1>4. /\ None \notin visited
      /\ status = "pending" => current \in visited
      /\ status # "pending" => current = None
  BY ConstantsAssumption DEF DecisionInv, Decisions, Inv, RequestOK, WalkOK, WaitsForAnOpenTask
<1>5. visited' \ {current'} = IF status = "pending" THEN (visited \ {current}) \cup {current}
                              ELSE visited \ {current}
  BY <1>1, <1>4
<1>6. CASE status = "pending" /\ how \in {"rejected", "returned"}
  BY <1>1, <1>3, <1>5, <1>6 DEF Lifecycle!Stop
<1>7. CASE /\ status \in {"draft", "returned", "pending"} /\ how = "cancelled"
           /\ status = "pending" => \A t \in RoundTasks : tasks[t].status # "approved"
  <2>1. status \in {"draft", "returned"} \/ (status = "pending" /\ ~Endorsed)
    BY <1>7 DEF Endorsed
  <2> QED
    BY <1>1, <1>3, <1>5, <1>7, <2>1 DEF Lifecycle!Cancel
<1> QED
  BY <1>1, <1>6, <1>7

LEMMA SendLives ==
  ASSUME DecisionInv, Sends
  PROVE  Lifecycle!Submit
<1>1. Inv /\ RowsOK /\ WalkOK
  BY DEF DecisionInv, Decisions
<1>2. PICK new \in SUBSET Node : Walked(tasks, round', version', {}, new) /\ Continues(tasks, new)
  BY <1>1, SendsWalks
<1>3. Lifecycle!MoveOn({})
  <2> DEFINE r == round'
             v == version'
             none == {}
  <2>1. Walked(tasks, r, v, none, new) /\ none \in SUBSET Node
    BY <1>2
  <2> HIDE DEF r, v, none
  <2>2. Lifecycle!MoveOn(none)
    BY <2>1, WalkIsMoveOn, ConstantsAssumption
  <2> QED
    BY <2>2 DEF none
<1>4. /\ version' \in Version /\ (version # None => version' = version)
      /\ status \in {"draft", "returned"} /\ round < MaxRound /\ round' = round + 1
  <2>1. version' \in Version
    BY <1>1, SendsWalks
  <2> QED
    BY <1>1, <2>1 DEF Sends, WalkOK
<1>5. Endorsed' = FALSE
  <2>1. \A t \in DOMAIN tasks : t.round \in Nat /\ t.round <= round
    BY <1>1 DEF RowsOK, Filed, Inv, RequestOK, Table, TaskId
  <2>2. \A t \in DOMAIN tasks : t.round # round'
    BY <1>1, <1>4, <2>1 DEF Inv, RequestOK
  <2>3. \A t \in RoundTasks' : tasks'[t].status # "approved"
    BY <1>2, <2>2 DEF RoundTasks, Continues, NewRow
  <2> QED
    BY <2>3, EndorsedValue DEF Endorsed
<1> QED
  BY <1>3, <1>4, <1>5 DEF Lifecycle!Submit

LEMMA LifecycleStep ==
  ASSUME DecisionInv, [Next]_vars
  PROVE  [Lifecycle!Next]_(Lifecycle!vars)
<1>1. Inv /\ RowsOK /\ ScanOK
  BY DEF DecisionInv, Decisions
<1>2. CASE Quiet
  <2> DEFINE ts == tasks'
             none == {}
  <2>1. /\ Decides(ts, none, "approved", none, None) /\ none \in SUBSET Open /\ none = {} /\ tasks' = ts
        /\ UNCHANGED <<status, round, current, visited, version>>
    BY <1>2 DEF Quiet
  <2> HIDE DEF ts, none
  <2>2. PICK new : Continues(ts, new)
    BY <2>1, NothingNew
  <2>3. Endorsed' <=> Endorsed
    BY <2>1, <2>2, EndorsedAfter
  <2> QED
    BY <2>1, <2>3, LifecycleStays
<1>3. \/ Quiet
      \/ \E u \in User \cup {None} : \E ts, A, D : ApprovalStep(ts, A, D, u)
      \/ \E t \in DOMAIN tasks : \E ts : DropStep(ts, t)
      \/ \E A, verdict, D, u, how : Stops(A, verdict, D, u, how)
      \/ Sends
  BY <1>1, StepKinds
<1> QED
  BY <1>2, <1>3, ApprovalLives, DropLives, StopLives, SendLives DEF Lifecycle!Next

LEMMA LifecycleInit == Init => Lifecycle!Init
<1> SUFFICES ASSUME Init PROVE Lifecycle!Init
  OBVIOUS
<1>1. Endorsed = FALSE
  BY EndorsedValue DEF Init, Endorsed, RoundTasks
<1>2. status = "draft" /\ round = 0 /\ current = None /\ visited \ {current} = {} /\ version = None
  BY DEF Init
<1> QED
  BY <1>1, <1>2 DEF Lifecycle!Init

(* The engine implements the life it promises the requester: whatever       *)
(* approvers, administrators and the scan do, the request meets no step     *)
(* twice in a round, keeps the version it was first sent with, starts a     *)
(* round only when it is sent, cannot be given up over an approval, and an  *)
(* approved, rejected or cancelled request never changes again.             *)
THEOREM EngineImplementsLifecycle == Spec => RequestLivesAsPromised
BY LifecycleInit, LifecycleStep, DecisionInvHolds, PTL
   DEF Spec, RequestLivesAsPromised, Lifecycle!Spec
=============================================================================
