----------------------------- MODULE RequestViews -----------------------------
(***************************************************************************)
(* What people are shown of a request.  The inbox finds their tasks with a  *)
(* query (inbox-filter.ts), the page of a request works out from the rows   *)
(* it loaded what they may do (getRequestDetail), and what they click is    *)
(* decided once more by the engine, which knows nothing of either.          *)
(***************************************************************************)
EXTENDS ApprovalEngine

-----------------------------------------------------------------------------
(* The inbox                                                                *)

(* memberGroupPrincipalIds, of locked members too                           *)
MemberOf(u) == { g \in Group : u \in members[g] }

(* actionableTaskFilter: tasks one holds, of one's groups, and of those one  *)
(* stands in for, except on one's own request                                *)
Actionable(u) ==
  { t \in DOMAIN tasks :
      \/ Holds(t, u)
      \/ tasks[t].approver \in MemberOf(u)
      \/ /\ u # Requester
         /\ \/ \E d \in Delegation : /\ d.to = u /\ d.mode = "window" /\ delegation[d] = "active"
                                     /\ tasks[t].approver = d.from /\ Step[t.node].allowDelegation
            \/ \E d \in tasks[t].handovers : d.to = u /\ delegation[d] # "deleted" }

(* pendingTaskWhere *)
ToDo(u) == { t \in Actionable(u) : tasks[t].status = "pending" }

(* buildInboxWhere *)
Inbox(u, tab) ==
  CASE tab = "pending" -> ToDo(u)
    [] tab = "done"    -> { t \in DOMAIN tasks : tasks[t].actedBy = u /\ tasks[t].status # "pending" }
    [] tab = "all"     -> ToDo(u) \cup { t \in DOMAIN tasks : Holds(t, u) \/ tasks[t].actedBy = u }

(* getInbox: a row names whom one stands in for, nobody when the task is     *)
(* one's own or a group's                                                    *)
onBehalfOf(u, t) == IF IsGroupTask(t) \/ Holds(t, u) THEN None ELSE tasks[t].approver

-----------------------------------------------------------------------------
(* The page of a request                                                    *)

(* canActOnTask; resolveTaskDelegates knows delegates of pending tasks only  *)
MayAct(u, t) ==
  IF IsGroupTask(t) THEN u \in members[tasks[t].approver]
  ELSE Holds(t, u) \/ (tasks[t].status = "pending" /\ u \in Delegates(t))

(* isRequestParticipant *)
TakesPart(u, S) ==
  \E t \in S : u \in {tasks[t].approver, t.origin, tasks[t].actedBy} \/ MayAct(u, t)

(* assertCanView, of a request not shared with anybody                       *)
CanView(u) == u = Requester \/ TakesPart(u, DOMAIN tasks)

(* canShareRequest *)
CanShare(u) ==
  /\ status # "draft"
  /\ u = Requester \/ (status \notin {"returned", "rejected"} /\ TakesPart(u, RoundTasks))

(* The task the page is about: one's own, else a group's, else any           *)
Offered(u) ==
  { t \in RoundTasks : status = "pending" /\ tasks[t].status = "pending" /\ t.node = current /\ MayAct(u, t) }
MyTasks(u) ==
  LET own == { t \in Offered(u) : Holds(t, u) }
      shared == { t \in Offered(u) : IsGroupTask(t) }
  IN  IF own # {} THEN own ELSE IF shared # {} THEN shared ELSE Offered(u)

(* The tasks it lists, in all rounds, with those who may act for the holder   *)
TaskRow(t) ==
  [status |-> tasks[t].status, round |-> t.round, approver |-> tasks[t].approver, origin |-> t.origin,
   actedBy |-> tasks[t].actedBy, delegates |-> IF tasks[t].status = "pending" THEN Delegates(t) ELSE {}]
getRequestDetail(u) == IF CanView(u) THEN [t \in DOMAIN tasks |-> TaskRow(t)] ELSE None

Permissions(u) ==
  LET editable == u = Requester /\ status \in {"draft", "returned"}
      approved == \E t \in RoundTasks : tasks[t].status = "approved"
  IN  [canEdit    |-> editable,
       canSubmit  |-> editable,
       canCancel  |-> u = Requester /\ (editable \/ (status = "pending" /\ ~approved)),
       canComment |-> status # "draft" /\ CanView(u),
       canShare   |-> CanShare(u),
       canApprove |-> MyTasks(u) # {},
       canReturn  |-> MyTasks(u) # {} /\ Step[current].allowReturn]

-----------------------------------------------------------------------------
(* The query of the inbox, the rights the page works out and the check of the  *)
(* engine agree at all times on which tasks are whose, though the query looks  *)
(* at no round and at no step, and at the status of no request; and every      *)
(* request listed in any tab of an inbox opens, and its tasks can be shared    *)
(* and discussed by those who have something to do there.  Whoever opens the   *)
(* page reads the same stand-ins of a task as have it in their inboxes.        *)
InboxIsWhatOneMayDo ==
  LET toDo == [u \in User |-> ToDo(u)]
      page == getRequestDetail(Requester)
  IN  /\ \A u \in User :
           /\ toDo[u] = Offered(u)
           /\ toDo[u] = (IF status = "pending" THEN Eligible(u) ELSE {})
           /\ toDo[u] # {} => Permissions(u).canComment /\ Permissions(u).canShare
           /\ (toDo[u] # {} \/ \E tab \in {"done", "all"} : Inbox(u, tab) # {}) => CanView(u)
      /\ \A t \in DOMAIN page :
           page[t].delegates = { u \in User : t \in toDo[u] /\ onBehalfOf(u, t) # None }

DecidedBy(u) == { t \in DOMAIN tasks : tasks[t].status = "pending" /\ tasks'[t].actedBy = u }

(* Whatever the requester and the approvers bring about, the page offered it to *)
(* them before: nobody decides, returns, sends or cancels what the page shows   *)
(* as not theirs, and the task the page is about is among those a click decides. *)
PageOffersWhatIsDone ==
  [][/\ status' = "cancelled" /\ status # "cancelled" => Permissions(Requester).canCancel
     /\ round' # round => Permissions(Requester).canSubmit
     /\ \A u \in User :
          DecidedBy(u) # {} =>
            /\ Permissions(u).canApprove
            /\ DecidedBy(u) \cap MyTasks(u) # {}
            /\ status' = "returned" => Permissions(u).canReturn]_vars
=============================================================================
