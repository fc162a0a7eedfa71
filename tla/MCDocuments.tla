----------------------------- MODULE MCDocuments -----------------------------
(* Small instances for TLC of the two components with deadlines: the        *)
(* documents of requests and, beside them, the approval engine.  A behaviour *)
(* is of one of them; the other stays where it started.                      *)
EXTENDS Documents, TLC

CONSTANTS
  r1, r2, d1, e1, cron, event,                                   \* documents
  req, ann, team, n1, n2, n3, s1, s2, v1, p1, p2, begin, end     \* engine

VARIABLES
  part,
  eStatus, eRound, eCurrent, eVisited, eVersion, ePayload, eTasks, eSigned,
  ePublished, eActive, eMembers, eDelegation, eAdmin, eCron

engineVars == <<eStatus, eRound, eCurrent, eVisited, eVersion, ePayload, eTasks, eSigned,
                ePublished, eActive, eMembers, eDelegation, eAdmin, eCron>>

(* Documents: a signature step in the first round, none in the second        *)
Steps == [n \in 1..MaxRound |-> IF n = 1 THEN 1 ELSE 0]

(* Engine: an "all" step the system approves when it is late, then a step it *)
(* rejects; on the other branch a step without a deadline for a group that   *)
(* may lose its only member                                                  *)
Base ==
  [mode |-> "single", approvers |-> [s \in {} |-> s], onOverdue |-> "remind",
   timed |-> FALSE, requireSignature |-> FALSE, allowReturn |-> FALSE,
   skipIfRequester |-> FALSE, skipIfNoApprover |-> FALSE,
   allowDelegation |-> FALSE, assign |-> FALSE]
Ann == [group |-> None, users |-> {ann}]
GroupAndAnn == [s \in {s1, s2} |-> IF s = s1 THEN [group |-> team, users |-> {}] ELSE Ann]

LiveWalk == (v1 :> [p \in {p1, p2} |->
  [x \in {n1, n2, n3, begin, end} |->
     IF x = begin THEN (IF p = p1 THEN n1 ELSE n3) ELSE IF x = n1 THEN n2 ELSE end]])
LiveSteps ==
  (n1 :> [Base EXCEPT !.mode = "all", !.timed = TRUE, !.onOverdue = "autoApprove", !.approvers = GroupAndAnn])
  @@ (n2 :> [Base EXCEPT !.timed = TRUE, !.onOverdue = "autoReject", !.approvers = (s1 :> Ann)])
  @@ (n3 :> [Base EXCEPT !.mode = "all", !.approvers = GroupAndAnn])

Engine == INSTANCE ApprovalEngine WITH
  User <- {req, ann}, Group <- {team}, Requester <- req, Node <- {n1, n2, n3}, Start <- begin, End <- end,
  Slot <- {s1, s2}, Version <- {v1}, Payload <- {p1, p2}, Walk <- LiveWalk, Step <- LiveSteps,
  EscalateTo <- [u \in {req, ann} |-> {}], DeputyEscalateTo <- [u \in {req, ann} |-> {}],
  Delegation <- {}, MaxEscalations <- 2, MaxRound <- 1, Lockable <- {ann}, Movable <- {ann},
  ReassignTo <- {}, Membership <- {[g \in {team} |-> {ann}]},
  status <- eStatus, round <- eRound, current <- eCurrent, visited <- eVisited, version <- eVersion,
  payload <- ePayload, tasks <- eTasks, signed <- eSigned, published <- ePublished, active <- eActive,
  members <- eMembers, delegation <- eDelegation, admin <- eAdmin, cron <- eCron

-----------------------------------------------------------------------------
liveVars == <<part, vars, engineVars>>

InitLive ==
  /\ part \in {"documents", "engine"}
  /\ Init /\ Engine!Init
  /\ part = "documents" => ePayload = p1

InDocuments(A) == part = "documents" /\ A /\ UNCHANGED <<part, engineVars>>
InEngine(A) == part = "engine" /\ A /\ UNCHANGED <<part, vars>>

NextLive == InDocuments(Next) \/ InEngine(Engine!Next)

(* The fairness of Documents and of ApprovalEngine                           *)
FairLive ==
  /\ \A w \in Worker : WF_liveVars(InDocuments(Scan(w))) /\ WF_liveVars(InDocuments(Work(w)))
  /\ \A id \in LiveId : WF_liveVars(InDocuments(FallDue(id)))
                        /\ WF_liveVars(InDocuments(LockExpires(<<id, None>>)))
  /\ WF_liveVars(InEngine(Engine!Tick))
  /\ WF_liveVars(InEngine(Engine!ScanNext))
  /\ WF_liveVars(InEngine(Engine!RepairNext))

SpecLive == InitLive /\ [][NextLive]_liveVars /\ FairLive

(* The engine's: a late step is decided, however the scan is interrupted ... *)
OverdueIsDecided == Engine!OverdueIsDecided
(* ... and the task of a group without members goes away                     *)
EmptyGroupIsDropped == Engine!EmptyGroupIsDropped
=============================================================================
