-------------------------- MODULE MCApprovalEngine --------------------------
(* Small instances of the approval engine for TLC.                          *)
EXTENDS RequestPreview

CONSTANTS req, ann, bob, team, n1, n2, s1, s2, v1, v2, p1, p2

Base ==
  [mode |-> "single", approvers |-> [s \in {} |-> s], onOverdue |-> "remind",
   timed |-> FALSE, requireSignature |-> FALSE, allowReturn |-> FALSE,
   skipIfRequester |-> FALSE, skipIfNoApprover |-> FALSE,
   allowDelegation |-> FALSE, assign |-> FALSE]

People(S) == [group |-> None, users |-> S]
OfGroup(x) == [group |-> x, users |-> {}]

Line == [v \in Version |-> [p \in Payload |->
           [x \in Place |-> IF x = Start THEN n1 ELSE IF x = n1 THEN n2 ELSE End]]]

NoEscalation == [u \in User |-> {}]

(* A notice to the next approvers after the start, one to everybody before    *)
(* after n1; returns of n1 are told to those who approved, those of n2 to the *)
(* requester                                                                  *)
ToNext == [requester |-> FALSE, next |-> TRUE, previous |-> FALSE]
ToAll == [requester |-> TRUE, next |-> TRUE, previous |-> TRUE]
Notices == [x \in Place |-> IF x = Start THEN {ToNext} ELSE IF x = n1 THEN {ToAll} ELSE {}]
StopRules == [x \in Node |-> IF x = n1 THEN {[ToAll EXCEPT !.requester = FALSE]} ELSE None]

(* engine_parallel: a parallel step over a group and a person, then a signed *)
(* step given to a head and a deputy                                         *)
ParallelSteps == [n \in Node |->
  IF n = n1 THEN [Base EXCEPT !.mode = "all", !.skipIfRequester = TRUE, !.allowDelegation = TRUE,
                    !.approvers = [s \in {s1, s2} |-> IF s = s1 THEN OfGroup(team) ELSE People({bob})]]
  ELSE [Base EXCEPT !.requireSignature = TRUE, !.allowReturn = TRUE, !.skipIfNoApprover = TRUE,
          !.timed = TRUE, !.onOverdue = "autoApprove",
          !.approvers = [s \in {s1} |-> People({ann, bob})]]]
ParallelDelegation == {[from |-> bob, to |-> ann, mode |-> "window"],
                       [from |-> bob, to |-> ann, mode |-> "handover"]}
ParallelMembership == { [x \in Group |-> m] : m \in {{ann, bob}, {req, ann}} }

(* engine_rounds: two versions and two payloads, a step returned and sent again, *)
(* a reassignment, an escalation and an automatic approval racing the approvers   *)
Branches == [v \in Version |-> [p \in Payload |->
  [x \in Place |-> IF x = Start THEN (IF v = v2 THEN n2 ELSE n1)
                   ELSE IF x = n1 /\ p = p1 THEN n2 ELSE End]]]
RoundSteps == [n \in Node |->
  IF n = n1 THEN [Base EXCEPT !.allowReturn = TRUE, !.timed = TRUE, !.onOverdue = "escalate",
                    !.approvers = [s \in {s1} |-> People({bob})]]
  ELSE [Base EXCEPT !.mode = "any", !.assign = TRUE, !.skipIfNoApprover = TRUE, !.allowDelegation = TRUE,
          !.skipIfRequester = TRUE, !.timed = TRUE, !.onOverdue = "autoApprove",
          !.approvers = [s \in {s1, s2} |-> IF s = s1 THEN OfGroup(team) ELSE People({req})]]]
RoundMembership == { [x \in Group |-> {ann}] }
RoundEscalation == [u \in User |-> IF u = bob THEN {ann} ELSE {}]

(* engine_head_or_deputy: ann holds one slot and, with bob, a second one *)
HeadSteps == [n \in Node |->
  [Base EXCEPT !.mode = "all",
     !.approvers = [s \in {s1, s2} |-> IF s = s1 THEN People({ann}) ELSE People({ann, bob})]]]
=============================================================================
