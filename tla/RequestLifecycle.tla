-------------------------- MODULE RequestLifecycle --------------------------
(***************************************************************************)
(* What the approval engine promises the requester: the life of a request, *)
(* without tasks, approvers, deadlines or configuration.  ApprovalEngine   *)
(* implements it.                                                          *)
(***************************************************************************)
EXTENDS Naturals

CONSTANTS Node, Version, None, MaxRound

VARIABLES
  phase,     \* the request's status
  turn,      \* how many times it was submitted
  step,      \* the step it waits at, or None
  settled,   \* steps of this round it met and waits at no more
  plan,      \* the version of the workflow it follows
  endorsed   \* somebody approved in this round

vars == <<phase, turn, step, settled, plan, endorsed>>

Final == {"approved", "rejected", "cancelled"}

Init ==
  /\ phase = "draft" /\ turn = 0 /\ step = None
  /\ settled = {} /\ plan = None /\ endorsed = FALSE

(* Beyond the steps left behind, the request waits at one it has not met in *)
(* this round, or it is approved                                            *)
MoveOn(behind) ==
  \E S \in SUBSET Node :
    /\ behind \subseteq S /\ settled' = S
    /\ \/ phase' = "pending" /\ step' \in Node \ S
       \/ phase' = "approved" /\ step' = None

(* The first submission chooses the version, later ones follow the same *)
Submit ==
  /\ phase \in {"draft", "returned"} /\ turn < MaxRound
  /\ turn' = turn + 1 /\ endorsed' = FALSE
  /\ plan' \in Version /\ (plan # None => plan' = plan)
  /\ MoveOn({})

(* An approval that leaves others to be asked at the step *)
Endorse ==
  /\ phase = "pending"
  /\ endorsed' = TRUE
  /\ UNCHANGED <<phase, turn, step, settled, plan>>

(* The step is done, by an approval or because its last group is gone *)
Proceed ==
  /\ phase = "pending"
  /\ MoveOn(settled \cup {step})
  /\ endorsed' \in {endorsed, TRUE}
  /\ UNCHANGED <<turn, plan>>

Stop(how) ==
  /\ phase = "pending"
  /\ phase' = how /\ step' = None
  /\ settled' = settled \cup {step}
  /\ UNCHANGED <<turn, plan, endorsed>>

(* The requester may give up, but not over an approval already given *)
Cancel ==
  /\ phase \in {"draft", "returned"} \/ (phase = "pending" /\ ~endorsed)
  /\ phase' = "cancelled" /\ step' = None
  /\ settled' = IF phase = "pending" THEN settled \cup {step} ELSE settled
  /\ UNCHANGED <<turn, plan, endorsed>>

Next ==
  \/ Submit \/ Endorse \/ Proceed \/ Cancel
  \/ \E how \in {"rejected", "returned"} : Stop(how)

Spec == Init /\ [][Next]_vars
=============================================================================
