----------------------------- MODULE RequestNews -----------------------------
(***************************************************************************)
(* The notices that go out when a request arrives somewhere or is stopped  *)
(* (notify, flushNotifies, stepEventNotify, ruleRecipients): whom they      *)
(* reach, beside who has something to do.                                   *)
(***************************************************************************)
EXTENDS RequestViews

CONSTANTS
  Notice,   \* Notice[x]: the rules of the notify nodes passed right after place x
  StopRule  \* StopRule[n]: the step's rule for returns and rejections, {} when off, or None

Rule == [requester : BOOLEAN, next : BOOLEAN, previous : BOOLEAN]
ASSUME RulesAssumption ==
  /\ Notice \in [Place -> SUBSET Rule]
  /\ StopRule \in [Node -> SUBSET Rule \cup {None}]

-----------------------------------------------------------------------------
(* The notices                                                              *)

(* The request arrives somewhere: sent, or moved on from its current step     *)
Arrives ==
  \/ round' # round
  \/ status = "pending" /\ (status' = "approved" \/ (status' = "pending" /\ current' # current))
CameFrom == IF round' # round THEN Start ELSE current
NewlyOpen == { t \in DOMAIN tasks' \ DOMAIN tasks : t.slot # None }

(* Whoever did it hears nothing of it; the system is nobody                   *)
Doer ==
  IF round' # round THEN {Requester}
  ELSE { tasks'[t].actedBy : t \in { o \in DOMAIN tasks : tasks[o].status = "pending" } } \ {None}

Notify(people) == people \ Doer

Holders == { tasks'[t].approver : t \in NewlyOpen } \cap User
GroupsTold == UNION { GroupMembers(g) : g \in { tasks'[t].approver : t \in NewlyOpen } \cap Group }

StandInsByMode(n, modes) ==
  IF Step[n].allowDelegation
  THEN { d.to : d \in { e \in Delegation : /\ e.from \in Holders /\ e.to # Requester
                                           /\ e.mode \in modes /\ delegation[e] = "active" } } \ Holders
  ELSE {}
StandInsInWindows(n) == StandInsByMode(n, {"window"})

(* activeDelegationsFrom, windows and handovers                              *)
StandIns(n) == StandInsByMode(n, {"window", "handover"})

(* ruleRecipients: those who approved in this round, or held what the system   *)
(* approved for them                                                          *)
PreviousApprovers ==
  LET approved == { t \in DOMAIN tasks' : t.round = round' /\ tasks'[t].status = "approved" }
  IN  { IF tasks'[t].actedBy # None THEN tasks'[t].actedBy ELSE tasks'[t].approver : t \in approved }
        \cap User
RuleRecipients(rule, next) ==
  (IF rule.requester THEN {Requester} ELSE {})
    \cup (IF rule.next THEN next ELSE {})
    \cup (IF rule.previous THEN PreviousApprovers ELSE {})

(* flushNotifies, then the notice to the approvers or that of the approval     *)
SeenBefore == IF round' # round THEN {} ELSE visited
Passed == (visited' \ SeenBefore) \ {current'}
PassedPlaces == {CameFrom} \cup Passed
Noticed(next) == UNION { RuleRecipients(rule, next) : rule \in UNION { Notice[x] : x \in PassedPlaces } }
ToldOnArrival ==
  Notify(IF status' = "approved" THEN Noticed({}) \cup {Requester}
         ELSE Noticed(Holders \cup GroupsTold) \cup Holders \cup StandIns(current') \cup GroupsTold)

(* stepEventNotify: the requester hears of it unless the step says otherwise   *)
ToldOfStop ==
  Notify(IF StopRule[current] = None THEN {Requester}
         ELSE UNION { RuleRecipients(rule, {}) : rule \in StopRule[current] })

-----------------------------------------------------------------------------
(* The news of a request reaches everybody who now has something to do there,   *)
(* stand-ins included, and nobody who could not open the request it is about.   *)
CanViewNext(u) == u = Requester \/ (TakesPart(u, DOMAIN tasks))'
NewsReachesThoseConcerned ==
  [][/\ Arrives => /\ \A u \in ToldOnArrival : CanViewNext(u)
                   /\ status' = "pending" =>
                        \A u \in active : (Eligible(u) # {})' => u \in ToldOnArrival \cup Doer
     /\ status = "pending" /\ status' \in {"rejected", "returned"} =>
          \A u \in ToldOfStop : CanViewNext(u)]_vars

(* All views of a request agree: the inbox, the page, the check of a click and  *)
(* the news that goes out.                                                      *)
PeopleSeeWhatIsTheirs ==
  []InboxIsWhatOneMayDo /\ PageOffersWhatIsDone /\ NewsReachesThoseConcerned
=============================================================================
