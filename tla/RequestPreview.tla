---------------------------- MODULE RequestPreview ----------------------------
(***************************************************************************)
(* What people are told beforehand about the way of a request: the preview *)
(* shown before it is sent (simulate, previewForRequest, previewApprovers), *)
(* which walks the whole workflow with code of its own.                     *)
(***************************************************************************)
EXTENDS RequestNews

-----------------------------------------------------------------------------
(* The preview                                                              *)

(* resolveSlots: the same people as when the request arrives, but the         *)
(* requester is taken out of the step as a whole and not slot by slot          *)
SlotPreview(n, s) ==
  IF IsGroupSlot(n, s) THEN GroupMembers(GroupOf(n, s)) ELSE Step[n].approvers[s].users \cap active

BlockedInPreview(n) ==
  /\ ~Step[n].skipIfNoApprover
  /\ Slots(n) = {} \/ \E s \in Slots(n) : SlotPreview(n, s) = {}

Resolved(n) == IF BlockedInPreview(n) THEN {} ELSE UNION { SlotPreview(n, s) : s \in Slots(n) }
EffectiveForAll(n) == Resolved(n)
Effective(n) == IF Step[n].skipIfRequester THEN Resolved(n) \ {Requester} ELSE Resolved(n)

(* previewApprovers: a group stays a group, people are listed one by one     *)
PreviewApprovers(n) ==
  UNION { LET asked == SlotPreview(n, s) \cap Effective(n)
          IN  IF IsGroupSlot(n, s) /\ asked # {} THEN {GroupOf(n, s)} ELSE asked
          : s \in Slots(n) }

(* simulate: the places behind one, up to the end; its guard allows a round   *)
(* for every node                                                             *)
PlacesBehind(v, from) ==
  LET place[k \in 0..Cardinality(Place)] ==
        IF k = 0 THEN from
        ELSE IF place[k - 1] = End THEN End
        ELSE Walk[v][payload][place[k - 1]]
  IN place

WhoIsAsked(n) ==
  IF n = End THEN {} ELSE IF BlockedInPreview(n) THEN {None} ELSE PreviewApprovers(n)

(* What is shown of them: the way to the end or to a step that blocks          *)
Foreseen(v, from) ==
  LET place == PlacesBehind(v, from)
      shown == { k \in 1..Cardinality(Place) :
                   \A j \in 1..(k - 1) : place[j] # End /\ ~BlockedInPreview(place[j]) }
  IN  [k \in shown |-> [at |-> place[k], asked |-> WhoIsAsked(place[k])]]

(* The first place of a preview where somebody is asked, or where it ends     *)
StopForeseen(path) ==
  CHOOSE i \in DOMAIN path :
    /\ path[i].at = End \/ path[i].asked # {}
    /\ \A j \in 1..(i - 1) : path[j].asked = {}

-----------------------------------------------------------------------------
(* A request that arrives somewhere does what the preview foretold with the    *)
(* same data: it passes over the same steps, asks the same people and groups   *)
(* at the same step, or is approved, though the two walks are separate code    *)
(* and take the requester out of a step at different levels.  (An empty group  *)
(* blocks a preview and is only dropped by the engine: nothing is said there.) *)
HasEmptyGroup(n) == \E s \in Slots(n) : IsGroupSlot(n, s) /\ SlotPreview(n, s) = {}
PreviewIsFollowed ==
  [][Arrives =>
       LET path == Foreseen(version', CameFrom)
           at == StopForeseen(path)
       IN  \/ path[at].asked = {None} /\ HasEmptyGroup(path[at].at)
           \/ /\ status' = "approved" <=> path[at].at = End
              /\ status' = "pending" => /\ current' = path[at].at
                                        /\ { t.origin : t \in NewlyOpen } = path[at].asked
              /\ { path[i].at : i \in 1..(at - 1) } = Passed]_vars
=============================================================================
