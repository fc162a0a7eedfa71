---------------------------- MODULE WorkflowGraph ----------------------------
(***************************************************************************)
(* The graph of a workflow: what validateGraph asks of it before it is     *)
(* published, and how the engine walks it, iteration by iteration, for a   *)
(* request that was sent (advance) or for a trial (simulate).  A trial     *)
(* takes drafts too, which nobody has validated.                           *)
(***************************************************************************)
EXTENDS Naturals, FiniteSets

CONSTANTS
  Id,          \* ids of nodes
  Field,       \* keys of form fields
  Graph        \* the definitions an administrator draws

NodeType == {"start", "approval", "condition", "parallel", "notify", "end"}
WaitType == {"approval", "parallel"}

(* approvers: how many different ones; recipient: somebody each enabled      *)
(* notification goes to                                                      *)
NodeSettings == [type : NodeType, approvers : 0..2, sla : BOOLEAN, onOverdue : {"remind", "act"}, recipient : BOOLEAN]
Edge == [from : Id, to : Id, condition : BOOLEAN, reads : SUBSET Field, default : BOOLEAN]

(* nodes by id; twice: ids that two nodes have; formFields of the request type *)
ASSUME GraphAssumption ==
  /\ IsFiniteSet(Id)
  /\ \A d \in Graph :
       /\ DOMAIN d.nodes \subseteq Id /\ d.nodes \in [DOMAIN d.nodes -> NodeSettings]
       /\ d.twice \subseteq DOMAIN d.nodes
       /\ d.edges \subseteq Edge
       /\ d.formFields \subseteq Field

VARIABLES
  graph,
  published,   \* validateGraph found nothing and the definition runs
  at,          \* current: the node the walk has come to
  seen,        \* visitedNodeIds
  steps,       \* iterations of walkFrom's loop
  rounds,      \* iterations of the loop around walkFrom, its guard
  outcome

graphVars == <<graph, published, at, seen, steps, rounds, outcome>>

Known(d) == DOMAIN d.nodes
Type(d, v) == d.nodes[v].type
Length(d) == Cardinality(Known(d)) + Cardinality(d.twice)

(* outgoing, without edges to missing nodes; walk over it                    *)
Outs(d, v) == { e \in d.edges : e.from = v /\ e.to \in Known(d) }
Closed(d, S) == \A e \in d.edges : e.from \in S /\ e.to \in Known(d) => e.to \in S
Reachable(d, S) == { v \in Id : \A T \in SUBSET Id : S \subseteq T /\ Closed(d, T) => v \in T }

-----------------------------------------------------------------------------
(* validateGraph, rule by rule                                              *)

NodesAndEdgesExist(d) ==
  d.twice = {} /\ \A e \in d.edges : e.from \in Known(d) /\ e.to \in Known(d)

Starts(d) == { v \in Known(d) : Type(d, v) = "start" }
Ends(d) == { v \in Known(d) : Type(d, v) = "end" }

OneStartSomeEnd(d) ==
  /\ Cardinality(Starts(d)) = 1 /\ Ends(d) # {}
  /\ \A e \in d.edges : e.to \notin Starts(d) /\ e.from \notin Ends(d)

(* A condition has a default and other edges, each with a condition          *)
Branches(d, outs) ==
  /\ \E e \in outs : e.default /\ \A f \in outs \ {e} : ~f.default /\ f.condition
  /\ Cardinality(outs) >= 2

(* Everything else goes one way                                             *)
GoesOneWay(outs) == \E e \in outs : outs = {e} /\ ~e.condition /\ ~e.default

EdgesFit(d) ==
  \A v \in Known(d) \ Ends(d) :
    IF Type(d, v) = "condition" THEN Branches(d, Outs(d, v)) ELSE GoesOneWay(Outs(d, v))

NodesAreSetUp(d) ==
  \A v \in Known(d) : LET n == d.nodes[v] IN
    /\ n.type = "approval" => n.approvers > 0
    /\ n.type = "parallel" => n.approvers >= 2
    /\ n.type \in WaitType /\ n.onOverdue # "remind" => n.sla
    /\ n.type \in WaitType \cup {"notify"} => n.recipient

AllOnTheWay(d) ==
  \A v \in Known(d) :
    /\ v \in Reachable(d, Starts(d))
    /\ Reachable(d, {v}) \cap Ends(d) # {}

OnCycle(d, v) == v \in Reachable(d, { e.to : e \in Outs(d, v) })
NoLoopOfOne(d) == \A e \in d.edges : e.from # e.to

NoLoops(d) == \A v \in Known(d) : ~OnCycle(d, v)

KnownFields(d) == \A e \in d.edges : e.condition => e.reads \subseteq d.formFields

GraphIsValid(d) ==
  /\ NodesAndEdgesExist(d) /\ OneStartSomeEnd(d) /\ EdgesFit(d) /\ NodesAreSetUp(d)
  /\ AllOnTheWay(d) /\ NoLoops(d) /\ KnownFields(d)

-----------------------------------------------------------------------------
GraphInit ==
  /\ graph \in Graph
  /\ published = FALSE
  /\ at \in Id /\ seen = {} /\ steps = 0 /\ rounds = 0
  /\ outcome = "none"

(* publishWorkflow                                                           *)
PublishGraph ==
  /\ outcome = "none" /\ ~published /\ GraphIsValid(graph)
  /\ published' = TRUE
  /\ UNCHANGED <<graph, at, seen, steps, rounds, outcome>>

(* findStartNode, of a request or of a trial                                *)
Begin ==
  /\ outcome = "none"
  /\ IF Starts(graph) = {}
     THEN outcome' = "failed" /\ UNCHANGED <<at, seen>>
     ELSE /\ at' \in Starts(graph)
          /\ seen' = {at'}
          /\ outcome' = "walking"
  /\ UNCHANGED <<graph, published, steps, rounds>>

(* pickConditionEdge: some edge whose condition holds for the payload, or    *)
(* the default; without either, no edge.  Elsewhere the first edge           *)
Usable(d, v) ==
  LET outs == { e \in d.edges : e.from = v }
  IN IF Type(d, v) = "condition" THEN { e \in outs : e.default \/ e.condition } ELSE outs

Arrives(type) == IF type \in WaitType THEN "waiting" ELSE IF type = "end" THEN "ended" ELSE "walking"

Enter(e) ==
  /\ e.to \in Known(graph)
  /\ at' = e.to /\ seen' = seen \cup {e.to} /\ steps' = steps + 1
  /\ outcome' = Arrives(Type(graph, e.to))
  /\ UNCHANGED <<graph, published, rounds>>

GivesUp == outcome' = "failed" /\ UNCHANGED <<graph, published, at, seen, steps, rounds>>

(* A condition may hold for no payload: without a default there is no edge   *)
NoWayOn ==
  \/ steps > Length(graph)
  \/ \A e \in Usable(graph, at) : Type(graph, at) = "condition" /\ ~e.default
  \/ \E e \in Usable(graph, at) : e.to \notin Known(graph)

WalkStep ==
  /\ outcome = "walking"
  /\ \/ steps <= Length(graph) /\ \E e \in Usable(graph, at) : Enter(e)
     \/ NoWayOn /\ GivesUp

(* The step is skipped, and the loop goes on; or (never in a trial) it is    *)
(* decided, and advance is called again                                      *)
GoOn ==
  /\ outcome = "waiting"
  /\ \E n \in {rounds + 1} \cup (IF published THEN {0} ELSE {}) :
       IF n <= Length(graph)
       THEN /\ rounds' = n /\ steps' = 0 /\ outcome' = "walking"
            /\ UNCHANGED <<graph, published, at, seen>>
       ELSE GivesUp

GraphNext == PublishGraph \/ Begin \/ WalkStep \/ GoOn

GraphSpec == GraphInit /\ [][GraphNext]_graphVars

-----------------------------------------------------------------------------
(* validateGraph asks enough: whatever the payload and whichever steps are   *)
(* skipped, a request with a published workflow (advance, walkFrom) never    *)
(* runs into GraphWalkError or out of iterations, never meets a node twice,  *)
(* and can always still reach an end                                         *)
PublishedGraphsAreWalked ==
  published =>
    /\ outcome # "failed"
    /\ outcome \in {"walking", "waiting"} =>
         /\ \A e \in Usable(graph, at) : e.to \notin seen
         /\ Reachable(graph, {at}) \cap Ends(graph) # {}
=============================================================================
