------------------------------ MODULE Approvers ------------------------------
(***************************************************************************)
(* Who is asked (approver-resolver.ts): the engine looks for a leader in    *)
(* one department after another, each row and each user read in a query of  *)
(* its own and remembered, while administrators go on changing departments  *)
(* and locking users.                                                       *)
(***************************************************************************)
EXTENDS FiniteSets, Naturals, Sequences

CONSTANTS
  Dept, Colleague,
  Chart,        \* the directories to start from
  Question,     \* what the engine asks
  MaxLevels,    \* MAX_DEPTH, 20 in the code
  MaxChanges,   \* bound on changes of the directory
  Missing

Kind == {"head", "deputy", "leaderHead", "leaderDeputy", "leaderAny", "above", "deputyAbove"}
Charts ==
  [head : [Dept -> Colleague \cup {Missing}], deputy : [Dept -> Colleague \cup {Missing}],
   parent : [Dept -> Dept \cup {Missing}], gone : SUBSET Dept, home : [Colleague -> Dept \cup {Missing}],
   active : SUBSET Colleague]
Questions ==
  [kind : Kind, dept : Dept \cup {Missing}, who : Colleague \cup {Missing}, except : SUBSET Colleague, climb : BOOLEAN]
DeptRows ==
  [head : Colleague \cup {Missing}, deputy : Colleague \cup {Missing}, parent : Dept \cup {Missing}, gone : BOOLEAN]

ASSUME ApproversAssumption ==
  /\ IsFiniteSet(Dept) /\ MaxLevels \in Nat \ {0} /\ MaxChanges \in Nat
  /\ Missing \notin Dept \cup Colleague \cup DeptRows
  /\ Chart \subseteq Charts /\ Question \subseteq Questions
  /\ \A q \in Question : q.kind \in {"above", "deputyAbove"} => q.who \in Colleague \cap q.except

VARIABLES
  dir,          \* head, deputy and parent of a department, home of a user; gone departments, active users
  walk,         \* where the engine is in it
  cache,        \* deptCache and activeCache
  past,         \* everyone who was active, and everyone who led a department, since the question
  changes

approverVars == <<dir, walk, cache, past, changes>>

ApproversTypeOK ==
  /\ dir \in Charts
  /\ walk \in [question : Question, at : Dept \cup {Missing}, row : DeptRows \cup {Missing}, depth : 0..MaxLevels,
               visited : SUBSET Dept, todo : Seq(Colleague \cup {Missing}), found : SUBSET Colleague,
               phase : {"asked", "enter", "test", "done"}]
  /\ DOMAIN cache.dept \subseteq Dept /\ \A d \in DOMAIN cache.dept : cache.dept[d] \in DeptRows
  /\ DOMAIN cache.user \subseteq Colleague /\ \A u \in DOMAIN cache.user : cache.user[u] \in BOOLEAN
  /\ cache = [dept |-> [d \in DOMAIN cache.dept |-> cache.dept[d]], user |-> [u \in DOMAIN cache.user |-> cache.user[u]]]
  /\ past \in [active : SUBSET Colleague, led : SUBSET (Colleague \cup {Missing})]
  /\ changes \in Nat

DeptRow(d) == [head |-> dir.head[d], deputy |-> dir.deputy[d], parent |-> dir.parent[d], gone |-> d \in dir.gone]
Asked == walk.question

-----------------------------------------------------------------------------
(* The candidates of a department, best first                               *)

(* A late task that goes to whoever leads, of whatever rank                  *)
EscalationIgnoringRank(who, row, own) ==
  IF row.deputy = row.head THEN <<row.head>> ELSE <<row.deputy, row.head>>

(* escalationCandidates                                                     *)
EscalationCandidates(who, row, own) ==
  IF own /\ who = row.head THEN <<>>
  ELSE IF own /\ who = row.deputy THEN <<row.head>>
  ELSE IF row.deputy = row.head THEN <<row.head>> ELSE <<row.deputy, row.head>>

Leaders(row, first) ==
  CASE Asked.kind = "head" -> <<row.head>>
    [] Asked.kind = "deputy" -> IF first THEN <<row.deputy, row.head>> ELSE <<row.head>>
    [] Asked.kind = "leaderHead" -> <<row.head>>
    [] Asked.kind = "leaderDeputy" -> <<row.deputy, row.head>>
    [] Asked.kind = "leaderAny" -> IF row.deputy = row.head THEN <<row.head>> ELSE <<row.head, row.deputy>>
    [] Asked.kind = "above" -> EscalationCandidates(Asked.who, row, first)

Skip(u) == u = Missing \/ u \in Asked.except

TakesAll == Asked.kind = "leaderAny"
Climbs == Asked.kind \in {"head", "deputy", "above"} \/ Asked.climb
ChecksVisited == Asked.kind \notin {"head", "deputy"}

-----------------------------------------------------------------------------
ApproversInit ==
  /\ dir \in Chart
  /\ \E q \in Question :
       walk = [question |-> q, at |-> Missing, row |-> Missing, depth |-> 0, visited |-> {}, todo |-> <<>>, found |-> {}, phase |-> "asked"]
  /\ cache = [dept |-> [d \in {} |-> Missing], user |-> [u \in {} |-> FALSE]]
  /\ past = [active |-> dir.active, led |-> { dir.head[d] : d \in Dept } \cup { dir.deputy[d] : d \in Dept }]
  /\ changes = 0

Done(found) == walk' = [walk EXCEPT !.phase = "done", !.found = found]

(* resolve, escalationTarget: where to begin.  An approver's own department  *)
(* is read from his profile                                                  *)
Begin ==
  /\ walk.phase = "asked" /\ Asked.kind # "deputyAbove"
  /\ LET from == IF Asked.kind = "above" THEN dir.home[Asked.who] ELSE Asked.dept
     IN  IF from = Missing THEN Done({}) ELSE walk' = [walk EXCEPT !.at = from, !.phase = "enter"]
  /\ UNCHANGED <<dir, cache, past, changes>>

(* deputyEscalationTarget: the heads over a deputy, his own department first *)
BeginDeputy ==
  /\ walk.phase = "asked" /\ Asked.kind = "deputyAbove"
  /\ LET over == { d \in Dept \ dir.gone : dir.deputy[d] = Asked.who }
         own == dir.home[Asked.who]
     IN \E order \in [1..Cardinality(over) -> over] :
          /\ { order[i] : i \in DOMAIN order } = over
          /\ own \in over => order[1] = own
          /\ walk' = [walk EXCEPT !.phase = "test", !.todo = [i \in DOMAIN order |-> dir.head[order[i]]]]
  /\ UNCHANGED <<dir, cache, past, changes>>

(* getDepartment and the head of the loop                                    *)
Enter ==
  /\ walk.phase = "enter"
  /\ IF walk.at = Missing \/ walk.depth >= MaxLevels \/ (ChecksVisited /\ walk.at \in walk.visited)
     THEN Done(walk.found) /\ UNCHANGED cache
     ELSE LET row == IF walk.at \in DOMAIN cache.dept THEN cache.dept[walk.at] ELSE DeptRow(walk.at)
          IN /\ cache' = [cache EXCEPT !.dept = [d \in DOMAIN @ \cup {walk.at} |-> IF d = walk.at THEN row ELSE @[d]]]
             /\ IF row.gone THEN Done({})
                ELSE walk' = [walk EXCEPT !.phase = "test", !.row = row, !.visited = @ \cup {walk.at},
                                          !.todo = Leaders(row, walk.depth = 0)]
  /\ UNCHANGED <<dir, past, changes>>

(* isActive, for the next candidate that may be asked                        *)
Test ==
  /\ walk.phase = "test" /\ walk.todo # <<>>
  /\ LET u == Head(walk.todo)
         active == IF u \in DOMAIN cache.user THEN cache.user[u] ELSE u \in dir.active
     IN IF Skip(u) THEN walk' = [walk EXCEPT !.todo = Tail(@)] /\ UNCHANGED cache
        ELSE /\ cache' = [cache EXCEPT !.user = [v \in DOMAIN @ \cup {u} |-> IF v = u THEN active ELSE @[v]]]
             /\ IF active /\ ~TakesAll THEN Done({u})
                ELSE walk' = [walk EXCEPT !.todo = Tail(@), !.found = IF active THEN @ \cup {u} ELSE @]
  /\ UNCHANGED <<dir, past, changes>>

(* Nobody left in this department                                            *)
GoUp ==
  /\ walk.phase = "test" /\ walk.todo = <<>>
  /\ IF walk.found # {} \/ ~Climbs \/ walk.row = Missing THEN Done(walk.found)
     ELSE walk' = [walk EXCEPT !.phase = "enter", !.at = walk.row.parent, !.depth = @ + 1]
  /\ UNCHANGED <<dir, cache, past, changes>>

(* An administrator changes the directory                                    *)
Change ==
  /\ walk.phase # "done" /\ changes < MaxChanges
  /\ \/ \E u \in Colleague : dir' = [dir EXCEPT !.active = IF u \in @ THEN @ \ {u} ELSE @ \cup {u}]
     \/ \E d \in Dept, u \in Colleague : dir' = [dir EXCEPT !.head[d] = u] \/ dir' = [dir EXCEPT !.deputy[d] = u]
     \/ \E d, e \in Dept : d # e /\ dir' = [dir EXCEPT !.parent[d] = e]
     \/ \E d \in Dept : dir' = [dir EXCEPT !.gone = @ \cup {d}]
  /\ past' = [active |-> past.active \cup dir'.active,
              led |-> past.led \cup { dir'.head[d] : d \in Dept } \cup { dir'.deputy[d] : d \in Dept }]
  /\ changes' = changes + 1
  /\ UNCHANGED <<walk, cache>>

ApproversNext == Begin \/ BeginDeputy \/ Enter \/ Test \/ GoUp \/ Change
ApproversSpec == ApproversInit /\ [][ApproversNext]_approverVars /\ WF_approverVars(Begin \/ BeginDeputy \/ Enter \/ Test \/ GoUp)

-----------------------------------------------------------------------------
(* Where the search begins                                                   *)
From == IF Asked.kind = "above" THEN dir.home[Asked.who] ELSE Asked.dept

(* The chain of command above a department, as far as it goes without        *)
(* repeating itself                                                          *)
Up(parent, d) ==
  LET above[k \in 0..MaxLevels] ==
        IF k = 0 THEN d ELSE IF above[k - 1] = Missing THEN Missing ELSE parent[above[k - 1]]
  IN  above
Higher(n) == Up(dir.parent, From)[n]

OnTheWay(n) ==
  \A k \in 0..n : Higher(k) # Missing /\ Higher(k) \notin dir.gone /\ \A m \in 0..(k - 1) : Higher(m) # Higher(k)

(* Who may be asked at all                                                   *)
MayBeAsked(u) == u \in dir.active /\ u \notin Asked.except

(* Who may be asked as a leader of department d.  The holder of a late task  *)
(* gives way only to somebody of a higher rank where he works himself        *)
Fit(u, d, own) ==
  /\ MayBeAsked(u)
  /\ CASE Asked.kind \in {"head", "leaderHead"} -> u = dir.head[d]
       [] Asked.kind = "deputy" /\ ~own -> u = dir.head[d]
       [] Asked.kind = "above" /\ own /\ Asked.who = dir.head[d] -> FALSE
       [] Asked.kind = "above" /\ own /\ Asked.who = dir.deputy[d] /\ Asked.who # dir.head[d] -> u = dir.head[d]
       [] OTHER -> u \in {dir.head[d], dir.deputy[d]}

(* A deputy goes before the head, except where both are asked                *)
GoesFirst(u, d, own) ==
  Fit(u, d, own) /\ (Asked.kind # "leaderAny" /\ Fit(dir.deputy[d], d, own) => u = dir.deputy[d])

Levels == IF From = Missing THEN {}
          ELSE { n \in 0..(IF Climbs THEN MaxLevels - 1 ELSE 0) : OnTheWay(n) }

HeadsOver == { dir.head[d] : d \in { e \in Dept \ dir.gone : dir.deputy[e] = Asked.who } }

(* One head over a deputy, of his own department if that one may be asked    *)
OneOverHim ==
  LET fit == { u \in HeadsOver : MayBeAsked(u) }
      own == dir.home[Asked.who]
  IN /\ Cardinality(walk.found) = (IF fit = {} THEN 0 ELSE 1)
     /\ walk.found \subseteq fit
     /\ own # Missing /\ own \notin dir.gone /\ dir.deputy[own] = Asked.who /\ dir.head[own] \in fit
          => walk.found = {dir.head[own]}

(* The leaders of the nearest department that has any                        *)
With(n) == { u \in Colleague : GoesFirst(u, Higher(n), n = 0) }
NearestOnes ==
  \/ walk.found = {} /\ \A n \in Levels : With(n) = {}
  \/ \E n \in Levels : walk.found = With(n) /\ walk.found # {} /\ \A m \in 0..(n - 1) : With(m) = {}

(* Asked of a directory at rest, the engine finds the leaders of the nearest *)
(* department that has any who may be asked, and nobody only if none has;    *)
(* a deputy's late task goes to a head over him, of his own department if    *)
(* that one may be asked.  Cycles in the tree do no harm.  If the directory  *)
(* changes meanwhile, whoever is found was active and led a department since *)
(* the question, and is still none of those who must not be asked.           *)
TheRightOnesAreAsked ==
  walk.phase = "done" =>
    /\ walk.found \subseteq past.active \cap past.led
    /\ walk.found \cap Asked.except = {}
    /\ changes = 0 => IF Asked.kind = "deputyAbove" THEN OneOverHim ELSE NearestOnes
=============================================================================
