----------------------------- MODULE Departments -----------------------------
(***************************************************************************)
(* The department tree.  Every department keeps its parent and the path of *)
(* codes above it; what concerns a department with everything below it     *)
(* finds the rest by that path.  A request reads, checks and then writes;  *)
(* nothing is locked in between.                                            *)
(***************************************************************************)
EXTENDS Integers, FiniteSets, Sequences, Functions

CONSTANTS
  Dept,    \* departments, named by their codes (unique, never changed)
  User,    \* users, each in a department once they are created
  Manager, \* requests of administrators
  Priority, \* of workflows
  Null

VARIABLES
  dept,     \* departments
  users,    \* users: Null, or department and isActive (of users not deleted)
  request,  \* requests that have checked and not yet written
  raced     \* history: two requests that create or move departments overlapped

departmentVars == <<dept, users, request, raced>>

(* parent; parentCode; status and deleted                                    *)
Department == [parent : Dept \cup {Null}, path : Seq(Dept), active : BOOLEAN, deleted : BOOLEAN]
Exists(d) == dept[d] # Null
Lives(d) == Exists(d) /\ ~dept[d].deleted
Root(d) == Lives(d) /\ dept[d].parent = Null

OwnPath(d) == Append(dept[d].path, d)
PathUnder(p) == IF p = Null THEN <<>> ELSE OwnPath(p)

DepartmentWrite == [what : {"create", "update"}, dept : Dept, parent : Dept \cup {Null}, path : Seq(Dept)]
         \cup [what : {"remove"}, depts : SUBSET Dept]
         \cup [what : {"status"}, depts : SUBSET Dept, active : BOOLEAN]

ASSUME DepartmentsAssumption ==
  /\ IsFiniteSet(Dept) /\ Priority \subseteq Int
  /\ Null \notin Dept /\ Null \notin Department /\ Null \notin DepartmentWrite

DepartmentsTypeOK ==
  /\ dept \in [Dept -> Department \cup {Null}]
  /\ users \in [User -> [dept : Dept, active : BOOLEAN] \cup {Null}]
  /\ request \in [Manager -> DepartmentWrite \cup {Null}]
  /\ raced \in BOOLEAN

DepartmentsInit ==
  /\ dept = [d \in Dept |-> Null]
  /\ users = [u \in User |-> Null]
  /\ request = [a \in Manager |-> Null]
  /\ raced = FALSE

-----------------------------------------------------------------------------
(* Reading and checking                                                     *)

Checked(a, w) ==
  /\ request[a] = Null
  /\ request' = [request EXCEPT ![a] = w]
  /\ UNCHANGED <<dept, users, raced>>

(* A live parent, or no root beside it                                       *)
MayHangAnywhere(d, p) == p # Null => Lives(p)
MayHang(d, p) == IF p = Null THEN \A e \in Dept \ {d} : ~Root(e) ELSE Lives(p)

CreateDepartment(a, d, p) ==
  /\ ~Exists(d) /\ MayHang(d, p)
  /\ Checked(a, [what |-> "create", dept |-> d, parent |-> p, path |-> PathUnder(p)])

(* S and what comes after, again and again                                   *)
Reached(S, after) ==
  LET step[n \in 0..Cardinality(Dept)] ==
        IF n = 0 THEN S ELSE LET T == step[n - 1] IN T \cup UNION { after[x] : x \in T }
  IN  step[Cardinality(Dept)]

(* validateNoCycle: the departments met on the way up, as long as they live  *)
Upwards(p) == Reached({p}, [e \in Dept \cup {Null} |-> IF e # Null /\ Lives(e) THEN {dept[e].parent} ELSE {}])

MoveDepartment(a, d, p) ==
  /\ Lives(d) /\ MayHang(d, p)
  /\ p # Null => d \notin Upwards(p)
  /\ Checked(a, [what |-> "update", dept |-> d, parent |-> p, path |-> PathUnder(p)])

(* The department and what its path leads to                                 *)
BeginsWith(path, above) == Len(above) <= Len(path) /\ \A i \in DOMAIN above : path[i] = above[i]
Scope(d) == {d} \cup { e \in Dept : Lives(e) /\ BeginsWith(dept[e].path, OwnPath(d)) }

Staff(S) == { u \in User : users[u] # Null /\ users[u].dept \in S }

RemoveTree(a, d) ==
  /\ Lives(d)
  /\ Staff(Scope(d)) = {}
  /\ Checked(a, [what |-> "remove", depts |-> Scope(d)])

Deactivate(a, d) ==
  /\ Lives(d) /\ dept[d].active
  /\ \A u \in Staff(Scope(d)) : ~users[u].active
  /\ Checked(a, [what |-> "status", depts |-> Scope(d), active |-> FALSE])

Activate(a, d) ==
  /\ Lives(d) /\ ~dept[d].active
  /\ dept[d].parent # Null => Lives(dept[d].parent) /\ dept[dept[d].parent].active
  /\ Checked(a, [what |-> "status", depts |-> Scope(d), active |-> TRUE])

-----------------------------------------------------------------------------
(* Writing, whatever the other requests have changed since the check        *)

DoneWith(a, what) ==
  /\ request[a] # Null /\ request[a].what \in what
  /\ request' = [request EXCEPT ![a] = Null]
  /\ UNCHANGED users

Hangs(b) == request[b] # Null /\ request[b].what \in {"create", "update"}
Races(a) == raced' = (raced \/ \E b \in Manager \ {a} : Hangs(b))

(* The code is unique, even beside deleted departments                       *)
WriteCreate(a) ==
  /\ DoneWith(a, {"create"}) /\ Races(a)
  /\ LET w == request[a] IN
     dept' = IF Exists(w.dept) THEN dept
             ELSE [dept EXCEPT ![w.dept] =
                     [parent |-> w.parent, path |-> w.path, active |-> TRUE, deleted |-> FALSE]]

(* updateOne, of a department deleted meanwhile too.  Without a parent in    *)
(* the request the old one stays; the departments below keep their paths.    *)
WriteUpdate(a) ==
  /\ DoneWith(a, {"update"}) /\ Races(a)
  /\ LET w == request[a] IN
     dept' = [dept EXCEPT ![w.dept].parent = IF w.parent = Null THEN @ ELSE w.parent,
                          ![w.dept].path = w.path]

WriteScope(a) ==
  /\ DoneWith(a, {"remove", "status"}) /\ UNCHANGED raced
  /\ LET w == request[a] IN
     dept' = [d \in Dept |->
                IF d \notin w.depts \/ ~Lives(d) THEN dept[d]
                ELSE IF w.what = "remove" THEN [dept[d] EXCEPT !.deleted = TRUE]
                ELSE [dept[d] EXCEPT !.active = w.active]]

(* Users are created, moved, locked and unlocked by the user service; the    *)
(* department they are in only has to exist                                  *)
UserChanges(u, d) ==
  /\ Exists(d)
  /\ users' \in { [users EXCEPT ![u] = [dept |-> d, active |-> b]] : b \in BOOLEAN }
  /\ UNCHANGED <<dept, request, raced>>

-----------------------------------------------------------------------------
DepartmentsNext ==
  \/ \E a \in Manager, d \in Dept :
       \/ \E p \in Dept \cup {Null} : CreateDepartment(a, d, p) \/ MoveDepartment(a, d, p)
       \/ RemoveTree(a, d) \/ Deactivate(a, d) \/ Activate(a, d)
  \/ \E a \in Manager : WriteCreate(a) \/ WriteUpdate(a) \/ WriteScope(a)
  \/ \E u \in User, d \in Dept : UserChanges(u, d)

DepartmentsSpec == DepartmentsInit /\ [][DepartmentsNext]_departmentVars

-----------------------------------------------------------------------------
(* What is shown                                                            *)

(* handleTree: of the rows a filter finds, those whose parent it does not     *)
(* find are at the top, and what is below them hangs there                    *)
Below(S) == [p \in Dept |-> { d \in S : dept[d].parent = p }]
Tops(S) == { d \in S : dept[d].parent \notin S }
TreeShows(S) == Reached(Tops(S), Below(S))

(* A keyword, a name or a code may find any of these                         *)
Listed == { d \in Dept : Lives(d) }
loadTree(found) == TreeShows(found \cap Listed)
loadActiveTree(found) == TreeShows({ d \in found \cap Listed : dept[d].active })

(* The work calendar goes by parents: up from a department, ending where it   *)
(* has been before, and down from one                                         *)
ChainOf(d) ==
  LET up[n \in 0..Cardinality(Dept)] ==
        IF n = 0 THEN <<d>>
        ELSE LET chain == up[n - 1]
                 p == dept[chain[Len(chain)]].parent
             IN  IF p = Null \/ ~Lives(p) \/ p \in Range(chain) THEN chain ELSE Append(chain, p)
  IN  up[Cardinality(Dept)]
Subtree(d) == Reached({d}, Below(Listed))

(* assertScope, and whom calendarList lists, of those who may see their       *)
(* department's calendar and not all                                          *)
MaySee(own, d) == own \in Range(ChainOf(d))
CalendarOf(own, d, below) ==
  IF d = Null THEN (IF Lives(own) THEN Subtree(own) ELSE {})
  ELSE IF ~MaySee(own, d) THEN {} ELSE IF below THEN Subtree(d) ELSE {d}

(* The reports go by paths: resolveScope, of those who may see theirs         *)
ReportOf(own, d) ==
  IF d = Null THEN Scope(own) ELSE IF d \in Scope(own) THEN Scope(d) ELSE {}

(* What a request is sent for and by which workflow.  A unit is one's own     *)
(* department, whatever became of it, or one above it.                        *)
departmentChain(d) == IF Lives(d) THEN ChainOf(d) ELSE <<>>
getSubmitUnits(own) == Range(departmentChain(own))
resolveSubmitUnit(own, requested) ==
  IF requested = Null THEN own ELSE IF requested \in {own} \cup getSubmitUnits(own) THEN requested ELSE Null

(* The workflows of one type of requests that are active and published: of a  *)
(* department or of all of them, with a priority                              *)
Workflow == [dept : Dept \cup {Null}, priority : Priority]
hasWorkflow(running) == running # {}

(* The nearest in the tree, then the general ones; of several the one with the *)
(* highest priority                                                            *)
pickWorkflowVersion(running, d) ==
  LET chain == departmentChain(d)
      rank(w) == IF w.dept = Null THEN Len(chain) + 1
                 ELSE IF w.dept \in Range(chain) THEN CHOOSE i \in DOMAIN chain : chain[i] = w.dept ELSE 0
      candidates == { w \in running : rank(w) > 0 }
  IN  { w \in candidates : \A v \in candidates :
          rank(w) < rank(v) \/ (rank(w) = rank(v) /\ w.priority >= v.priority) }

-----------------------------------------------------------------------------
(* Whatever is moved, removed or created anew, the departments that live are *)
(* a forest with at most one top: going up from one of them ends, at the top *)
(* or below a department that is gone, so that whatever rows a filter finds, *)
(* the tree shows them all.  (A tree shows nothing of a circle, and          *)
(* validateNoCycle would not end on one.)  Two requests that create or move  *)
(* departments at the same time are excepted: nothing in the code stops them *)
(* from making two tops, or from moving each under the other.                *)
FormAForest ==
  raced \/
    /\ \A d, e \in Dept : Root(d) /\ Root(e) => d = e
    /\ \A found \in SUBSET Listed :
         /\ loadTree(found) = found
         /\ loadActiveTree(found) = { d \in found : dept[d].active }

(* Even where two have been moved under each other, the way up ends, and the  *)
(* two directions of the calendar agree: who may see a department is who has   *)
(* it in the tree below the own one, and everybody in a list may be opened.    *)
(* As long as every path is what the parents make of it, the reports, which    *)
(* go by paths, show the same departments as the calendar.                     *)
PathsFit == \A d \in Listed : dept[d].path = PathUnder(dept[d].parent) /\ (dept[d].parent # Null => Lives(dept[d].parent))

ScopesAgree ==
  /\ \A own, d \in Listed :
       /\ MaySee(own, d) <=> d \in CalendarOf(own, Null, TRUE)
       /\ \A below \in BOOLEAN : \A e \in CalendarOf(own, d, below) : MaySee(own, e)
  /\ PathsFit =>
       \A own \in Listed, d \in Listed \cup {Null} : ReportOf(own, d) = CalendarOf(own, d, TRUE)

(* A type that is offered with a workflow for everybody can be sent from       *)
(* everywhere, one without any from nowhere; what can be sent from a department *)
(* above can be sent from below.  The workflow that runs is that of the unit or *)
(* of one above it, where the same one would run, and of two none is passed     *)
(* over for one that is farther away or less urgent.                            *)
WorkflowsAreFound ==
  \A own \in { d \in Dept : Exists(d) } :
    LET units == getSubmitUnits(own) IN
    /\ \A unit \in units : resolveSubmitUnit(own, unit) = unit
    /\ \A running \in { {v, w} : v, w \in Workflow } :
         LET picked == pickWorkflowVersion(running, own) IN
         /\ picked # {} => hasWorkflow(running)
         /\ (\E v \in running : v.dept = Null) => picked # {}
         /\ \A unit \in units : pickWorkflowVersion(running, unit) # {} => picked # {}
         /\ \A p \in picked :
              /\ p.dept # Null => p.dept \in units /\ p \in pickWorkflowVersion(running, p.dept)
              /\ \A q \in running \ {p} :
                   \/ p.dept = q.dept /\ p.priority >= q.priority
                   \/ p.dept # Null /\ p.dept # q.dept /\ (q.dept \in units => q.dept \in getSubmitUnits(p.dept))
                   \/ p.dept = Null /\ q.dept \notin units

(* (A request that has only checked has changed none of what the last two are *)
(* about: it is enough to look at them when there is no such request.)         *)
DepartmentsFormATree ==
  FormAForest /\ ((\A a \in Manager : request[a] = Null) => ScopesAgree /\ WorkflowsAreFound)

(* "Each department that is removed (its sub-departments included) ...":     *)
(* nothing that lives hangs under a department that was removed.             *)
SubDepartmentsGoToo ==
  \A d \in Dept : Lives(d) /\ dept[d].parent # Null => Lives(dept[d].parent)
=============================================================================
