------------------------------- MODULE Directory -------------------------------
(***************************************************************************)
(* The people and the group of the directory, the principal that stands for *)
(* each of them in roles and workflows (UserService, GroupService,           *)
(* RoleService), and what SupabaseAuthGuard keeps in the cache of a user for *)
(* the requests to come: the name and the rights.                            *)
(*                                                                           *)
(* Every save is a transaction and writes the columns that differ from what  *)
(* it read; nothing is locked and no row has a version.  The cache is        *)
(* cleared after the save, by a call of its own.  One group and one role,    *)
(* whose rights are a value of their own.                                    *)
(***************************************************************************)
EXTENDS FiniteSets, Naturals

CONSTANTS
  Person, Team,  \* who and what a principal stands for
  Name, Rights,
  Request,       \* of an administrator, or of a person who comes in
  MaxSaves,      \* bound on saves
  Null

VARIABLES
  account,   \* the people with an account at Supabase
  row,       \* person or team -> its row [name, active, gone], or Null
  label,     \* person or team -> the name of its principal
  members,   \* the people in the team
  role,      \* its rights and the people or team it is given to
  cached,    \* person -> Null, or what the guard keeps: [name, rights]
  excused,   \* people whose cached entry was overtaken: see RightsAreCurrent
  overlapped, \* people or team saved over a row that had changed since it was read
  saves,
  request

directoryVars == <<account, row, label, members, role, cached, excused, overlapped, saves, request>>

DirectoryRow == [name : Name, active : BOOLEAN, gone : BOOLEAN]
ASSUME DirectoryAssumption ==
  /\ Team \notin Person
  /\ Name # {} /\ Rights # {}
  /\ Null \notin Name \cup DirectoryRow

Free == [op |-> "none"]
One(S) == CHOOSE e \in S : TRUE
Known == { p \in Person : row[p] # Null }

DirectoryInit ==
  /\ account \in SUBSET Person
  /\ \E teams \in SUBSET {Team} :
       /\ row = [e \in Person \cup {Team} |->
                  IF e \in account \cup teams THEN [name |-> One(Name), active |-> TRUE, gone |-> FALSE] ELSE Null]
       /\ members \in SUBSET (IF teams = {} THEN {} ELSE account)
       /\ role = [rights |-> One(Rights), holders |-> teams]
  /\ label = [e \in Person \cup {Team} |-> IF row[e] = Null THEN Null ELSE row[e].name]
  /\ cached = [p \in Person |-> Null]
  /\ excused = {} /\ overlapped = {} /\ saves = 0
  /\ request = [c \in Request |-> Free]

Proceeds(c, to) == request' = [request EXCEPT ![c] = to]
Counted == saves < MaxSaves /\ saves' = saves + 1

-----------------------------------------------------------------------------
(* create: the account first, the row and the principal in one transaction,  *)
(* which an error of the database may undo                                   *)

CreateAccount(c, p) ==
  /\ request[c] = Free /\ saves < MaxSaves
  /\ row[p] = Null /\ p \notin account
  /\ account' = account \cup {p}
  /\ Proceeds(c, [op |-> "create", who |-> p])
  /\ UNCHANGED <<row, label, members, role, cached, excused, overlapped, saves>>

CreatePerson(c, name) ==
  /\ request[c].op = "create" /\ Counted
  /\ row' = [row EXCEPT ![request[c].who] = [name |-> name, active |-> TRUE, gone |-> FALSE]]
  /\ label' = [label EXCEPT ![request[c].who] = name]
  /\ Proceeds(c, Free)
  /\ UNCHANGED <<account, members, role, cached, excused, overlapped>>

-----------------------------------------------------------------------------
(* updateUserAndPrincipal, updateGroup: the principal is renamed with its    *)
(* person when that changes the name, with its team always                   *)

NameChanged(asked, stored) == asked # stored

ReadRow(c, e, name) ==
  /\ request[c] = Free /\ saves < MaxSaves
  /\ row[e] # Null /\ (e \in Person => ~row[e].gone)
  /\ Proceeds(c, [op |-> IF e = Team \/ NameChanged(name, row[e].name) THEN "rename" ELSE "save",
              who |-> e, name |-> name, row |-> row[e].name, label |-> Null, members |-> members])
  /\ UNCHANGED <<account, row, label, members, role, cached, excused, overlapped, saves>>

ReadPrincipal(c) ==
  /\ request[c].op = "rename"
  /\ Proceeds(c, [request[c] EXCEPT !.op = "save", !.label = label[request[c].who], !.members = members])
  /\ UNCHANGED <<account, row, label, members, role, cached, excused, overlapped, saves>>

\* A column is written when it differs from what was read.
Written(asked, loaded, now) == IF asked = loaded THEN now ELSE asked

SaveRow(c, asked) ==
  LET k == request[c]
      e == k.who
  IN  /\ k.op = "save" /\ Counted
      /\ row' = [row EXCEPT ![e].name = Written(k.name, k.row, @)]
      /\ label' = [label EXCEPT ![e] = IF k.label = Null THEN @ ELSE Written(k.name, k.label, @)]
      /\ IF e = Team
         THEN members' = (members \ (k.members \ asked)) \cup (asked \ k.members)
         ELSE members' = members /\ asked = {}
      /\ overlapped' = IF k.row = row[e].name /\ k.label \in {Null, label[e]} THEN overlapped ELSE overlapped \cup {e}
      \* nobody clears what the guard keeps of the members of a team
      /\ excused' = IF members' = members THEN excused ELSE { p \in Person : cached[p] # Null }
      /\ Proceeds(c, IF e = Team THEN Free ELSE [op |-> "clear", whom |-> {e}])
      /\ UNCHANGED <<account, role, cached>>

\* createGroup: row, principal and members in one transaction
CreateTeam(name, users) ==
  /\ row[Team] = Null /\ Counted
  /\ row' = [row EXCEPT ![Team] = [name |-> name, active |-> TRUE, gone |-> FALSE]]
  /\ label' = [label EXCEPT ![Team] = name]
  /\ members' = users
  /\ excused' = { p \in Person : cached[p] # Null }
  /\ UNCHANGED <<account, role, cached, overlapped, request>>

RemoveTeam ==
  /\ row[Team] # Null /\ ~row[Team].gone /\ Counted
  /\ row' = [row EXCEPT ![Team].gone = TRUE]
  /\ excused' = { p \in Person : cached[p] # Null }
  /\ UNCHANGED <<account, label, members, role, cached, overlapped, request>>

-----------------------------------------------------------------------------
(* updateActive, remove                                                      *)

SetActive(c, p, active) ==
  /\ request[c] = Free /\ Counted
  /\ row[p] # Null /\ ~row[p].gone /\ row[p].active # active
  /\ row' = [row EXCEPT ![p].active = active]
  /\ Proceeds(c, [op |-> "clear", whom |-> {p}])
  /\ UNCHANGED <<account, label, members, role, cached, excused, overlapped>>

RemovePerson(c, p) ==
  /\ request[c] = Free /\ Counted
  /\ row[p] # Null /\ ~row[p].gone
  /\ row' = [row EXCEPT ![p].gone = TRUE]
  /\ Proceeds(c, [op |-> "clear", whom |-> {p}])
  /\ UNCHANGED <<account, label, members, role, cached, excused, overlapped>>

-----------------------------------------------------------------------------
(* createRole, updateRole: the rights and the holders in two saves, then     *)
(* everybody's entry is dropped. A role that is not there yet is one that    *)
(* nobody holds.                                                             *)

\* validatePrincipalIds
ValidHolders == { e \in Person \cup {Team} : row[e] # Null }

SaveRights(c, rights) ==
  /\ request[c] = Free /\ Counted
  /\ role' = [role EXCEPT !.rights = rights]
  /\ \E holders \in SUBSET ValidHolders : Proceeds(c, [op |-> "holders", holders |-> holders])
  /\ UNCHANGED <<account, row, label, members, cached, excused, overlapped>>

TheHoldersCached == role'.holders \cap Person
AllCached == Person

SaveHolders(c) ==
  /\ request[c].op = "holders"
  /\ role' = [role EXCEPT !.holders = request[c].holders]
  /\ Proceeds(c, [op |-> "clear", whom |-> AllCached])
  /\ UNCHANGED <<account, row, label, members, cached, excused, overlapped, saves>>

Clear(c) ==
  /\ request[c].op = "clear"
  /\ cached' = [p \in Person |-> IF p \in request[c].whom THEN Null ELSE cached[p]]
  /\ excused' = excused \ request[c].whom
  /\ Proceeds(c, Free)
  /\ UNCHANGED <<account, row, label, members, role, overlapped, saves>>

-----------------------------------------------------------------------------
(* canActivate: a request without an entry loads the person, then the roles, *)
(* and leaves an entry                                                       *)

\* validate
Principals(p) == {p} \cup (IF p \in members /\ ~row[Team].gone THEN {Team} ELSE {})
RightsOf(principals) == IF role.holders \cap principals = {} THEN Null ELSE role.rights
MayEnter(p) == row[p] # Null /\ row[p].active /\ ~row[p].gone
View(p) == [name |-> row[p].name, rights |-> RightsOf(Principals(p))]
Current(p, entry) == MayEnter(p) /\ entry = View(p)

LoadPerson(c, p) ==
  /\ request[c] = Free
  /\ cached[p] = Null /\ MayEnter(p)
  /\ Proceeds(c, [op |-> "roles", who |-> p, name |-> row[p].name, principals |-> Principals(p)])
  /\ UNCHANGED <<account, row, label, members, role, cached, excused, overlapped, saves>>

LoadRoles(c) ==
  /\ request[c].op = "roles"
  /\ Proceeds(c, [op |-> "keep", who |-> request[c].who,
              entry |-> [name |-> request[c].name, rights |-> RightsOf(request[c].principals)]])
  /\ UNCHANGED <<account, row, label, members, role, cached, excused, overlapped, saves>>

Keep(c) ==
  LET p == request[c].who IN
  /\ request[c].op = "keep"
  /\ cached' = [cached EXCEPT ![p] = request[c].entry]
  /\ excused' = IF Current(p, request[c].entry) THEN excused \ {p} ELSE excused \cup {p}
  /\ Proceeds(c, Free)
  /\ UNCHANGED <<account, row, label, members, role, overlapped, saves>>

\* AUTH_CACHE_TTL
Expire(p) ==
  /\ cached[p] # Null
  /\ cached' = [cached EXCEPT ![p] = Null] /\ excused' = excused \ {p}
  /\ UNCHANGED <<account, row, label, members, role, overlapped, saves, request>>

-----------------------------------------------------------------------------
(* A request ends in an error or its process dies, after what it saved       *)
Fail(c) ==
  /\ request[c] # Free
  /\ excused' = excused \cup
       (IF request[c].op \in {"holders", "clear"} THEN { p \in Person : cached[p] # Null } ELSE {})
  /\ Proceeds(c, Free)
  /\ UNCHANGED <<account, row, label, members, role, cached, overlapped, saves>>

DirectoryNext ==
  \/ RemoveTeam \/ \E name \in Name, users \in SUBSET Known : CreateTeam(name, users)
  \/ \E p \in Person : Expire(p)
  \/ \E c \in Request :
       \/ ReadPrincipal(c) \/ SaveHolders(c) \/ Clear(c) \/ LoadRoles(c) \/ Keep(c) \/ Fail(c)
       \/ \E name \in Name : CreatePerson(c, name) \/ \E e \in Person \cup {Team} : ReadRow(c, e, name)
       \/ \E asked \in SUBSET Known : SaveRow(c, asked)
       \/ \E p \in Person : CreateAccount(c, p) \/ RemovePerson(c, p) \/ LoadPerson(c, p)
       \/ \E p \in Person, active \in BOOLEAN : SetActive(c, p, active)
       \/ \E rights \in Rights : SaveRights(c, rights)

-----------------------------------------------------------------------------
(* A principal has the name of the person or team it stands for, and there   *)
(* is one as soon as there is a row, unless two saves overlapped: the second *)
(* then writes only what differs from what it read.                          *)
NamesAgree ==
  \A e \in Person \cup {Team} :
    /\ row[e] = Null <=> label[e] = Null
    /\ row[e] # Null /\ e \notin overlapped => label[e] = row[e].name

(* What the guard keeps of a person is what it would load now: a save of the  *)
(* person or of a role is followed by a call that drops the entry, so that    *)
(* the entry is out of date only as long as that call is ahead. The exceptions *)
(* last for AUTH_CACHE_TTL: the team or its members changed, the entry was    *)
(* loaded around a save, or the call that would drop it died.                 *)
RightsAreCurrent ==
  \A p \in Person :
    cached[p] # Null =>
      \/ Current(p, cached[p])
      \/ p \in excused
      \/ \E c \in Request : request[c].op = "holders" \/ (request[c].op = "clear" /\ p \in request[c].whom)

DirectoryAgrees == NamesAgree /\ RightsAreCurrent
=============================================================================
