----------------------------- MODULE Definitions -----------------------------
(***************************************************************************)
(* What a request follows: the versions of one approval workflow and of one *)
(* form (libs/app/services/approval-workflow, form).  Administrators edit   *)
(* them at the same time.  Only publishing locks a row; the other           *)
(* operations read, decide and write in separate statements, so they are    *)
(* split there, and an administrator's process may die in between.          *)
(***************************************************************************)
EXTENDS Naturals

CONSTANTS
  Admin,        \* administrators' requests being served at the same time
  Request,      \* approval requests
  Definition,   \* workflow definitions
  Valid,        \* those that validateGraph and collectErrors accept
  Schema,       \* form schemas
  None,
  MaxVersion    \* bound: versions of the workflow and of the form

ASSUME DefinitionsAssumption ==
  /\ Valid \subseteq Definition
  /\ MaxVersion \in Nat \ {0}
  /\ None \notin Nat \cup Admin

VARIABLES
  versions,      \* approval_workflow_versions by number
  running,       \* approval_workflows.publishedVersion
  lock,          \* who holds the workflow's row, or None
  schema,        \* forms.formSchema
  formVersions,  \* form_versions by number
  admin,         \* what each administrator's request has read
  pinned         \* workflow version of each request sent, form version of each request made

vars == <<versions, running, lock, schema, formVersions, admin, pinned>>

Number == 1..MaxVersion
Resting == [pc |-> "rest"]

(* What the steps of saveDraft, publishWorkflow and updateForm carry along *)
Working ==
  [pc : {"update", "last"}, definition : Definition, number : Number \cup {None}]
  \cup [pc : {"insert"}, definition : Definition, number : 1..(MaxVersion + 1)]
  \cup [pc : {"publish"}, number : Number]
  \cup [pc : {"formLatest"}, schema : Schema]
  \cup [pc : {"formInsert"}, schema : Schema, number : 1..(MaxVersion + 1)]

TypeOK ==
  /\ DOMAIN versions \subseteq Number
  /\ versions \in [DOMAIN versions ->
                     [definition : Definition, status : {"draft", "published", "archived"}]]
  /\ running \in DOMAIN versions \cup {None}
  /\ lock \in Admin \cup {None}
  /\ schema \in Schema
  /\ DOMAIN formVersions \subseteq Number /\ formVersions \in [DOMAIN formVersions -> Schema]
  /\ admin \in [Admin -> Working \cup {Resting}]
  /\ pinned \in [Request -> [form : DOMAIN formVersions \cup {None},
                             workflow : DOMAIN versions \cup {None}]]

Last(numbers) == CHOOSE n \in numbers \cup {0} : \A m \in numbers : m <= n
Put(table, n, row) == [m \in DOMAIN table \cup {n} |-> IF m = n THEN row ELSE table[m]]
HasStatus(s) == { n \in DOMAIN versions : versions[n].status = s }

Does(a, step) == admin' = [admin EXCEPT ![a] = step]
Doing(a, pc) == admin[a] # Resting /\ admin[a].pc = pc
Rests(a) == Does(a, Resting)

-----------------------------------------------------------------------------
(* saveDraft; restoreVersion is saveDraft with the definition of a version   *)

(* findDraft: a draft, whichever the database finds first *)
SaveFindDraft(a, d) ==
  /\ admin[a] = Resting
  /\ IF HasStatus("draft") # {}
     THEN \E n \in HasStatus("draft") : Does(a, [pc |-> "update", definition |-> d, number |-> n])
     ELSE Does(a, [pc |-> "last", definition |-> d, number |-> None])
  /\ UNCHANGED <<versions, running, lock, schema, formVersions, pinned>>

(* The row that was a draft is written; publishing holds no lock on it, but *)
(* the write waits for a publication that has written the row               *)
SaveUpdate(a) ==
  /\ Doing(a, "update")
  /\ versions' = [versions EXCEPT ![admin[a].number].definition = admin[a].definition]
  /\ Rests(a)
  /\ UNCHANGED <<running, lock, schema, formVersions, pinned>>

(* createDraft: the number after the last version ... *)
SaveFindLast(a) ==
  /\ Doing(a, "last")
  /\ Does(a, [pc |-> "insert", definition |-> admin[a].definition,
              number |-> Last(DOMAIN versions) + 1])
  /\ UNCHANGED <<versions, running, lock, schema, formVersions, pinned>>

(* ... which has to be free still: (workflow, version) is unique *)
SaveInsert(a) ==
  /\ Doing(a, "insert") /\ admin[a].number <= MaxVersion
  /\ admin[a].number \notin DOMAIN versions
  /\ versions' = Put(versions, admin[a].number,
                     [definition |-> admin[a].definition, status |-> "draft"])
  /\ Rests(a)
  /\ UNCHANGED <<running, lock, schema, formVersions, pinned>>

-----------------------------------------------------------------------------
(* publishWorkflow: one transaction that locks the workflow's row           *)

PublishReadUnlocked(a) ==
  /\ admin[a] = Resting
  /\ \E n \in HasStatus("draft") :
       /\ versions[n].definition \in Valid
       /\ Does(a, [pc |-> "publish", number |-> n])
  /\ UNCHANGED <<versions, running, lock, schema, formVersions, pinned>>

(* A draft is read and found valid *)
PublishRead(a) ==
  /\ admin[a] = Resting /\ lock = None
  /\ \E n \in HasStatus("draft") :
       /\ versions[n].definition \in Valid
       /\ Does(a, [pc |-> "publish", number |-> n])
  /\ lock' = a
  /\ UNCHANGED <<versions, running, schema, formVersions, pinned>>

PublishKeepsOld(a) ==
  /\ Doing(a, "publish")
  /\ versions' = [versions EXCEPT ![admin[a].number].status = "published"]
  /\ running' = admin[a].number
  /\ lock' = None /\ Rests(a)
  /\ UNCHANGED <<schema, formVersions, pinned>>

(* The running version is archived and the draft takes its place.  Only the  *)
(* draft's status is written: its definition did not change since it was read *)
PublishCommit(a) ==
  /\ Doing(a, "publish")
  /\ versions' = [n \in DOMAIN versions |->
       IF n = admin[a].number THEN [versions[n] EXCEPT !.status = "published"]
       ELSE IF versions[n].status = "published" THEN [versions[n] EXCEPT !.status = "archived"]
       ELSE versions[n]]
  /\ running' = admin[a].number
  /\ lock' = None /\ Rests(a)
  /\ UNCHANGED <<schema, formVersions, pinned>>

-----------------------------------------------------------------------------
(* updateForm                                                               *)

FormUpdate(a, s) ==
  /\ admin[a] = Resting
  /\ schema' = s
  /\ Does(a, [pc |-> "formLatest", schema |-> s])
  /\ UNCHANGED <<versions, running, lock, formVersions, pinned>>

(* recordFormVersionIfChanged: a schema like the latest version's adds none *)
FormFindLatest(a) ==
  /\ Doing(a, "formLatest")
  /\ LET latest == Last(DOMAIN formVersions)
     IN IF formVersions[latest] = admin[a].schema THEN Rests(a)
        ELSE Does(a, [pc |-> "formInsert", schema |-> admin[a].schema, number |-> latest + 1])
  /\ UNCHANGED <<versions, running, lock, schema, formVersions, pinned>>

FormInsertAnyNumber(a) ==
  /\ Doing(a, "formInsert") /\ Last(DOMAIN formVersions) < MaxVersion
  /\ formVersions' = Put(formVersions, Last(DOMAIN formVersions) + 1, admin[a].schema)
  /\ Rests(a)
  /\ UNCHANGED <<versions, running, lock, schema, pinned>>

(* (form, version) is unique, too *)
FormInsert(a) ==
  /\ Doing(a, "formInsert") /\ admin[a].number <= MaxVersion
  /\ admin[a].number \notin DOMAIN formVersions
  /\ formVersions' = Put(formVersions, admin[a].number, admin[a].schema)
  /\ Rests(a)
  /\ UNCHANGED <<versions, running, lock, schema, pinned>>

(* An insertion finds its number taken, or the process dies: a transaction   *)
(* is rolled back, what was written outside of one stays                    *)
GiveUp(a) ==
  /\ admin[a] # Resting
  /\ lock' = IF lock = a THEN None ELSE lock
  /\ Rests(a)
  /\ UNCHANGED <<versions, running, schema, formVersions, pinned>>

-----------------------------------------------------------------------------
(* Requests                                                                 *)

(* createRequest pins the latest version of the form *)
Create(r) ==
  /\ pinned[r].form = None
  /\ pinned' = [pinned EXCEPT ![r].form = Last(DOMAIN formVersions)]
  /\ UNCHANGED <<versions, running, lock, schema, formVersions, admin>>

SubmitLatest(r) ==
  /\ pinned[r].form # None /\ pinned[r].workflow = None
  /\ pinned' = [pinned EXCEPT ![r].workflow = Last(DOMAIN versions)]
  /\ UNCHANGED <<versions, running, lock, schema, formVersions, admin>>

(* submit pins the version that runs (pickWorkflowVersion); a request sent  *)
(* again keeps it                                                            *)
Submit(r) ==
  /\ pinned[r].form # None /\ pinned[r].workflow = None /\ running # None
  /\ pinned' = [pinned EXCEPT ![r].workflow = running]
  /\ UNCHANGED <<versions, running, lock, schema, formVersions, admin>>

-----------------------------------------------------------------------------

(* createWorkflow and createForm make version 1 *)
Init ==
  /\ \E d \in Definition : versions = [n \in {1} |-> [definition |-> d, status |-> "draft"]]
  /\ running = None /\ lock = None
  /\ schema \in Schema /\ formVersions = [n \in {1} |-> schema]
  /\ admin = [a \in Admin |-> Resting]
  /\ pinned = [r \in Request |-> [form |-> None, workflow |-> None]]

Next ==
  \/ \E a \in Admin :
       \/ \E d \in Definition : SaveFindDraft(a, d)
       \/ SaveUpdate(a) \/ SaveFindLast(a) \/ SaveInsert(a)
       \/ PublishRead(a) \/ PublishCommit(a)
       \/ \E s \in Schema : FormUpdate(a, s)
       \/ FormFindLatest(a) \/ FormInsert(a)
       \/ GiveUp(a)
  \/ \E r \in Request : Create(r) \/ Submit(r)

Spec == Init /\ [][Next]_vars

-----------------------------------------------------------------------------
(* What must hold                                                           *)

(* However administrators publish and save at the same time, the workflow has *)
(* one published version, and it is the one new requests get.                 *)
OneVersionRuns == HasStatus("published") = { n \in Number : n = running }

(* A version is published once and archived once: no race brings an archived *)
(* version back, or makes a draft of a version a request follows.              *)
VersionsAgeOneWay ==
  [][\A n \in DOMAIN versions :
       /\ n \in DOMAIN versions'
       /\ <<versions[n].status, versions'[n].status>> \in
            {<<"draft", "draft">>, <<"draft", "published">>, <<"published", "published">>,
             <<"published", "archived">>, <<"archived", "archived">>}]_vars

(* Saving a form that did not change gives no new version, even when several *)
(* administrators save it: neighbouring versions differ.                      *)
FormVersionsDiffer ==
  \A n \in DOMAIN formVersions : n > 1 => n - 1 \in DOMAIN formVersions
                                          /\ formVersions[n] # formVersions[n - 1]

(* A request that was sent follows a version that was published: never a      *)
(* draft, whichever administrator saves or publishes in the same moment.       *)
SentRequestsFollowPublished ==
  \A r \in Request : pinned[r].workflow # None =>
    versions[pinned[r].workflow].status \in {"published", "archived"}

(* "A published version is never edited -- a running request always refers to *)
(* the version it was sent with"                                              *)
PublishedIsFrozen ==
  [][\A n \in DOMAIN versions :
       versions[n].status # "draft" => versions'[n].definition = versions[n].definition]_vars
=============================================================================
