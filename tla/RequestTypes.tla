----------------------------- MODULE RequestTypes -----------------------------
(***************************************************************************)
(* One type of requests: its configuration, the versions of it that requests *)
(* keep, and the forms and categories it is made of (libs/app/services/       *)
(* request-type, category, form).  An administrator's save is several         *)
(* statements without a transaction or a lock: what the current configuration *)
(* was is recorded first, then the row is written, then the new version.      *)
(* Saves may overlap, and a process may die in the middle of one.             *)
(***************************************************************************)
EXTENDS Naturals

CONSTANTS
  Editor,          \* administrators' requests being served at the same time
  Maker,          \* requests being made
  Form, Category,
  Sent,           \* the configurations administrators send
  NoConfig,
  MaxTypeVersion,     \* bound: versions of the type
  MaxSaves        \* bound: administrators' requests

Config == [form : Form, category : Category, status : {"draft", "published"}]
Columns == {"form", "category", "status"}

(* Identifiers are unique over all tables                                    *)
ASSUME TypesAssumption ==
  /\ Form \cap Category = {} /\ Sent \subseteq Config
  /\ NoConfig \notin Config
  /\ MaxTypeVersion \in Nat \ {0} /\ MaxSaves \in Nat

VARIABLES
  row,        \* request_types: the configuration, or NoConfig before it is created
  deleted,    \* whether it was deleted
  typeVersions,   \* request_type_versions by number
  removed,       \* forms and categories that were deleted
  job,        \* what each administrator's request has read
  making,     \* what each request being made has read, then what it pinned
  saves,      \* administrators' requests that have begun
  torn        \* two saves overlapped or one died, and none has been made alone since

typeVars == <<row, deleted, typeVersions, removed, job, making, saves, torn>>

AtEase == [pc |-> "rest"]
Job == [pc : {"v1", "ensure", "write", "record", "insert", "drop"}, loaded : Config \cup {NoConfig},
        wanted : Config \cup Form, number : 0..(MaxTypeVersion + 1), alone : BOOLEAN]
Making ==
  [pc : {"none"}]
    \cup [pc : {"read", "made"}, seen : Config, calm : BOOLEAN, shown : 1..MaxTypeVersion, pinned : 0..MaxTypeVersion]

TypesTypeOK ==
  /\ row \in Config \cup {NoConfig} /\ deleted \in BOOLEAN /\ saves \in 0..MaxSaves /\ torn \in BOOLEAN
  /\ \E n \in 0..MaxTypeVersion : typeVersions \in [1..n -> Config]
  /\ removed \subseteq Form \cup Category
  /\ job \in [Editor -> Job \cup {AtEase}]
  /\ making \in [Maker -> Making]

Latest == CHOOSE n \in DOMAIN typeVersions : \A m \in DOMAIN typeVersions : m <= n
Recorded(n, config) == [m \in DOMAIN typeVersions \cup {n} |-> IF m = n THEN config ELSE typeVersions[m]]
Quiet == \A a \in Editor : job[a] = AtEase

(* An administrator's request begins: every other one under way overlaps it   *)
Begins(a, pc, loaded, wanted) ==
  LET others == { b \in Editor \ {a} : job[b] # AtEase }
  IN  /\ job[a] = AtEase /\ saves < MaxSaves
      /\ saves' = saves + 1
      /\ job' = [b \in Editor |->
                   IF b = a THEN [pc |-> pc, loaded |-> loaded, wanted |-> wanted, number |-> 0, alone |-> others = {}]
                   ELSE IF b \in others THEN [job[b] EXCEPT !.alone = FALSE] ELSE AtEase]
      /\ torn' = (torn \/ others # {})
      /\ making' = [r \in Maker |-> IF making[r].pc = "read" THEN [making[r] EXCEPT !.calm = FALSE] ELSE making[r]]

Proceeds(a, pc) == job' = [job EXCEPT ![a].pc = pc]
Busy(a, pc) == job[a] # AtEase /\ job[a].pc = pc

(* A save that ran alone leaves everything in order again                     *)
Closes(a) == job' = [job EXCEPT ![a] = AtEase] /\ torn' = (torn /\ ~job[a].alone)

-----------------------------------------------------------------------------
(* Saving                                                                   *)

(* createRequestType: the row ...                                            *)
CreateType(a, config) ==
  /\ row = NoConfig /\ config.form \notin removed
  /\ Begins(a, "v1", NoConfig, config)
  /\ row' = config
  /\ UNCHANGED <<deleted, typeVersions, removed>>

(* ... and version 1 of it                                                   *)
CreateVersion(a) ==
  /\ Busy(a, "v1")
  /\ typeVersions' = IF DOMAIN typeVersions = {} THEN Recorded(1, job[a].wanted) ELSE typeVersions
  /\ Closes(a)
  /\ UNCHANGED <<row, deleted, removed, making, saves>>

(* Versions do not go away: a type that has one has nothing to ensure          *)
FirstStep == IF DOMAIN typeVersions = {} THEN "ensure" ELSE "write"

(* updateRequestType: a category that is gone is not noticed                  *)
Update(a, config) ==
  /\ row # NoConfig /\ ~deleted /\ config.form \notin removed
  /\ Begins(a, FirstStep, row, config)
  /\ UNCHANGED <<row, deleted, typeVersions, removed>>

(* restoreVersion: the configuration of an old version, if its form and its   *)
(* category are there still                                                   *)
Restore(a, n) ==
  /\ row # NoConfig /\ ~deleted /\ n \in DOMAIN typeVersions
  /\ {typeVersions[n].form, typeVersions[n].category} \cap removed = {}
  /\ Begins(a, FirstStep, row, typeVersions[n])
  /\ UNCHANGED <<row, deleted, typeVersions, removed>>

(* ensureLatestTypeVersion: a type without a version gets one of what it was   *)
Ensure(a) ==
  /\ Busy(a, "ensure")
  /\ typeVersions' = IF DOMAIN typeVersions = {} THEN Recorded(1, job[a].loaded) ELSE typeVersions
  /\ Proceeds(a, "write")
  /\ UNCHANGED <<row, deleted, removed, making, saves, torn>>

(* updateOne: only the columns that differ from what was read are written      *)
Write(a) ==
  /\ Busy(a, "write")
  /\ row' = [c \in Columns |-> IF job[a].wanted[c] # job[a].loaded[c] THEN job[a].wanted[c] ELSE row[c]]
  /\ Proceeds(a, "record")
  /\ UNCHANGED <<deleted, typeVersions, removed, making, saves, torn>>

SameButForm(x, y) == x.category = y.category /\ x.status = y.status

(* sameSnapshot                                                              *)
SameSnapshot(x, y) == x.form = y.form /\ x.category = y.category /\ x.status = y.status

(* recordTypeVersionIfChanged: what was wanted, unless the latest version is   *)
(* like it ...                                                               *)
Record(a) ==
  /\ Busy(a, "record")
  /\ IF SameSnapshot(typeVersions[Latest], job[a].wanted) THEN Closes(a)
     ELSE /\ job' = [job EXCEPT ![a].pc = "insert", ![a].number = Latest + 1]
          /\ UNCHANGED torn
  /\ UNCHANGED <<row, deleted, typeVersions, removed, making, saves>>

(* ... (type, version) is unique                                             *)
Insert(a) ==
  /\ Busy(a, "insert") /\ job[a].number \notin DOMAIN typeVersions /\ job[a].number <= MaxTypeVersion
  /\ typeVersions' = Recorded(job[a].number, job[a].wanted)
  /\ Closes(a)
  /\ UNCHANGED <<row, deleted, removed, making, saves>>

(* The number is taken, or the process dies                                   *)
Abandon(a) ==
  /\ job[a] # AtEase
  /\ job' = [job EXCEPT ![a] = AtEase]
  /\ torn' = (torn \/ job[a].pc \in {"v1", "record", "insert"})
  /\ UNCHANGED <<row, deleted, typeVersions, removed, making, saves>>

-----------------------------------------------------------------------------
(* Deleting                                                                 *)

DeleteType ==
  /\ row # NoConfig /\ ~deleted
  /\ deleted' = TRUE
  /\ UNCHANGED <<row, typeVersions, removed, job, making, saves, torn>>

(* deleteForm: only if no type uses it ...                                    *)
FormUnused(a, f) ==
  /\ f \in Form \ removed
  /\ ~ (~deleted /\ row # NoConfig /\ row.form = f)
  /\ Begins(a, "drop", NoConfig, f)
  /\ UNCHANGED <<row, deleted, typeVersions, removed>>

(* ... at the time it is looked at                                           *)
DeleteForm(a) ==
  /\ Busy(a, "drop")
  /\ removed' = removed \cup {job[a].wanted}
  /\ job' = [job EXCEPT ![a] = AtEase]
  /\ UNCHANGED <<row, deleted, typeVersions, making, saves, torn>>

(* deleteCategory, used or not                                                *)
DeleteCategory(c) ==
  /\ c \in Category \ removed
  /\ removed' = removed \cup {c}
  /\ UNCHANGED <<row, deleted, typeVersions, job, making, saves, torn>>

-----------------------------------------------------------------------------
(* Requests of the type                                                     *)

(* getCreatableRequestTypes: the version a request would get                   *)
Creatable == row # NoConfig /\ ~deleted /\ row.status = "published"
Shown == IF DOMAIN typeVersions = {} THEN 1 ELSE Latest

(* createRequest: the type is read with its form ...                          *)
StartRequest(r) ==
  /\ making[r].pc = "none" /\ Creatable
  /\ making' = [making EXCEPT ![r] = [pc |-> "read", seen |-> row, calm |-> Quiet /\ ~torn,
                                     shown |-> Shown, pinned |-> 0]]
  /\ UNCHANGED <<row, deleted, typeVersions, removed, job, saves, torn>>

(* ... and the latest version of the type and of that form are pinned          *)
PinVersions(r) ==
  /\ making[r].pc = "read"
  /\ typeVersions' = IF DOMAIN typeVersions = {} THEN Recorded(1, making[r].seen) ELSE typeVersions
  /\ making' = [making EXCEPT ![r].pc = "made", ![r].pinned = Shown]
  /\ UNCHANGED <<row, deleted, removed, job, saves, torn>>

-----------------------------------------------------------------------------
TypesInit ==
  /\ row = NoConfig /\ deleted = FALSE /\ typeVersions = [n \in {} |-> NoConfig] /\ removed = {}
  /\ job = [a \in Editor |-> AtEase] /\ making = [r \in Maker |-> [pc |-> "none"]] /\ saves = 0 /\ torn = FALSE

TypesNext ==
  \/ \E a \in Editor :
       \/ \E config \in Sent : CreateType(a, config) \/ Update(a, config)
       \/ \E n \in DOMAIN typeVersions : Restore(a, n)
       \/ \E f \in Form : FormUnused(a, f)
       \/ CreateVersion(a) \/ Ensure(a) \/ Write(a) \/ Record(a) \/ Insert(a) \/ DeleteForm(a) \/ Abandon(a)
  \/ DeleteType \/ \E c \in Category : DeleteCategory(c)
  \/ \E r \in Maker : StartRequest(r) \/ PinVersions(r)

TypesSpec == TypesInit /\ [][TypesNext]_typeVars

(* After any history of overlapping saves, deletions and crashes, one save made *)
(* alone puts a type in order: its latest version is what it is now, and its     *)
(* form exists.  A request made while nobody saves pins that version, the one it *)
(* was offered, and a version of the very form this version names.              *)
TypesAreVersioned ==
  /\ (Quiet /\ ~torn /\ row # NoConfig) =>
       /\ typeVersions[Latest] = row
       /\ deleted \/ row.form \notin removed
  /\ \A r \in Maker : (making[r].pc = "made" /\ making[r].calm) =>
       making[r].pinned = making[r].shown /\ typeVersions[making[r].pinned] = making[r].seen
=============================================================================
