--------------------------- MODULE DefinitionsProofs ---------------------------
(***************************************************************************)
(* Proofs about what requests are made from: Definitions, for every number   *)
(* of administrators, requests, definitions, schemas and versions,           *)
(* WorkflowGraph, for graphs of any size, RequestTypes, for any              *)
(* administrators, forms, categories and configurations, and FormPayloads,   *)
(* for any forms and payloads.                                               *)
(*                                                                         *)
(* Definitions.  The properties are not inductive: that the draft published  *)
(* is a draft still rests on the lock, that a form's new version differs     *)
(* from the one before it rests on what was compared when the latest version *)
(* was read, and both on versions being numbered without gaps.               *)
(*                                                                         *)
(* RequestTypes.  A save that has been alone from its beginning has read what *)
(* the row still is, so writing the columns it changes makes the row what was *)
(* asked for.  Unless something is torn every save under way is alone, and    *)
(* between two of them the row is what its latest version says.  A number     *)
(* that has been taken stays taken, so what a request has pinned it keeps.    *)
(*                                                                         *)
(* FormPayloads.  Whatever the client saves, the payload has a form both in   *)
(* force and valid, rows with ids of their own, and once sent it is what      *)
(* parsing makes of it.  Parsing trims and computes, and doing either twice   *)
(* is doing it once, because computed cells are no operands.                  *)
(***************************************************************************)
EXTENDS Definitions, WorkflowGraph, RequestTypes, FormPayloads, FiniteSetTheorems, TLAPS

NumberedWithoutGaps ==
  /\ \E k \in Number : DOMAIN versions = 1..k
  /\ \E k \in Number : DOMAIN formVersions = 1..k

LockedDrafts ==
  \A a \in Admin : Doing(a, "publish") => lock = a /\ admin[a].number \in HasStatus("draft")

Successors ==
  \A a \in Admin :
    /\ Doing(a, "insert") => admin[a].number - 1 \in DOMAIN versions
    /\ Doing(a, "formInsert") =>
         /\ admin[a].number - 1 \in DOMAIN formVersions
         /\ formVersions[admin[a].number - 1] # admin[a].schema

Inv ==
  /\ TypeOK
  /\ NumberedWithoutGaps
  /\ OneVersionRuns
  /\ LockedDrafts
  /\ Successors
  /\ FormVersionsDiffer
  /\ SentRequestsFollowPublished

-----------------------------------------------------------------------------

(* In a table numbered without gaps, Last is the number of its rows *)
LEMMA LastOfTable ==
  ASSUME NEW k \in Number PROVE Last(1..k) = k
<1>. k \in 0..MaxVersion /\ k \in (1..k) \cup {0} /\ \A m \in 1..k : m <= k
  BY DefinitionsAssumption DEF Number
<1>. \A n \in (1..k) \cup {0} : (\A m \in 1..k : m <= n) => n = k
  BY DefinitionsAssumption DEF Number
<1>. QED BY DEF Last

(* The fields an administrator's step carries along have their types *)
LEMMA StepsAreTyped ==
  ASSUME TypeOK, NEW a \in Admin
  PROVE  /\ Doing(a, "update") => admin[a].definition \in Definition
         /\ Doing(a, "last") => admin[a].definition \in Definition
         /\ Doing(a, "insert") => admin[a].definition \in Definition /\ admin[a].number \in 1..(MaxVersion + 1)
         /\ Doing(a, "publish") => admin[a].number \in Number
         /\ Doing(a, "formLatest") => admin[a].schema \in Schema
         /\ Doing(a, "formInsert") => admin[a].schema \in Schema /\ admin[a].number \in 1..(MaxVersion + 1)
BY DEF TypeOK, Doing, Working

LEMMA InitInv == Init => Inv
<1>. SUFFICES ASSUME Init PROVE Inv
  OBVIOUS
<1>1. DOMAIN versions = {1} /\ DOMAIN formVersions = {1} /\ 1 \in Number /\ 1..1 = {1}
  BY DefinitionsAssumption DEF Init, Number
<1>2. TypeOK
  BY <1>1 DEF Init, TypeOK
<1>3. NumberedWithoutGaps
  BY <1>1 DEF NumberedWithoutGaps
<1>4. OneVersionRuns
  <2>1. HasStatus("published") = {}
    BY DEF Init, HasStatus
  <2>2. \A n \in Number : n # None
    BY DefinitionsAssumption DEF Number
  <2>. QED BY <2>1, <2>2 DEF Init, OneVersionRuns
<1>5. LockedDrafts /\ Successors
  BY DEF Init, LockedDrafts, Successors, Doing
<1>6. FormVersionsDiffer
  BY <1>1 DEF FormVersionsDiffer
<1>7. SentRequestsFollowPublished
  BY DEF Init, SentRequestsFollowPublished
<1>. QED BY <1>2, <1>3, <1>4, <1>5, <1>6, <1>7 DEF Inv

-----------------------------------------------------------------------------

(* A step of one administrator's request that only reads, and perhaps takes *)
(* or drops the lock, keeps the invariant when what it carries along is     *)
(* right at that moment                                                     *)
LEMMA ReadingKeepsInv ==
  ASSUME Inv, NEW a \in Admin, NEW s, Does(a, s),
         UNCHANGED <<versions, running, schema, formVersions, pinned>>,
         s = Resting \/ s \in Working,
         lock' \in Admin \cup {None},
         \A b \in Admin \ {a} : Doing(b, "publish") => lock' = lock,
         s # Resting =>
           /\ s.pc = "publish" => lock' = a /\ s.number \in HasStatus("draft")
           /\ s.pc = "insert" => s.number - 1 \in DOMAIN versions
           /\ s.pc = "formInsert" => /\ s.number - 1 \in DOMAIN formVersions
                                    /\ formVersions[s.number - 1] # s.schema
  PROVE  Inv'
<1>1. TypeOK'
  BY DEF Inv, TypeOK, Does
<1>2. NumberedWithoutGaps' /\ FormVersionsDiffer' /\ SentRequestsFollowPublished'
  BY DEF Inv, NumberedWithoutGaps, FormVersionsDiffer, SentRequestsFollowPublished
<1>3. HasStatus("published")' = HasStatus("published") /\ HasStatus("draft")' = HasStatus("draft")
  BY DEF HasStatus
<1>4. OneVersionRuns'
  BY <1>3 DEF Inv, OneVersionRuns
<1>5. \A b \in Admin : admin'[b] = IF b = a THEN s ELSE admin[b]
  BY DEF Does, Inv, TypeOK
<1>6. LockedDrafts'
  BY <1>3, <1>5 DEF Inv, LockedDrafts, Doing
<1>7. Successors'
  BY <1>5 DEF Inv, Successors, Doing
<1>. QED BY <1>1, <1>2, <1>4, <1>6, <1>7 DEF Inv

LEMMA RestingIsNotWorking == Resting \notin Working
BY DEF Resting, Working

LEMMA SaveFindDraftInv ==
  ASSUME Inv, NEW a \in Admin, NEW d \in Definition, SaveFindDraft(a, d) PROVE Inv'
<1>0. HasStatus("draft") \subseteq Number
  BY DEF Inv, TypeOK, HasStatus
<1>1. PICK s \in Working : Does(a, s) /\ s.pc \in {"update", "last"}
  <2>1. ASSUME NEW n \in HasStatus("draft"), Does(a, [pc |-> "update", definition |-> d, number |-> n])
        PROVE  \E s \in Working : Does(a, s) /\ s.pc \in {"update", "last"}
    BY <1>0, <2>1 DEF Working
  <2>2. ASSUME Does(a, [pc |-> "last", definition |-> d, number |-> None])
        PROVE  \E s \in Working : Does(a, s) /\ s.pc \in {"update", "last"}
    BY <2>2 DEF Working
  <2>. QED BY <2>1, <2>2 DEF SaveFindDraft
<1>. QED BY <1>1, ReadingKeepsInv DEF SaveFindDraft, Inv, TypeOK

LEMMA SaveFindLastInv ==
  ASSUME Inv, NEW a \in Admin, SaveFindLast(a) PROVE Inv'
<1>1. PICK k \in Number : DOMAIN versions = 1..k
  BY DEF Inv, NumberedWithoutGaps
<1>2. Last(DOMAIN versions) = k
  BY <1>1, LastOfTable
<1>3. admin[a].definition \in Definition
  BY StepsAreTyped DEF Inv, SaveFindLast
<1>. DEFINE s == [pc |-> "insert", definition |-> admin[a].definition, number |-> k + 1]
<1>4. s \in Working /\ s.pc = "insert" /\ s.number - 1 \in DOMAIN versions
  BY <1>1, <1>3, DefinitionsAssumption DEF Working, Number
<1>5. Does(a, s)
  BY <1>2 DEF SaveFindLast
<1>. QED BY <1>4, <1>5, ReadingKeepsInv DEF SaveFindLast, Inv, TypeOK

LEMMA PublishReadInv ==
  ASSUME Inv, NEW a \in Admin, PublishRead(a) PROVE Inv'
<1>1. PICK n \in HasStatus("draft") : Does(a, [pc |-> "publish", number |-> n])
  BY DEF PublishRead
<1>. DEFINE s == [pc |-> "publish", number |-> n]
<1>2. s \in Working /\ s.pc = "publish" /\ s.number = n
  BY DEF Working, HasStatus, Inv, TypeOK
<1>3. \A b \in Admin : ~ Doing(b, "publish")
  BY DefinitionsAssumption DEF PublishRead, Inv, LockedDrafts
<1>. QED BY <1>1, <1>2, <1>3, ReadingKeepsInv DEF PublishRead

LEMMA FormFindLatestInv ==
  ASSUME Inv, NEW a \in Admin, FormFindLatest(a) PROVE Inv'
<1>1. PICK k \in Number : DOMAIN formVersions = 1..k
  BY DEF Inv, NumberedWithoutGaps
<1>2. Last(DOMAIN formVersions) = k
  BY <1>1, LastOfTable
<1>3. admin[a].schema \in Schema
  BY StepsAreTyped DEF Inv, FormFindLatest
<1>4. CASE formVersions[k] = admin[a].schema
  BY <1>2, <1>4, ReadingKeepsInv DEF FormFindLatest, Rests, Inv, TypeOK
<1>5. CASE formVersions[k] # admin[a].schema
  <2>. DEFINE s == [pc |-> "formInsert", schema |-> admin[a].schema, number |-> k + 1]
  <2>1. s \in Working /\ s.pc = "formInsert" /\ s.number - 1 \in DOMAIN formVersions
        /\ s.number - 1 = k /\ s.schema = admin[a].schema
    BY <1>1, <1>3, DefinitionsAssumption DEF Working, Number
  <2>2. Does(a, s)
    BY <1>2, <1>5 DEF FormFindLatest
  <2>. QED BY <1>5, <2>1, <2>2, ReadingKeepsInv DEF FormFindLatest, Inv, TypeOK
<1>. QED BY <1>4, <1>5

LEMMA GiveUpInv ==
  ASSUME Inv, NEW a \in Admin, GiveUp(a) PROVE Inv'
<1>1. \A b \in Admin \ {a} : Doing(b, "publish") => lock' = lock
  BY DEF GiveUp, Inv, LockedDrafts
<1>. QED BY <1>1, ReadingKeepsInv DEF GiveUp, Rests, Inv, TypeOK

-----------------------------------------------------------------------------

(* Writing the definition of a draft, or of what is one no longer *)
LEMMA SaveUpdateInv ==
  ASSUME Inv, NEW a \in Admin, SaveUpdate(a) PROVE Inv'
<1>1. admin[a].definition \in Definition
  BY StepsAreTyped DEF Inv, SaveUpdate
<1>2. /\ DOMAIN versions' = DOMAIN versions
      /\ \A n \in DOMAIN versions : /\ versions'[n].status = versions[n].status
                                   /\ versions'[n].definition \in Definition
      /\ versions' \in [DOMAIN versions -> [definition : Definition, status : {"draft", "published", "archived"}]]
  BY <1>1 DEF SaveUpdate, Inv, TypeOK
<1>3. \A b \in Admin : admin'[b] = IF b = a THEN Resting ELSE admin[b]
  BY DEF SaveUpdate, Rests, Does, Inv, TypeOK
<1>4. TypeOK'
  BY <1>2 DEF SaveUpdate, Rests, Does, Inv, TypeOK
<1>5. \A st : HasStatus(st)' = HasStatus(st)
  BY <1>2 DEF HasStatus
<1>6. OneVersionRuns' /\ NumberedWithoutGaps' /\ FormVersionsDiffer'
  BY <1>2, <1>5 DEF SaveUpdate, Inv, OneVersionRuns, NumberedWithoutGaps, FormVersionsDiffer
<1>7. LockedDrafts'
  BY <1>3, <1>5 DEF SaveUpdate, Inv, LockedDrafts, Doing
<1>8. Successors'
  BY <1>2, <1>3 DEF SaveUpdate, Inv, Successors, Doing
<1>9. SentRequestsFollowPublished'
  BY <1>2 DEF SaveUpdate, Inv, TypeOK, SentRequestsFollowPublished
<1>. QED BY <1>4, <1>6, <1>7, <1>8, <1>9 DEF Inv

(* A new draft, numbered after the last version there was *)
LEMMA SaveInsertInv ==
  ASSUME Inv, NEW a \in Admin, SaveInsert(a) PROVE Inv'
<1>. DEFINE n == admin[a].number
           draft == [definition |-> admin[a].definition, status |-> "draft"]
<1>1. PICK k \in Number : DOMAIN versions = 1..k
  BY DEF Inv, NumberedWithoutGaps
<1>2. n = k + 1 /\ n \in Number /\ admin[a].definition \in Definition
  <2>1. n \in 1..(MaxVersion + 1) /\ n - 1 \in 1..k /\ n \notin 1..k /\ n <= MaxVersion
    BY <1>1, StepsAreTyped DEF SaveInsert, Inv, Successors
  <2>2. admin[a].definition \in Definition
    BY StepsAreTyped DEF SaveInsert, Inv
  <2>. QED BY <2>1, <2>2, DefinitionsAssumption DEF Number
<1>3. DOMAIN versions' = 1..n /\ 1..n = (1..k) \cup {n}
  <2>1. DOMAIN versions' = (1..k) \cup {n}
    BY <1>1 DEF SaveInsert, Put
  <2>2. 1..n = (1..k) \cup {n}
    BY <1>2, DefinitionsAssumption DEF Number
  <2>. QED BY <2>1, <2>2
<1>4. \A m \in DOMAIN versions' : versions'[m] = IF m = n THEN draft ELSE versions[m]
  BY DEF SaveInsert, Put
<1>5. \A b \in Admin : admin'[b] = IF b = a THEN Resting ELSE admin[b]
  BY DEF SaveInsert, Rests, Does, Inv, TypeOK
<1>6. TypeOK'
  <2>1. versions' \in [DOMAIN versions' -> [definition : Definition, status : {"draft", "published", "archived"}]]
    <3>1. \A m \in DOMAIN versions' : versions'[m] \in [definition : Definition, status : {"draft", "published", "archived"}]
      BY <1>1, <1>2, <1>3, <1>4 DEF Inv, TypeOK
    <3>. QED BY <3>1 DEF SaveInsert, Put
  <2>2. DOMAIN versions \subseteq DOMAIN versions' /\ DOMAIN versions' \subseteq Number
    BY <1>1, <1>2, <1>3, DefinitionsAssumption DEF Number
  <2>3. pinned' \in [Request -> [form : DOMAIN formVersions' \cup {None}, workflow : DOMAIN versions' \cup {None}]]
    BY <2>2 DEF SaveInsert, Inv, TypeOK
  <2>. QED BY <2>1, <2>2, <2>3 DEF SaveInsert, Rests, Does, Inv, TypeOK
<1>7. NumberedWithoutGaps' /\ FormVersionsDiffer'
  BY <1>2, <1>3 DEF SaveInsert, Inv, NumberedWithoutGaps, FormVersionsDiffer
<1>8. HasStatus("published")' = HasStatus("published") /\ HasStatus("draft") \subseteq HasStatus("draft")'
  BY <1>1, <1>3, <1>4 DEF SaveInsert, HasStatus
<1>9. OneVersionRuns' /\ LockedDrafts'
  BY <1>5, <1>8 DEF SaveInsert, Inv, OneVersionRuns, LockedDrafts, Doing
<1>10. Successors'
  BY <1>1, <1>3, <1>5 DEF SaveInsert, Inv, Successors, Doing
<1>11. SentRequestsFollowPublished'
  BY <1>1, <1>3, <1>4 DEF SaveInsert, Inv, TypeOK, SentRequestsFollowPublished
<1>. QED BY <1>6, <1>7, <1>9, <1>10, <1>11 DEF Inv

(* The draft read under the lock becomes the one published version *)
LEMMA PublishCommitInv ==
  ASSUME Inv, NEW a \in Admin, PublishCommit(a) PROVE Inv'
<1>. DEFINE n == admin[a].number
<1>1. lock = a /\ n \in HasStatus("draft") /\ n \in Number
  BY StepsAreTyped DEF PublishCommit, Inv, LockedDrafts
<1>2. /\ DOMAIN versions' = DOMAIN versions
      /\ \A m \in DOMAIN versions :
           /\ versions'[m] \in [definition : Definition, status : {"draft", "published", "archived"}]
           /\ versions'[m].status = IF m = n THEN "published"
                                    ELSE IF versions[m].status = "published" THEN "archived"
                                    ELSE versions[m].status
  BY DEF PublishCommit, Inv, TypeOK
<1>3. \A b \in Admin : admin'[b] = IF b = a THEN Resting ELSE admin[b]
  BY DEF PublishCommit, Rests, Does, Inv, TypeOK
<1>4. \A b \in Admin \ {a} : ~ Doing(b, "publish")
  BY <1>1 DEF Inv, LockedDrafts
<1>5. TypeOK'
  <2>1. versions' \in [DOMAIN versions' -> [definition : Definition, status : {"draft", "published", "archived"}]]
    BY <1>2 DEF PublishCommit
  <2>2. running' \in DOMAIN versions'
    BY <1>1, <1>2 DEF PublishCommit, HasStatus
  <2>. QED BY <1>2, <2>1, <2>2 DEF PublishCommit, Rests, Does, Inv, TypeOK
<1>6. OneVersionRuns'
  <2>1. HasStatus("published")' = {n}
    BY <1>1, <1>2 DEF HasStatus
  <2>. QED BY <1>1, <2>1 DEF PublishCommit, OneVersionRuns
<1>7. NumberedWithoutGaps' /\ FormVersionsDiffer'
  BY <1>2 DEF PublishCommit, Inv, NumberedWithoutGaps, FormVersionsDiffer
<1>8. LockedDrafts'
  BY <1>3, <1>4 DEF LockedDrafts, Doing
<1>9. Successors'
  BY <1>2, <1>3 DEF PublishCommit, Inv, Successors, Doing
<1>10. SentRequestsFollowPublished'
  <2>1. \A r \in Request : pinned[r].workflow # None => pinned[r].workflow \in DOMAIN versions
    BY DEF Inv, TypeOK
  <2>. QED BY <1>2, <2>1 DEF PublishCommit, Inv, SentRequestsFollowPublished
<1>. QED BY <1>5, <1>6, <1>7, <1>8, <1>9, <1>10 DEF Inv

LEMMA FormUpdateInv ==
  ASSUME Inv, NEW a \in Admin, NEW s \in Schema, FormUpdate(a, s) PROVE Inv'
<1>1. [pc |-> "formLatest", schema |-> s] \in Working
  BY DEF Working
<1>2. \A b \in Admin : admin'[b] = IF b = a THEN [pc |-> "formLatest", schema |-> s] ELSE admin[b]
  BY DEF FormUpdate, Does, Inv, TypeOK
<1>3. TypeOK'
  BY <1>1 DEF FormUpdate, Does, Inv, TypeOK
<1>4. HasStatus("published")' = HasStatus("published") /\ HasStatus("draft")' = HasStatus("draft")
  BY DEF FormUpdate, HasStatus
<1>5. LockedDrafts' /\ Successors'
  BY <1>2, <1>4 DEF FormUpdate, Inv, LockedDrafts, Successors, Doing
<1>. QED BY <1>3, <1>4, <1>5 DEF FormUpdate, Inv, NumberedWithoutGaps, OneVersionRuns,
       FormVersionsDiffer, SentRequestsFollowPublished

(* The schema differs from that of the version before it still: no draft is *)
(* ever changed, and another insertion would have taken the number         *)
LEMMA FormInsertInv ==
  ASSUME Inv, NEW a \in Admin, FormInsert(a) PROVE Inv'
<1>. DEFINE n == admin[a].number
<1>1. PICK k \in Number : DOMAIN formVersions = 1..k
  BY DEF Inv, NumberedWithoutGaps
<1>2. /\ n = k + 1 /\ n \in Number /\ admin[a].schema \in Schema
      /\ formVersions[k] # admin[a].schema
  <2>1. n \in 1..(MaxVersion + 1) /\ n - 1 \in 1..k /\ n \notin 1..k /\ n <= MaxVersion
        /\ formVersions[n - 1] # admin[a].schema
    BY <1>1, StepsAreTyped DEF FormInsert, Inv, Successors
  <2>2. admin[a].schema \in Schema
    BY StepsAreTyped DEF FormInsert, Inv
  <2>3. n = k + 1 /\ n - 1 = k /\ n \in Number
    BY <2>1, DefinitionsAssumption DEF Number
  <2>. QED BY <2>1, <2>2, <2>3
<1>3. DOMAIN formVersions' = 1..n /\ 1..n = (1..k) \cup {n}
  <2>1. DOMAIN formVersions' = (1..k) \cup {n}
    BY <1>1 DEF FormInsert, Put
  <2>2. 1..n = (1..k) \cup {n}
    BY <1>2, DefinitionsAssumption DEF Number
  <2>. QED BY <2>1, <2>2
<1>4. \A m \in DOMAIN formVersions' : formVersions'[m] = IF m = n THEN admin[a].schema ELSE formVersions[m]
  BY DEF FormInsert, Put
<1>5. \A b \in Admin : admin'[b] = IF b = a THEN Resting ELSE admin[b]
  BY DEF FormInsert, Rests, Does, Inv, TypeOK
<1>6. TypeOK'
  <2>1. formVersions' \in [DOMAIN formVersions' -> Schema]
    <3>1. \A m \in DOMAIN formVersions' : formVersions'[m] \in Schema
      BY <1>1, <1>2, <1>3, <1>4 DEF Inv, TypeOK
    <3>. QED BY <3>1 DEF FormInsert, Put
  <2>2. DOMAIN formVersions \subseteq DOMAIN formVersions' /\ DOMAIN formVersions' \subseteq Number
    BY <1>1, <1>2, <1>3, DefinitionsAssumption DEF Number
  <2>3. pinned' \in [Request -> [form : DOMAIN formVersions' \cup {None}, workflow : DOMAIN versions' \cup {None}]]
    BY <2>2 DEF FormInsert, Inv, TypeOK
  <2>. QED BY <2>1, <2>2, <2>3 DEF FormInsert, Rests, Does, Inv, TypeOK
<1>7. NumberedWithoutGaps'
  BY <1>2, <1>3 DEF FormInsert, Inv, NumberedWithoutGaps
<1>8. HasStatus("published")' = HasStatus("published") /\ HasStatus("draft")' = HasStatus("draft")
  BY DEF FormInsert, HasStatus
<1>9. OneVersionRuns' /\ LockedDrafts' /\ SentRequestsFollowPublished'
  BY <1>5, <1>8 DEF FormInsert, Inv, OneVersionRuns, LockedDrafts, SentRequestsFollowPublished, Doing
<1>10. Successors'
  <2>1. \A m \in DOMAIN formVersions : m \in DOMAIN formVersions' /\ formVersions'[m] = formVersions[m]
    BY <1>1, <1>2, <1>3, <1>4, DefinitionsAssumption DEF Number
  <2>. QED BY <1>5, <2>1 DEF FormInsert, Inv, Successors, Doing
<1>11. FormVersionsDiffer'
  <2>1. \A m \in 1..k : m # n /\ m \in 1..n
    BY <1>2, DefinitionsAssumption DEF Number
  <2>2. n - 1 \in 1..k /\ n - 1 = k
    BY <1>2, DefinitionsAssumption DEF Number
  <2>3. ASSUME NEW m \in DOMAIN formVersions', m > 1
        PROVE  m - 1 \in DOMAIN formVersions' /\ formVersions'[m] # formVersions'[m - 1]
    <3>1. CASE m = n
      BY <3>1, <1>2, <1>3, <1>4, <2>1, <2>2
    <3>2. CASE m # n
      <4>1. m \in 1..k /\ m - 1 \in 1..k /\ formVersions[m] # formVersions[m - 1]
        BY <3>2, <2>3, <1>1, <1>3 DEF Inv, FormVersionsDiffer
      <4>. QED BY <4>1, <1>3, <1>4, <2>1
    <3>. QED BY <3>1, <3>2
  <2>. QED BY <2>3 DEF FormVersionsDiffer
<1>. QED BY <1>6, <1>7, <1>9, <1>10, <1>11 DEF Inv

LEMMA CreateInv ==
  ASSUME Inv, NEW r \in Request, Create(r) PROVE Inv'
<1>1. Last(DOMAIN formVersions) \in DOMAIN formVersions
  <2>1. PICK k \in Number : DOMAIN formVersions = 1..k
    BY DEF Inv, NumberedWithoutGaps
  <2>. QED BY <2>1, LastOfTable, DefinitionsAssumption DEF Number
<1>2. TypeOK'
  BY <1>1 DEF Create, Inv, TypeOK
<1>3. HasStatus("published")' = HasStatus("published") /\ HasStatus("draft")' = HasStatus("draft")
  BY DEF Create, HasStatus
<1>4. \A q \in Request : pinned'[q].workflow = pinned[q].workflow
  BY DEF Create, Inv, TypeOK
<1>5. SentRequestsFollowPublished'
  BY <1>4 DEF Create, Inv, SentRequestsFollowPublished
<1>. QED BY <1>2, <1>3, <1>5 DEF Create, Inv, NumberedWithoutGaps, OneVersionRuns, LockedDrafts,
       Successors, FormVersionsDiffer, Doing

LEMMA SubmitInv ==
  ASSUME Inv, NEW r \in Request, Submit(r) PROVE Inv'
<1>1. running \in DOMAIN versions /\ running \in HasStatus("published")
  BY DEF Submit, Inv, TypeOK, OneVersionRuns
<1>2. TypeOK'
  BY <1>1 DEF Submit, Inv, TypeOK
<1>3. HasStatus("published")' = HasStatus("published") /\ HasStatus("draft")' = HasStatus("draft")
  BY DEF Submit, HasStatus
<1>4. \A q \in Request : pinned'[q].workflow = IF q = r THEN running ELSE pinned[q].workflow
  BY DEF Submit, Inv, TypeOK
<1>5. SentRequestsFollowPublished'
  BY <1>1, <1>4 DEF Submit, Inv, SentRequestsFollowPublished, HasStatus
<1>. QED BY <1>2, <1>3, <1>5 DEF Submit, Inv, NumberedWithoutGaps, OneVersionRuns, LockedDrafts,
       Successors, FormVersionsDiffer, Doing

LEMMA StutterInv == Inv /\ UNCHANGED vars => Inv'
<1>. SUFFICES ASSUME Inv, UNCHANGED vars PROVE Inv'
  OBVIOUS
<1>. USE DEF vars
<1>1. TypeOK' /\ NumberedWithoutGaps'
  BY DEF Inv, TypeOK, NumberedWithoutGaps
<1>2. OneVersionRuns' /\ LockedDrafts' /\ SentRequestsFollowPublished'
  BY DEF Inv, OneVersionRuns, LockedDrafts, SentRequestsFollowPublished, HasStatus, Doing
<1>3. Successors' /\ FormVersionsDiffer'
  BY DEF Inv, Successors, FormVersionsDiffer, Doing
<1>. QED BY <1>1, <1>2, <1>3 DEF Inv

LEMMA NextInv == Inv /\ [Next]_vars => Inv'
BY SaveFindDraftInv, SaveUpdateInv, SaveFindLastInv, SaveInsertInv, PublishReadInv, PublishCommitInv,
   FormUpdateInv, FormFindLatestInv, FormInsertInv, GiveUpInv, CreateInv, SubmitInv, StutterInv
   DEF Next

LEMMA InvHolds == Spec => []Inv
BY InitInv, NextInv, PTL DEF Spec

-----------------------------------------------------------------------------

(* The rows stay well typed and every administrator carries along what his    *)
(* step was given, for any number of administrators and versions.             *)
THEOREM TypeCorrect == Spec => []TypeOK
<1>1. Inv => TypeOK BY DEF Inv
<1>. QED BY <1>1, InvHolds, PTL

(* publishWorkflow's draft lock is enough: never two published versions, and the *)
(* running one is the published one, however administrators interleave.       *)
THEOREM OneVersionRunsAlways == Spec => []OneVersionRuns
<1>1. Inv => OneVersionRuns BY DEF Inv
<1>. QED BY <1>1, InvHolds, PTL

(* recordFormVersionIfChanged has no lock, but the unique number makes what it *)
(* compared hold at the insertion still.                                      *)
THEOREM FormVersionsAlwaysDiffer == Spec => []FormVersionsDiffer
<1>1. Inv => FormVersionsDiffer BY DEF Inv
<1>. QED BY <1>1, InvHolds, PTL

(* A request that was sent never follows a draft. *)
THEOREM SentRequestsNeverFollowDrafts == Spec => []SentRequestsFollowPublished
<1>1. Inv => SentRequestsFollowPublished BY DEF Inv
<1>. QED BY <1>1, InvHolds, PTL

-----------------------------------------------------------------------------

Ages(n) ==
  /\ n \in DOMAIN versions'
  /\ <<versions[n].status, versions'[n].status>> \in
       {<<"draft", "draft">>, <<"draft", "published">>, <<"published", "published">>,
        <<"published", "archived">>, <<"archived", "archived">>}

LEMMA VersionsAgeInAStep ==
  ASSUME Inv, [Next]_vars, NEW n \in DOMAIN versions PROVE Ages(n)
<1>1. versions[n].status \in {"draft", "published", "archived"}
  BY DEF Inv, TypeOK
<1>2. CASE UNCHANGED versions
  BY <1>1, <1>2 DEF Ages
<1>3. ASSUME NEW a \in Admin, SaveUpdate(a) PROVE Ages(n)
  <2>1. n \in DOMAIN versions' /\ versions'[n].status = versions[n].status
    BY <1>3 DEF SaveUpdate, Inv, TypeOK
  <2>. QED BY <1>1, <2>1 DEF Ages
<1>4. ASSUME NEW a \in Admin, SaveInsert(a) PROVE Ages(n)
  <2>1. n \in DOMAIN versions' /\ versions'[n] = versions[n]
    BY <1>4 DEF SaveInsert, Put
  <2>. QED BY <1>1, <2>1 DEF Ages
<1>5. ASSUME NEW a \in Admin, PublishCommit(a) PROVE Ages(n)
  <2>1. admin[a].number \in HasStatus("draft")
    BY <1>5 DEF PublishCommit, Inv, LockedDrafts
  <2>2. CASE n = admin[a].number
    <3>1. n \in DOMAIN versions' /\ versions[n].status = "draft" /\ versions'[n].status = "published"
      BY <1>5, <2>1, <2>2 DEF PublishCommit, HasStatus, Inv, TypeOK
    <3>. QED BY <3>1 DEF Ages
  <2>3. CASE n # admin[a].number
    <3>1. n \in DOMAIN versions'
          /\ versions'[n].status = IF versions[n].status = "published" THEN "archived" ELSE versions[n].status
      BY <1>5, <2>3 DEF PublishCommit, Inv, TypeOK
    <3>. QED BY <1>1, <3>1 DEF Ages
  <2>. QED BY <2>2, <2>3
<1>. QED BY <1>2, <1>3, <1>4, <1>5 DEF Next, vars, SaveFindDraft, SaveFindLast, PublishRead, FormUpdate,
       FormFindLatest, FormInsert, GiveUp, Create, Submit

(* No race of administrators brings an archived version back or makes a draft *)
(* of a published one.                                                       *)
THEOREM VersionsAlwaysAgeOneWay == Spec => VersionsAgeOneWay
<1>1. Inv /\ [Next]_vars => [\A n \in DOMAIN versions : Ages(n)]_vars
  BY VersionsAgeInAStep
<1>2. (\A n \in DOMAIN versions : Ages(n)) => 
        \A n \in DOMAIN versions :
          /\ n \in DOMAIN versions'
          /\ <<versions[n].status, versions'[n].status>> \in
               {<<"draft", "draft">>, <<"draft", "published">>, <<"published", "published">>,
                <<"published", "archived">>, <<"archived", "archived">>}
  BY DEF Ages
<1>. QED BY <1>1, <1>2, InvHolds, PTL DEF Spec, VersionsAgeOneWay

-----------------------------------------------------------------------------
(* Workflow graphs: validateGraph asks enough, a published graph is walked   *)
(* without an error and without meeting a node twice                         *)

(* What can be reached is closed under edges ...                             *)
LEMMA ReachableIsClosed ==
  ASSUME NEW d, NEW S \in SUBSET Id, NEW f \in d.edges,
         f.from \in Reachable(d, S), f.to \in Known(d), f.to \in Id
  PROVE  f.to \in Reachable(d, S)
  BY DEF Reachable, Closed

(* ... holds what it starts from ...                                         *)
LEMMA ReachableHoldsItsSeeds ==
  ASSUME NEW d, NEW S \in SUBSET Id
  PROVE  S \subseteq Reachable(d, S)
  BY DEF Reachable

(* ... and grows with it                                                     *)
LEMMA ReachableGrows ==
  ASSUME NEW d, NEW S \in SUBSET Id, NEW R \in SUBSET Id, S \subseteq R
  PROVE  Reachable(d, S) \subseteq Reachable(d, R)
  BY DEF Reachable

GraphOK ==
  /\ DOMAIN graph.nodes \subseteq Id
  /\ graph.nodes \in [DOMAIN graph.nodes -> NodeSettings]
  /\ graph.twice \subseteq DOMAIN graph.nodes
  /\ graph.edges \subseteq Edge

(* Where the walk is, and how many iterations it may have needed: every one  *)
(* of walkFrom's loop met a new node, and so did every one of advance's      *)
OnItsWay ==
  /\ at \in seen
  /\ \A v \in seen : at \in Reachable(graph, {v})
  /\ Type(graph, at) # "end"

Counted ==
  /\ steps \in Nat /\ rounds \in Nat
  /\ outcome = "waiting" => steps > 0
  /\ steps < Cardinality(seen)
  /\ rounds + (IF steps > 0 THEN 1 ELSE 0) < Cardinality(seen)

GraphInv ==
  /\ GraphOK
  /\ outcome \in {"none", "walking", "waiting", "ended", "failed"}
  /\ published \in BOOLEAN
  /\ seen \subseteq Known(graph)
  /\ outcome = "none" => seen = {} /\ steps = 0 /\ rounds = 0
  /\ published =>
       /\ GraphIsValid(graph)
       /\ outcome # "failed"
       /\ outcome \in {"walking", "waiting"} => OnItsWay /\ Counted

-----------------------------------------------------------------------------
(* No edge from the place of a valid walk leads back: it would close a loop  *)
LEMMA NextIsNew ==
  ASSUME GraphInv, published, outcome \in {"walking", "waiting"},
         NEW f \in graph.edges, f.from = at
  PROVE  f.to \in Known(graph) \ seen
<1> DEFINE next == { g.to : g \in Outs(graph, at) }
<1>1. f.to \in Known(graph)
  BY DEF GraphInv, GraphIsValid, NodesAndEdgesExist
<1>2. next \in SUBSET Id /\ f.to \in next
  BY <1>1 DEF Outs, GraphInv, GraphOK, Known
<1>3. Reachable(graph, {f.to}) \subseteq Reachable(graph, next)
  BY <1>2, ReachableGrows
<1>4. at \in Known(graph) /\ at \notin Reachable(graph, next)
  BY DEF GraphInv, OnItsWay, GraphIsValid, NoLoops, OnCycle
<1>5. ASSUME f.to \in seen PROVE FALSE
  BY <1>3, <1>4, <1>5 DEF GraphInv, OnItsWay
<1> QED
  BY <1>1, <1>5

(* Nodes are met once, so there are no more of them than the graph has       *)
LEMMA LengthOfWalk ==
  ASSUME GraphInv
  PROVE  /\ IsFiniteSet(seen) /\ Cardinality(seen) \in Nat
         /\ Length(graph) \in Nat /\ Cardinality(seen) <= Length(graph)
<1>1. IsFiniteSet(Known(graph)) /\ IsFiniteSet(graph.twice)
  BY GraphAssumption, FS_Subset DEF GraphInv, GraphOK, Known
<1>2. /\ Cardinality(Known(graph)) \in Nat /\ Cardinality(graph.twice) \in Nat
      /\ IsFiniteSet(seen) /\ Cardinality(seen) \in Nat /\ Cardinality(seen) <= Cardinality(Known(graph))
  BY <1>1, FS_Subset, FS_CardinalityType DEF GraphInv
<1> QED
  BY <1>2 DEF Length

(* There is always a usable edge                                             *)
LEMMA SomeWayOn ==
  ASSUME GraphInv, published, outcome = "walking"
  PROVE  ~NoWayOn
<1>1. at \in Known(graph) \ Ends(graph)
  BY DEF GraphInv, OnItsWay, Ends
<1>2. Outs(graph, at) = { g \in graph.edges : g.from = at }
  BY DEF GraphInv, GraphIsValid, NodesAndEdgesExist, Outs
<1>3. steps <= Length(graph) /\ steps \in Nat /\ Length(graph) \in Nat
  BY LengthOfWalk DEF GraphInv, Counted
<1>4. ~(\A f \in Usable(graph, at) : Type(graph, at) = "condition" /\ ~f.default)
  <2>1. CASE Type(graph, at) = "condition"
    <3>1. Branches(graph, Outs(graph, at))
      BY <1>1, <2>1 DEF GraphInv, GraphIsValid, EdgesFit
    <3> QED
      BY <1>2, <2>1, <3>1 DEF Branches, Usable
  <2>2. CASE Type(graph, at) # "condition"
    <3>1. GoesOneWay(Outs(graph, at))
      BY <1>1, <2>2 DEF GraphInv, GraphIsValid, EdgesFit
    <3> QED
      BY <1>2, <2>2, <3>1 DEF GoesOneWay, Usable
  <2> QED
    BY <2>1, <2>2
<1>5. \A f \in Usable(graph, at) : f.to \in Known(graph)
  BY DEF Usable, GraphInv, GraphIsValid, NodesAndEdgesExist
<1> QED
  BY <1>3, <1>4, <1>5 DEF NoWayOn

-----------------------------------------------------------------------------
LEMMA GraphInvInit == GraphInit => GraphInv
  BY GraphAssumption DEF GraphInit, GraphInv, GraphOK, Known

LEMMA GraphInvPublish == GraphInv /\ PublishGraph => GraphInv'
  BY DEF GraphInv, GraphOK, PublishGraph, Known

LEMMA GraphInvBegin == GraphInv /\ Begin => GraphInv'
<1> SUFFICES ASSUME GraphInv, Begin PROVE GraphInv'
  OBVIOUS
<1> USE DEF Begin
<1>1. graph' = graph /\ published' = published /\ steps' = 0 /\ rounds' = 0
  BY DEF GraphInv
<1>2. CASE Starts(graph) = {}
  <2>1. ~published
    BY <1>2, FS_EmptySet DEF GraphInv, GraphIsValid, OneStartSomeEnd
  <2> QED
    BY <1>1, <1>2, <2>1 DEF GraphInv, GraphOK, Known
<1>3. CASE Starts(graph) # {}
  <2>1. at' \in Known(graph) /\ Type(graph, at') # "end" /\ seen' = {at'} /\ outcome' = "walking"
    BY <1>3 DEF Starts
  <2>2. at' \in Reachable(graph, {at'})
    BY <2>1, ReachableHoldsItsSeeds DEF GraphInv, GraphOK, Known
  <2>3. Cardinality(seen') = 1
    BY <2>1, FS_Singleton
  <2>4. OnItsWay'
    BY <1>1, <2>1, <2>2 DEF OnItsWay, Type
  <2>5. Counted'
    BY <1>1, <2>1, <2>3 DEF Counted
  <2>6. GraphIsValid(graph) => GraphIsValid(graph)'
    BY <1>1
  <2> QED
    BY <1>1, <2>1, <2>4, <2>5, <2>6 DEF GraphInv, GraphOK, Known
<1> QED
  BY <1>2, <1>3

LEMMA GraphInvWalk == GraphInv /\ WalkStep => GraphInv'
<1> SUFFICES ASSUME GraphInv, WalkStep PROVE GraphInv'
  OBVIOUS
<1>1. CASE NoWayOn /\ GivesUp
  <2>1. ~published
    BY <1>1, SomeWayOn DEF WalkStep
  <2> QED
    BY <1>1, <2>1 DEF GraphInv, GraphOK, GivesUp, Known
<1>2. ASSUME NEW f \in Usable(graph, at), Enter(f) PROVE GraphInv'
  <2>1. /\ UNCHANGED <<graph, published, rounds>> /\ at' = f.to /\ steps' = steps + 1
        /\ seen' = seen \cup {f.to} /\ f.to \in Known(graph) /\ outcome' = Arrives(Type(graph, f.to))
        /\ f \in graph.edges /\ f.from = at
    BY <1>2 DEF Enter, Usable
  <2>2. outcome' \in {"walking", "waiting", "ended"}
    BY <2>1 DEF Arrives
  <2>3. CASE ~published
    BY <2>1, <2>2, <2>3 DEF GraphInv, GraphOK, Known
  <2>4. CASE published
    <3>1. outcome = "walking" /\ OnItsWay /\ Counted
      BY <2>4 DEF GraphInv, WalkStep
    <3>2. f.to \notin seen
      BY <2>1, <2>4, <3>1, NextIsNew
    <3>3. Cardinality(seen') = Cardinality(seen) + 1 /\ Cardinality(seen) \in Nat
      BY <2>1, <3>2, LengthOfWalk, FS_AddElement
    <3>4. Counted'
      BY <2>1, <3>1, <3>3 DEF Counted
    <3>5. f.to \in Id /\ \A v \in seen : v \in Id
      BY <2>1 DEF GraphInv, GraphOK, Known
    <3>6. \A v \in seen : f.to \in Reachable(graph, {v})
      BY <2>1, <3>1, <3>5, ReachableIsClosed DEF OnItsWay
    <3>7. f.to \in Reachable(graph, {f.to})
      BY <3>5, ReachableHoldsItsSeeds
    <3>8. outcome' \in {"walking", "waiting"} => OnItsWay'
      BY <2>1, <3>6, <3>7 DEF OnItsWay, Arrives, WaitType, Type
    <3> QED
      BY <2>1, <2>2, <3>4, <3>8 DEF GraphInv, GraphOK, Known
  <2> QED
    BY <2>3, <2>4 DEF GraphInv
<1> QED
  BY <1>1, <1>2 DEF WalkStep

LEMMA GraphInvGoOn == GraphInv /\ GoOn => GraphInv'
<1> SUFFICES ASSUME GraphInv, GoOn PROVE GraphInv'
  OBVIOUS
<1>1. CASE ~published
  BY <1>1 DEF GoOn, GraphInv, GraphOK, GivesUp, Known
<1>2. CASE published
  <2>1. OnItsWay /\ Counted /\ outcome = "waiting"
    BY <1>2 DEF GraphInv, GoOn
  <2>2. PICK n \in {rounds + 1, 0} :
          IF n <= Length(graph)
          THEN rounds' = n /\ steps' = 0 /\ outcome' = "walking" /\ UNCHANGED <<graph, published, at, seen>>
          ELSE GivesUp
    BY DEF GoOn
  <2>3. n \in Nat /\ n < Cardinality(seen) /\ n <= Length(graph) /\ Cardinality(seen) \in Nat
    BY <2>1, <2>2, LengthOfWalk DEF Counted
  <2>4. rounds' = n /\ steps' = 0 /\ outcome' = "walking" /\ UNCHANGED <<graph, published, at, seen>>
    BY <2>2, <2>3
  <2>5. Counted'
    <3>1. Cardinality(seen') = Cardinality(seen)
      BY <2>4
    <3>2. 0 < Cardinality(seen') /\ n + 0 < Cardinality(seen')
      BY <2>3, <3>1
    <3> QED
      BY <2>3, <2>4, <3>2 DEF Counted
  <2>6. OnItsWay'
    BY <2>1, <2>4 DEF OnItsWay
  <2> QED
    BY <2>4, <2>5, <2>6 DEF GraphInv, GraphOK, Known
<1> QED
  BY <1>1, <1>2 DEF GraphInv

LEMMA GraphInvStep == GraphInv /\ [GraphNext]_graphVars => GraphInv'
<1>1. GraphInv /\ UNCHANGED graphVars => GraphInv'
  BY DEF GraphInv, GraphOK, OnItsWay, Counted, graphVars, Known, Type
<1> QED
  BY <1>1, GraphInvPublish, GraphInvBegin, GraphInvWalk, GraphInvGoOn DEF GraphNext

-----------------------------------------------------------------------------
(* The invariant gives the property: what walkFrom relies on holds in every  *)
(* state of a request with a published workflow                              *)
LEMMA WalkedFromInvariant == GraphInv => PublishedGraphsAreWalked
<1> SUFFICES ASSUME GraphInv, published, outcome \in {"walking", "waiting"}
             PROVE  /\ \A f \in Usable(graph, at) : f.to \notin seen
                    /\ Reachable(graph, {at}) \cap Ends(graph) # {}
  BY DEF PublishedGraphsAreWalked, GraphInv
<1>1. \A f \in Usable(graph, at) : f.to \notin seen
  BY NextIsNew DEF Usable
<1>2. Reachable(graph, {at}) \cap Ends(graph) # {}
  BY DEF GraphInv, OnItsWay, GraphIsValid, AllOnTheWay
<1> QED
  BY <1>1, <1>2

(* Every workflow that validateGraph accepts, of whatever size, is walked by *)
(* walkFrom and advance without a GraphWalkError, meeting no node twice and  *)
(* never out of reach of an end                                              *)
THEOREM PublishedGraphsAreAlwaysWalked == GraphSpec => []PublishedGraphsAreWalked
<1>1. GraphSpec => []GraphInv
  BY GraphInvInit, GraphInvStep, PTL DEF GraphSpec
<1> QED
  BY <1>1, WalkedFromInvariant, PTL

-----------------------------------------------------------------------------
(* A type of requests                                                        *)

(* What is read, written and recorded, by the step a save has come to *)
JobOK(a) ==
  job[a] # AtEase =>
    /\ job[a].pc = "drop" => job[a].wanted \in Form
    /\ job[a].pc # "drop" => job[a].wanted \in Config /\ row # NoConfig
    /\ job[a].pc \in {"ensure", "write"} => job[a].loaded \in Config
    /\ job[a].pc \in {"write", "record", "insert"} => DOMAIN typeVersions # {}
    /\ job[a].pc = "insert" => job[a].number \in 1..(Latest + 1)

(* Nothing was recorded of a new type but what it is *)
AsCreated ==
  /\ DOMAIN typeVersions # {} => typeVersions[Latest] = row
  /\ \A r \in Maker : making[r].pc = "read" => making[r].seen = row

(* A save alone: what it has read is so still, what it wants can be had *)
AloneOK(a) ==
  job[a] # AtEase /\ job[a].alone =>
    /\ \A b \in Editor \ {a} : job[b] = AtEase
    /\ job[a].pc \in {"ensure", "write"} => job[a].loaded = row
    /\ job[a].pc \in {"v1", "record", "insert"} => job[a].wanted = row
    /\ job[a].pc # "drop" => job[a].wanted.form \notin removed
    /\ job[a].pc = "drop" => deleted \/ row = NoConfig \/ row.form # job[a].wanted
    /\ job[a].pc = "v1" => AsCreated

TornOK == torn \/ \A a \in Editor : job[a] # AtEase => job[a].alone

(* No save has written yet *)
Unwritten == \A a \in Editor : job[a] # AtEase => job[a].pc \in {"ensure", "write", "drop"}
InOrder ==
  /\ DOMAIN typeVersions # {} /\ typeVersions[Latest] = row
  /\ deleted \/ row.form \notin removed
Settled == Unwritten /\ ~torn /\ row # NoConfig => InOrder

MakerOK(r) ==
  /\ making[r].pc = "read" /\ making[r].calm =>
       Quiet /\ ~torn /\ making[r].seen = row /\ making[r].shown = Latest
  /\ making[r].pc = "made" =>
       /\ making[r].pinned \in DOMAIN typeVersions
       /\ making[r].calm => making[r].pinned = making[r].shown /\ typeVersions[making[r].pinned] = making[r].seen

NotYet == row = NoConfig => DOMAIN typeVersions = {} /\ \A r \in Maker : making[r].pc = "none"

TypesInv ==
  /\ TypesTypeOK
  /\ \A a \in Editor : JobOK(a) /\ AloneOK(a)
  /\ TornOK /\ Settled /\ NotYet
  /\ \A r \in Maker : MakerOK(r)

-----------------------------------------------------------------------------

(* The versions of a type are numbered from 1 without a gap                  *)
LEMMA LatestIs ==
  \A n \in Nat \ {0} : typeVersions \in [1..n -> Config] => Latest = n
<1> SUFFICES ASSUME NEW n \in Nat \ {0}, typeVersions \in [1..n -> Config] PROVE Latest = n
  OBVIOUS
<1>1. DOMAIN typeVersions = 1..n
  OBVIOUS
<1>2. n \in DOMAIN typeVersions /\ \A m \in DOMAIN typeVersions : m <= n
  BY <1>1
<1>3. \A k \in DOMAIN typeVersions : (\A m \in DOMAIN typeVersions : m <= k) => k = n
  BY <1>1, <1>2
<1> QED
  BY <1>2, <1>3 DEF Latest

LEMMA LatestWillBe ==
  (\A n \in Nat \ {0} : typeVersions \in [1..n -> Config] => Latest = n)'
<1>1. \A n \in Nat \ {0} : typeVersions \in [1..n -> Config] => Latest = n
  BY LatestIs
<1> QED
  BY <1>1, PTL

LEMMA LatestTyped ==
  ASSUME TypesTypeOK, DOMAIN typeVersions # {}
  PROVE  /\ Latest \in 1..MaxTypeVersion /\ DOMAIN typeVersions = 1..Latest
         /\ typeVersions[Latest] \in Config
<1>1. PICK n \in 0..MaxTypeVersion : typeVersions \in [1..n -> Config]
  BY DEF TypesTypeOK
<1>2. n # 0 /\ n \in Nat
  BY <1>1, TypesAssumption
<1>3. Latest = n
  BY <1>1, <1>2, LatestIs
<1> QED
  BY <1>1, <1>2, <1>3, TypesAssumption

LEMMA LatestStays ==
  ASSUME UNCHANGED typeVersions
  PROVE  Latest' = Latest
<1>1. typeVersions' = typeVersions
  OBVIOUS
<1> QED
  BY ONLY <1>1, Zenon DEF Latest

(* Nothing but the next number is ever recorded                              *)
NextNumber == IF DOMAIN typeVersions = {} THEN 1 ELSE Latest + 1
LEMMA Recording ==
  ASSUME TypesTypeOK, NEW config \in Config, NextNumber <= MaxTypeVersion,
         typeVersions' = Recorded(NextNumber, config)
  PROVE  /\ \E n \in 0..MaxTypeVersion : typeVersions' \in [1..n -> Config]
         /\ DOMAIN typeVersions' # {} /\ DOMAIN typeVersions \subseteq DOMAIN typeVersions'
         /\ Latest' = NextNumber /\ typeVersions'[Latest'] = config
         /\ \A m \in DOMAIN typeVersions : typeVersions'[m] = typeVersions[m]
<1> DEFINE k == NextNumber
<1>1. PICK n \in 0..MaxTypeVersion : typeVersions \in [1..n -> Config]
  BY DEF TypesTypeOK
<1>2. k = n + 1 /\ k \in Nat \ {0} /\ k \in 1..MaxTypeVersion
  <2>1. CASE n = 0
    BY <1>1, <2>1, TypesAssumption DEF NextNumber
  <2>2. CASE n # 0
    <3>1. DOMAIN typeVersions = 1..n /\ 1 \in 1..n /\ n \in Nat \ {0}
      BY <1>1, <2>2, TypesAssumption
    <3>2. Latest = n
      BY <1>1, <3>1, LatestIs
    <3> QED
      BY <3>1, <3>2, TypesAssumption DEF NextNumber
  <2> QED
    BY <2>1, <2>2
<1>3. DOMAIN typeVersions \cup {k} = 1..k /\ DOMAIN typeVersions = 1..n
  BY <1>1, <1>2, TypesAssumption
<1>4. typeVersions' = [m \in 1..k |-> IF m = k THEN config ELSE typeVersions[m]]
  BY <1>3 DEF Recorded
<1>5. typeVersions' \in [1..k -> Config] /\ typeVersions'[k] = config
      /\ \A m \in 1..n : typeVersions'[m] = typeVersions[m]
  <2>1. \A m \in 1..k : m # k => m \in 1..n
    BY <1>2
  <2>2. \A m \in 1..n : m \in 1..k /\ m # k
    BY <1>2
  <2>3. k \in 1..k
    BY <1>2
  <2> HIDE DEF k
  <2>4. typeVersions' \in [1..k -> Config]
    BY <1>1, <1>4, <2>1
  <2>5. typeVersions'[k] = config
    BY <1>4, <2>3
  <2>6. \A m \in 1..n : typeVersions'[m] = typeVersions[m]
    BY <1>4, <2>2
  <2> QED
    BY <2>4, <2>5, <2>6
<1>6. Latest' = k
  <2> HIDE DEF k
  <2> QED
    BY LatestWillBe, <1>2, <1>5
<1> QED
  BY <1>2, <1>3, <1>5, <1>6

(* What a save adds to the state it found                                    *)
AllRest(a) == \A b \in Editor \ {a} : job[b] = AtEase
Began(a, pc, loaded, wanted) ==
  /\ job' \in [Editor -> Job \cup {AtEase}] /\ making' \in [Maker -> Making]
  /\ saves' \in 0..MaxSaves /\ torn' \in BOOLEAN
  /\ job'[a] = [pc |-> pc, loaded |-> loaded, wanted |-> wanted, number |-> 0, alone |-> AllRest(a)]
  /\ job'[a] # AtEase /\ job[a] = AtEase
  /\ \A b \in Editor \ {a} :
       /\ job[b] = AtEase => job'[b] = AtEase
       /\ job[b] # AtEase =>
            /\ job'[b].pc = job[b].pc /\ job'[b].loaded = job[b].loaded /\ job'[b].wanted = job[b].wanted
            /\ job'[b].number = job[b].number /\ ~job'[b].alone
  /\ torn' = (torn \/ ~AllRest(a))
  /\ \A r \in Maker :
       /\ making'[r].pc = making[r].pc
       /\ making[r].pc = "read" => ~making'[r].calm /\ making'[r].seen = making[r].seen
       /\ making[r].pc # "read" => making'[r] = making[r]

LEMMA BeginsOK ==
  ASSUME TypesInv, NEW a \in Editor, NEW pc \in {"v1", "ensure", "write", "drop"},
         NEW loaded \in Config \cup {NoConfig}, NEW wanted \in Config \cup Form,
         Begins(a, pc, loaded, wanted)
  PROVE  Began(a, pc, loaded, wanted)
<1> DEFINE others == { b \in Editor \ {a} : job[b] # AtEase }
           new == [pc |-> pc, loaded |-> loaded, wanted |-> wanted, number |-> 0, alone |-> others = {}]
<1>0. (others = {}) = AllRest(a)
  BY DEF AllRest
<1>1. job \in [Editor -> Job \cup {AtEase}] /\ making \in [Maker -> Making] /\ saves \in 0..MaxSaves
  BY DEF TypesInv, TypesTypeOK
<1>2. new \in Job /\ new # AtEase
  BY TypesAssumption DEF Job, AtEase
<1>3. \A x \in Job : LET y == [x EXCEPT !.alone = FALSE] IN
        /\ y \in Job /\ y.pc = x.pc /\ y.loaded = x.loaded /\ y.wanted = x.wanted /\ y.number = x.number /\ ~y.alone
  BY DEF Job
<1>4. job' = [b \in Editor |-> IF b = a THEN new ELSE IF b \in others THEN [job[b] EXCEPT !.alone = FALSE] ELSE AtEase]
  BY DEF Begins
<1>5. job' \in [Editor -> Job \cup {AtEase}]
  BY <1>1, <1>2, <1>3, <1>4
<1>6. \A x \in Making : x.pc = "read" => LET y == [x EXCEPT !.calm = FALSE] IN
        y \in Making /\ y.pc = x.pc /\ y.seen = x.seen /\ ~y.calm
  BY DEF Making
<1>7. making' \in [Maker -> Making]
  BY <1>1, <1>6 DEF Begins
<1>8. \A r \in Maker :
              /\ making'[r].pc = making[r].pc
              /\ making[r].pc = "read" => ~making'[r].calm /\ making'[r].seen = making[r].seen
              /\ making[r].pc # "read" => making'[r] = making[r]
  BY <1>1, <1>6 DEF Begins
<1>9. \A b \in Editor \ {a} :
              /\ job[b] = AtEase => job'[b] = AtEase
              /\ job[b] # AtEase =>
                   /\ job'[b].pc = job[b].pc /\ job'[b].loaded = job[b].loaded /\ job'[b].wanted = job[b].wanted
                   /\ job'[b].number = job[b].number /\ ~job'[b].alone
  BY <1>1, <1>3, <1>4
<1>10. saves' \in 0..MaxSaves /\ torn' \in BOOLEAN
  BY <1>1, TypesAssumption DEF Begins, TypesInv, TypesTypeOK
<1>11. job'[a] = new /\ job[a] = AtEase
  BY <1>4 DEF Begins
<1>12. torn' = (torn \/ others # {})
  BY DEF Begins
<1> QED
  BY <1>0, <1>2, <1>5, <1>7, <1>8, <1>9, <1>10, <1>11, <1>12 DEF Began

LEMMA InitOK ==
  ASSUME TypesInit
  PROVE  TypesInv
<1>1. typeVersions \in [1..0 -> Config] /\ 0 \in 0..MaxTypeVersion /\ DOMAIN typeVersions = {}
  BY TypesAssumption DEF TypesInit
<1>2. saves \in 0..MaxSaves
  BY TypesAssumption DEF TypesInit
<1>3. job \in [Editor -> Job \cup {AtEase}]
  BY DEF TypesInit
<1>4. making \in [Maker -> Making]
  <2>1. [pc |-> "none"] \in Making
    BY DEF Making
  <2> QED
    BY <2>1 DEF TypesInit
<1>5. TypesTypeOK
  BY <1>1, <1>2, <1>3, <1>4 DEF TypesInit, TypesTypeOK
<1> QED
  BY <1>1, <1>5 DEF TypesInit, TypesInv, JobOK, AloneOK, TornOK, Settled, Unwritten, InOrder, NotYet, MakerOK

(* updateRequestType and restoreVersion begin                                *)
LEMMA UpdateBegins ==
  ASSUME TypesInv, NEW a \in Editor, NEW config \in Config,
         row # NoConfig, config.form \notin removed,
         Begins(a, FirstStep, row, config), UNCHANGED <<row, deleted, typeVersions, removed>>
  PROVE  TypesInv'
<1>0. row \in Config /\ FirstStep \in {"ensure", "write"}
  BY DEF TypesInv, TypesTypeOK, FirstStep
<1>1. Began(a, FirstStep, row, config)
  <2>1. row \in Config \cup {NoConfig} /\ config \in Config \cup Form
        /\ FirstStep \in {"v1", "ensure", "write", "drop"}
    BY <1>0
  <2> QED
    BY <2>1, BeginsOK
<1>2. Latest' = Latest
  BY LatestStays
<1>3. /\ job'[a].pc = FirstStep /\ job'[a].loaded = row /\ job'[a].wanted = config /\ job'[a].number = 0
      /\ job'[a].alone = AllRest(a)
  BY <1>1 DEF Began
<1>4. TypesTypeOK'
  BY <1>1 DEF Began, TypesInv, TypesTypeOK
<1>5. \A b \in Editor : JobOK(b)'
  <2>1. JobOK(a)'
    BY <1>0, <1>1, <1>3 DEF Began, JobOK, FirstStep
  <2>2. ASSUME NEW b \in Editor \ {a} PROVE JobOK(b)'
    BY <1>1, <1>2, <2>2 DEF Began, TypesInv, JobOK
  <2> QED
    BY <2>1, <2>2
<1>6. \A b \in Editor : AloneOK(b)'
  <2>1. AloneOK(a)'
    BY <1>0, <1>1, <1>3 DEF Began, AllRest, AloneOK, FirstStep
  <2>2. ASSUME NEW b \in Editor \ {a} PROVE AloneOK(b)'
    BY <1>1, <2>2 DEF Began, AloneOK
  <2> QED
    BY <2>1, <2>2
<1>7. TornOK'
  BY <1>1, <1>3 DEF Began, AllRest, TypesInv, TornOK
<1>8. Settled'
  <2>1. ~torn' => Unwritten /\ ~torn
    BY <1>1 DEF Began, AllRest, Unwritten
  <2> QED
    BY <1>2, <2>1 DEF TypesInv, Settled, InOrder
<1>9. \A r \in Maker : MakerOK(r)'
  BY <1>1, <1>2 DEF Began, TypesInv, MakerOK
<1>10. NotYet'
  BY DEF TypesInv, NotYet
<1> QED
  BY <1>4, <1>5, <1>6, <1>7, <1>8, <1>9, <1>10 DEF TypesInv

(* createRequestType begins                                                  *)
LEMMA CreateTypeOK ==
  ASSUME TypesInv, NEW a \in Editor, NEW config \in Sent, CreateType(a, config)
  PROVE  TypesInv'
<1>0. /\ row = NoConfig /\ config.form \notin removed /\ row' = config /\ config \in Config
      /\ UNCHANGED <<deleted, typeVersions, removed>>
  BY TypesAssumption DEF CreateType
<1>1. Began(a, "v1", NoConfig, config)
  <2>1. Begins(a, "v1", NoConfig, config) /\ config \in Config \cup Form /\ NoConfig \in Config \cup {NoConfig}
    BY <1>0 DEF CreateType
  <2> QED
    BY <2>1, BeginsOK
<1>2. Latest' = Latest
  BY <1>0, LatestStays
<1>3. /\ job'[a].pc = "v1" /\ job'[a].wanted = config /\ job'[a].alone = AllRest(a) /\ row' # NoConfig
  BY <1>0, <1>1, TypesAssumption DEF Began
<1>4. TypesTypeOK'
  BY <1>0, <1>1 DEF Began, TypesInv, TypesTypeOK
<1>5. DOMAIN typeVersions = {} /\ \A r \in Maker : making[r].pc = "none"
  BY <1>0 DEF TypesInv, NotYet
<1>6. \A b \in Editor : JobOK(b)'
  <2>1. JobOK(a)'
    BY <1>0, <1>3 DEF JobOK
  <2>2. ASSUME NEW b \in Editor \ {a} PROVE JobOK(b)'
    BY <1>0, <1>1, <1>2, <1>3, <2>2 DEF Began, TypesInv, JobOK
  <2> QED
    BY <2>1, <2>2
<1>7. \A b \in Editor : AloneOK(b)'
  <2>1. AsCreated'
    BY <1>0, <1>1, <1>5 DEF Began, AsCreated
  <2>2. AloneOK(a)'
    BY <1>0, <1>1, <1>3, <2>1 DEF Began, AllRest, AloneOK
  <2>3. ASSUME NEW b \in Editor \ {a} PROVE AloneOK(b)'
    BY <1>1, <2>3 DEF Began, AloneOK
  <2> QED
    BY <2>2, <2>3
<1>8. TornOK'
  BY <1>1, <1>3 DEF Began, AllRest, TypesInv, TornOK
<1>9. Settled'
  BY <1>1, <1>3 DEF Began, Settled, Unwritten
<1>10. \A r \in Maker : MakerOK(r)'
  BY <1>1, <1>5 DEF Began, MakerOK
<1>11. NotYet'
  BY <1>3 DEF NotYet
<1> QED
  BY <1>4, <1>6, <1>7, <1>8, <1>9, <1>10, <1>11 DEF TypesInv

(* deleteForm begins                                                         *)
LEMMA FormUnusedOK ==
  ASSUME TypesInv, NEW a \in Editor, NEW f \in Form, FormUnused(a, f)
  PROVE  TypesInv'
<1>0. /\ deleted \/ row = NoConfig \/ row.form # f
      /\ UNCHANGED <<row, deleted, typeVersions, removed>>
  BY DEF FormUnused
<1>1. Began(a, "drop", NoConfig, f)
  <2>1. Begins(a, "drop", NoConfig, f) /\ f \in Config \cup Form /\ NoConfig \in Config \cup {NoConfig}
    BY DEF FormUnused
  <2> QED
    BY <2>1, BeginsOK
<1>2. Latest' = Latest
  BY <1>0, LatestStays
<1>3. /\ job'[a].pc = "drop" /\ job'[a].wanted = f /\ job'[a].alone = AllRest(a)
  BY <1>1 DEF Began
<1>4. TypesTypeOK'
  BY <1>0, <1>1 DEF Began, TypesInv, TypesTypeOK
<1>6. \A b \in Editor : JobOK(b)'
  <2>1. JobOK(a)'
    BY <1>0, <1>3 DEF JobOK
  <2>2. ASSUME NEW b \in Editor \ {a} PROVE JobOK(b)'
    BY <1>0, <1>1, <1>2, <1>3, <2>2 DEF Began, TypesInv, JobOK
  <2> QED
    BY <2>1, <2>2
<1>7. \A b \in Editor : AloneOK(b)'
  <2>2. AloneOK(a)'
    BY <1>0, <1>1, <1>3 DEF Began, AllRest, AloneOK
  <2>3. ASSUME NEW b \in Editor \ {a} PROVE AloneOK(b)'
    BY <1>1, <2>3 DEF Began, AloneOK
  <2> QED
    BY <2>2, <2>3
<1>8. TornOK'
  BY <1>1, <1>3 DEF Began, AllRest, TypesInv, TornOK
<1>9. Settled'
  <2>1. ~torn' => Unwritten /\ ~torn
    BY <1>1 DEF Began, AllRest, Unwritten
  <2> QED
    BY <1>0, <1>2, <2>1 DEF TypesInv, Settled, InOrder
<1>10. \A r \in Maker : MakerOK(r)'
  BY <1>0, <1>1, <1>2 DEF Began, TypesInv, MakerOK
<1>11. NotYet'
  BY <1>0, <1>1 DEF Began, TypesInv, NotYet
<1> QED
  BY <1>4, <1>6, <1>7, <1>8, <1>9, <1>10, <1>11 DEF TypesInv

-----------------------------------------------------------------------------
(* While one save is under way no other is alone                             *)
LEMMA NobodyElseAlone ==
  ASSUME TypesInv, NEW a \in Editor, NEW b \in Editor \ {a}, job[a] # AtEase, job[b] # AtEase
  PROVE  ~job[b].alone /\ torn
<1>1. AloneOK(b) /\ TornOK
  BY DEF TypesInv
<1> QED
  BY <1>1 DEF AloneOK, TornOK

(* Version 1 of a new type                                                   *)
LEMMA CreateVersionOK ==
  ASSUME TypesInv, NEW a \in Editor, CreateVersion(a)
  PROVE  TypesInv'
<1>0. /\ job[a] # AtEase /\ job[a].pc = "v1" /\ job[a].wanted \in Config /\ row # NoConfig /\ job[a] \in Job
      /\ typeVersions' = IF DOMAIN typeVersions = {} THEN Recorded(1, job[a].wanted) ELSE typeVersions
      /\ job' = [job EXCEPT ![a] = AtEase] /\ torn' = (torn /\ ~job[a].alone)
      /\ UNCHANGED <<row, deleted, removed, making, saves>>
  BY DEF CreateVersion, Busy, Closes, TypesInv, JobOK, TypesTypeOK
<1>1. /\ \E n \in 0..MaxTypeVersion : typeVersions' \in [1..n -> Config]
      /\ DOMAIN typeVersions' # {} /\ DOMAIN typeVersions \subseteq DOMAIN typeVersions'
      /\ \A m \in DOMAIN typeVersions : typeVersions'[m] = typeVersions[m]
      /\ DOMAIN typeVersions # {} => Latest' = Latest
      /\ DOMAIN typeVersions = {} => typeVersions'[Latest'] = job[a].wanted
  <2>1. CASE DOMAIN typeVersions = {}
    <3>1. NextNumber = 1 /\ NextNumber <= MaxTypeVersion
      BY <2>1, TypesAssumption DEF NextNumber
    <3>2. typeVersions' = Recorded(NextNumber, job[a].wanted)
      BY <1>0, <2>1, <3>1
    <3> QED
      BY <1>0, <2>1, <3>1, <3>2, Recording DEF TypesInv
  <2>2. CASE DOMAIN typeVersions # {}
    <3>1. typeVersions' = typeVersions
      BY <1>0, <2>2
    <3>2. Latest' = Latest
      BY <3>1, LatestStays
    <3> QED
      BY <2>2, <3>1, <3>2 DEF TypesInv, TypesTypeOK
  <2> QED
    BY <2>1, <2>2
<1>2. job' \in [Editor -> Job \cup {AtEase}] /\ job'[a] = AtEase /\ \A b \in Editor \ {a} : job'[b] = job[b]
  BY <1>0 DEF TypesInv, TypesTypeOK
<1>3. TypesTypeOK'
  BY <1>0, <1>1, <1>2 DEF TypesInv, TypesTypeOK
<1>4. \A b \in Editor : JobOK(b)'
  BY <1>0, <1>1, <1>2 DEF TypesInv, JobOK
<1>5. \A b \in Editor : AloneOK(b)'
  BY <1>0, <1>2, NobodyElseAlone DEF AloneOK
<1>6. TornOK'
  BY <1>0, <1>2, NobodyElseAlone DEF TypesInv, TornOK
<1>7. Settled'
  <2> SUFFICES ASSUME ~torn' PROVE InOrder'
    BY DEF Settled
  <2>1. job[a].alone
    BY <1>0 DEF TypesInv, TornOK
  <2>2. row = job[a].wanted /\ row.form \notin removed /\ (DOMAIN typeVersions # {} => typeVersions[Latest] = row)
    BY <1>0, <2>1 DEF TypesInv, AloneOK, AsCreated
  <2>3. DOMAIN typeVersions # {} => Latest \in DOMAIN typeVersions
    BY LatestTyped DEF TypesInv
  <2> QED
    BY <1>0, <1>1, <2>2, <2>3 DEF InOrder
<1>8. \A r \in Maker : MakerOK(r)'
  <2>1. ~Quiet
    BY <1>0 DEF Quiet
  <2> QED
    BY <1>0, <1>1, <2>1 DEF TypesInv, MakerOK
<1>9. NotYet'
  BY <1>0 DEF NotYet
<1> QED
  BY <1>3, <1>4, <1>5, <1>6, <1>7, <1>8, <1>9 DEF TypesInv

(* A type without a version gets one before it is written                    *)
LEMMA EnsureOK ==
  ASSUME TypesInv, NEW a \in Editor, Ensure(a)
  PROVE  TypesInv'
<1>0. /\ job[a] # AtEase /\ job[a].pc = "ensure" /\ job[a].wanted \in Config /\ job[a].loaded \in Config
      /\ row # NoConfig /\ job[a] \in Job
      /\ typeVersions' = IF DOMAIN typeVersions = {} THEN Recorded(1, job[a].loaded) ELSE typeVersions
      /\ job' = [job EXCEPT ![a].pc = "write"]
      /\ UNCHANGED <<row, deleted, removed, making, saves, torn>>
  BY DEF Ensure, Busy, Proceeds, TypesInv, JobOK, TypesTypeOK
<1>1. /\ \E n \in 0..MaxTypeVersion : typeVersions' \in [1..n -> Config]
      /\ DOMAIN typeVersions' # {} /\ DOMAIN typeVersions \subseteq DOMAIN typeVersions'
      /\ \A m \in DOMAIN typeVersions : typeVersions'[m] = typeVersions[m]
      /\ DOMAIN typeVersions # {} => Latest' = Latest
      /\ DOMAIN typeVersions # {} => typeVersions' = typeVersions
  <2>1. CASE DOMAIN typeVersions = {}
    <3>1. NextNumber = 1 /\ NextNumber <= MaxTypeVersion
      BY <2>1, TypesAssumption DEF NextNumber
    <3>2. typeVersions' = Recorded(NextNumber, job[a].loaded)
      BY <1>0, <2>1, <3>1
    <3> QED
      BY <1>0, <2>1, <3>1, <3>2, Recording DEF TypesInv
  <2>2. CASE DOMAIN typeVersions # {}
    <3>1. typeVersions' = typeVersions
      BY <1>0, <2>2
    <3>2. Latest' = Latest
      BY <3>1, LatestStays
    <3> QED
      BY <2>2, <3>1, <3>2 DEF TypesInv, TypesTypeOK
  <2> QED
    BY <2>1, <2>2
<1>2. \A x \in Job : LET y == [x EXCEPT !.pc = "write"] IN
        /\ y \in Job /\ y.pc = "write" /\ y.loaded = x.loaded /\ y.wanted = x.wanted /\ y.alone = x.alone
        /\ y # AtEase
  BY DEF Job, AtEase
<1>3. /\ job' \in [Editor -> Job \cup {AtEase}] /\ \A b \in Editor \ {a} : job'[b] = job[b]
      /\ job'[a].pc = "write" /\ job'[a].loaded = job[a].loaded /\ job'[a].wanted = job[a].wanted
      /\ job'[a].alone = job[a].alone /\ job'[a] # AtEase
  BY <1>0, <1>2 DEF TypesInv, TypesTypeOK
<1>4. TypesTypeOK'
  BY <1>0, <1>1, <1>3 DEF TypesInv, TypesTypeOK
<1>5. \A b \in Editor : JobOK(b)'
  BY <1>0, <1>1, <1>3 DEF TypesInv, JobOK
<1>6. \A b \in Editor : AloneOK(b)'
  <2>1. AloneOK(a)'
    BY <1>0, <1>3 DEF TypesInv, AloneOK
  <2>2. ASSUME NEW b \in Editor \ {a} PROVE AloneOK(b)'
    BY <1>0, <1>3, <2>2, NobodyElseAlone DEF AloneOK
  <2> QED
    BY <2>1, <2>2
<1>7. TornOK'
  BY <1>0, <1>3 DEF TypesInv, TornOK
<1>8. Settled'
  <2> SUFFICES ASSUME Unwritten', ~torn' PROVE InOrder'
    BY DEF Settled
  <2>1. Unwritten
    BY <1>0, <1>3 DEF Unwritten
  <2>2. InOrder
    BY <1>0, <2>1 DEF TypesInv, Settled
  <2> QED
    BY <1>0, <1>1, <2>2 DEF InOrder
<1>9. \A r \in Maker : MakerOK(r)'
  <2>1. ~Quiet
    BY <1>0 DEF Quiet
  <2> QED
    BY <1>0, <1>1, <2>1 DEF TypesInv, MakerOK
<1>10. NotYet'
  BY <1>0 DEF NotYet
<1> QED
  BY <1>4, <1>5, <1>6, <1>7, <1>8, <1>9, <1>10 DEF TypesInv

(* The columns that change are written: all of what is wanted, if nobody else *)
(* wrote meanwhile                                                           *)
LEMMA WriteOK ==
  ASSUME TypesInv, NEW a \in Editor, Write(a)
  PROVE  TypesInv'
<1>0. /\ job[a] # AtEase /\ job[a].pc = "write" /\ job[a].wanted \in Config /\ job[a].loaded \in Config
      /\ row \in Config /\ row # NoConfig /\ job[a] \in Job /\ DOMAIN typeVersions # {}
      /\ row' = [c \in Columns |-> IF job[a].wanted[c] # job[a].loaded[c] THEN job[a].wanted[c] ELSE row[c]]
      /\ job' = [job EXCEPT ![a].pc = "record"]
      /\ UNCHANGED <<deleted, typeVersions, removed, making, saves, torn>>
  BY DEF Write, Busy, Proceeds, TypesInv, JobOK, TypesTypeOK
<1>1. row' \in Config /\ row' # NoConfig /\ (job[a].loaded = row => row' = job[a].wanted)
  BY <1>0, TypesAssumption DEF Columns, Config
<1>2. \A x \in Job : LET y == [x EXCEPT !.pc = "record"] IN
        /\ y \in Job /\ y.pc = "record" /\ y.loaded = x.loaded /\ y.wanted = x.wanted /\ y.alone = x.alone
        /\ y # AtEase
  BY DEF Job, AtEase
<1>3. /\ job' \in [Editor -> Job \cup {AtEase}] /\ \A b \in Editor \ {a} : job'[b] = job[b]
      /\ job'[a].pc = "record" /\ job'[a].loaded = job[a].loaded /\ job'[a].wanted = job[a].wanted
      /\ job'[a].alone = job[a].alone /\ job'[a] # AtEase
  BY <1>0, <1>2 DEF TypesInv, TypesTypeOK
<1>4. TypesTypeOK'
  BY <1>0, <1>1, <1>3 DEF TypesInv, TypesTypeOK
<1>5. \A b \in Editor : JobOK(b)'
  <2>1. Latest' = Latest
    BY <1>0, LatestStays
  <2> QED
    BY <1>0, <1>1, <1>3, <2>1 DEF TypesInv, JobOK
<1>6. \A b \in Editor : AloneOK(b)'
  <2>1. AloneOK(a)'
    BY <1>0, <1>1, <1>3 DEF TypesInv, AloneOK
  <2>2. ASSUME NEW b \in Editor \ {a} PROVE AloneOK(b)'
    BY <1>0, <1>3, <2>2, NobodyElseAlone DEF AloneOK
  <2> QED
    BY <2>1, <2>2
<1>7. TornOK'
  BY <1>0, <1>3 DEF TypesInv, TornOK
<1>8. Settled'
  BY <1>3 DEF Settled, Unwritten
<1>9. \A r \in Maker : MakerOK(r)'
  <2>1. ~Quiet
    BY <1>0 DEF Quiet
  <2> QED
    BY <1>0, <2>1 DEF TypesInv, MakerOK
<1>10. NotYet'
  BY <1>1 DEF NotYet
<1> QED
  BY <1>4, <1>5, <1>6, <1>7, <1>8, <1>9, <1>10 DEF TypesInv

(* What was written has a version already, or is to have the next one        *)
LEMMA RecordOK ==
  ASSUME TypesInv, NEW a \in Editor, Record(a)
  PROVE  TypesInv'
<1>0. /\ job[a] # AtEase /\ job[a].pc = "record" /\ job[a].wanted \in Config /\ row # NoConfig
      /\ job[a] \in Job /\ DOMAIN typeVersions # {}
      /\ UNCHANGED <<row, deleted, typeVersions, removed, making, saves>>
  BY DEF Record, Busy, TypesInv, JobOK, TypesTypeOK
<1>1. Latest' = Latest
  BY <1>0, LatestStays
<1>2. Latest \in 1..MaxTypeVersion /\ DOMAIN typeVersions = 1..Latest /\ typeVersions[Latest] \in Config
  BY <1>0, LatestTyped DEF TypesInv
<1>3. \A r \in Maker : MakerOK(r)'
  <2>1. ~Quiet
    BY <1>0 DEF Quiet
  <2> QED
    BY <1>0, <2>1 DEF TypesInv, MakerOK
<1>4. CASE SameSnapshot(typeVersions[Latest], job[a].wanted)
  <2>1. typeVersions[Latest] = job[a].wanted
    BY <1>0, <1>2, <1>4 DEF SameSnapshot, Config
  <2>2. job' = [job EXCEPT ![a] = AtEase] /\ torn' = (torn /\ ~job[a].alone)
    BY <1>4 DEF Record, Closes
  <2>3. job' \in [Editor -> Job \cup {AtEase}] /\ job'[a] = AtEase /\ \A b \in Editor \ {a} : job'[b] = job[b]
    BY <2>2 DEF TypesInv, TypesTypeOK
  <2>4. TypesTypeOK'
    BY <1>0, <2>2, <2>3 DEF TypesInv, TypesTypeOK
  <2>5. \A b \in Editor : JobOK(b)'
    BY <1>0, <1>1, <2>3 DEF TypesInv, JobOK
  <2>6. \A b \in Editor : AloneOK(b)'
    BY <1>0, <2>3, NobodyElseAlone DEF AloneOK
  <2>7. TornOK'
    BY <1>0, <2>2, <2>3, NobodyElseAlone DEF TypesInv, TornOK
  <2>8. Settled'
    <3> SUFFICES ASSUME ~torn' PROVE InOrder'
      BY DEF Settled
    <3>1. job[a].alone
      BY <1>0, <2>2 DEF TypesInv, TornOK
    <3>2. row = job[a].wanted /\ row.form \notin removed
      BY <1>0, <3>1 DEF TypesInv, AloneOK
    <3> QED
      BY <1>0, <1>1, <2>1, <3>2 DEF InOrder
  <2>9. NotYet'
    BY <1>0 DEF NotYet
  <2> QED
    BY <1>3, <2>4, <2>5, <2>6, <2>7, <2>8, <2>9 DEF TypesInv
<1>5. CASE ~SameSnapshot(typeVersions[Latest], job[a].wanted)
  <2>1. job' = [job EXCEPT ![a].pc = "insert", ![a].number = Latest + 1] /\ torn' = torn
    BY <1>5 DEF Record
  <2>2. \A x \in Job, i \in 0..(MaxTypeVersion + 1) :
          LET y == [[x EXCEPT !.pc = "insert"] EXCEPT !.number = i]
          IN  /\ y \in Job /\ y.pc = "insert" /\ y.number = i /\ y.wanted = x.wanted /\ y.alone = x.alone
              /\ y # AtEase
    BY DEF Job, AtEase
  <2>11. Latest + 1 \in 0..(MaxTypeVersion + 1) /\ Latest + 1 \in 1..(Latest + 1)
    BY <1>2, TypesAssumption
  <2>3. /\ job' \in [Editor -> Job \cup {AtEase}] /\ \A b \in Editor \ {a} : job'[b] = job[b]
        /\ job'[a].pc = "insert" /\ job'[a].number = Latest + 1 /\ job'[a].wanted = job[a].wanted
        /\ job'[a].alone = job[a].alone /\ job'[a] # AtEase
    <3> DEFINE y == [[job[a] EXCEPT !.pc = "insert"] EXCEPT !.number = Latest + 1]
    <3>1. /\ y \in Job /\ y.pc = "insert" /\ y.number = Latest + 1
          /\ y.wanted = job[a].wanted /\ y.alone = job[a].alone /\ y # AtEase
      BY <1>0, <2>2, <2>11
    <3>2. job \in [Editor -> Job \cup {AtEase}]
      BY DEF TypesInv, TypesTypeOK
    <3>3. job'[a] = y /\ (\A b \in Editor \ {a} : job'[b] = job[b]) /\ DOMAIN job' = Editor
          /\ job' = [b \in Editor |-> IF b = a THEN y ELSE job[b]]
      BY <2>1, <3>2
    <3> HIDE DEF y
    <3> QED
      BY <3>1, <3>2, <3>3
  <2>4. TypesTypeOK'
    BY <1>0, <2>1, <2>3 DEF TypesInv, TypesTypeOK
  <2>5. \A b \in Editor : JobOK(b)'
    BY <1>0, <1>1, <2>3, <2>11 DEF TypesInv, JobOK
  <2>6. \A b \in Editor : AloneOK(b)'
    <3>1. AloneOK(a)'
      BY <1>0, <2>3 DEF TypesInv, AloneOK
    <3>2. ASSUME NEW b \in Editor \ {a} PROVE AloneOK(b)'
      BY <1>0, <2>3, <3>2, NobodyElseAlone DEF AloneOK
    <3> QED
      BY <3>1, <3>2
  <2>7. TornOK'
    BY <1>0, <2>1, <2>3 DEF TypesInv, TornOK
  <2>8. Settled'
    BY <2>3 DEF Settled, Unwritten
  <2>9. NotYet'
    BY <1>0 DEF NotYet
  <2>10. \A r \in Maker : MakerOK(r)'
    BY <1>3
  <2> QED
    BY <2>4, <2>5, <2>6, <2>7, <2>8, <2>9, <2>10 DEF TypesInv
<1> QED
  BY <1>4, <1>5

(* The next version is what was written                                      *)
LEMMA InsertOK ==
  ASSUME TypesInv, NEW a \in Editor, Insert(a)
  PROVE  TypesInv'
<1>0. /\ job[a] # AtEase /\ job[a].pc = "insert" /\ job[a].wanted \in Config /\ row # NoConfig
      /\ job[a] \in Job /\ DOMAIN typeVersions # {}
      /\ job[a].number \in 1..(Latest + 1) /\ job[a].number \notin DOMAIN typeVersions /\ job[a].number <= MaxTypeVersion
      /\ typeVersions' = Recorded(job[a].number, job[a].wanted)
      /\ job' = [job EXCEPT ![a] = AtEase] /\ torn' = (torn /\ ~job[a].alone)
      /\ UNCHANGED <<row, deleted, removed, making, saves>>
  BY DEF Insert, Busy, Closes, TypesInv, JobOK, TypesTypeOK
<1>1. /\ \E n \in 0..MaxTypeVersion : typeVersions' \in [1..n -> Config]
      /\ DOMAIN typeVersions' # {} /\ DOMAIN typeVersions \subseteq DOMAIN typeVersions'
      /\ \A m \in DOMAIN typeVersions : typeVersions'[m] = typeVersions[m]
      /\ Latest' = Latest + 1 /\ typeVersions'[Latest'] = job[a].wanted
      /\ Latest \in Nat
  <2>1. Latest \in 1..MaxTypeVersion /\ DOMAIN typeVersions = 1..Latest
    BY <1>0, LatestTyped DEF TypesInv
  <2>2. job[a].number = Latest + 1
    BY <1>0, <2>1, TypesAssumption
  <2>3. NextNumber = Latest + 1 /\ NextNumber <= MaxTypeVersion /\ typeVersions' = Recorded(NextNumber, job[a].wanted)
    BY <1>0, <2>2 DEF NextNumber
  <2>4. /\ \E n \in 0..MaxTypeVersion : typeVersions' \in [1..n -> Config]
        /\ DOMAIN typeVersions' # {} /\ DOMAIN typeVersions \subseteq DOMAIN typeVersions'
        /\ Latest' = NextNumber /\ typeVersions'[Latest'] = job[a].wanted
        /\ \A m \in DOMAIN typeVersions : typeVersions'[m] = typeVersions[m]
    BY <1>0, <2>3, Recording DEF TypesInv
  <2>5. Latest \in Nat /\ Latest' = Latest + 1
    BY <2>1, <2>3, <2>4, TypesAssumption
  <2> QED
    BY <2>4, <2>5
<1>2. job' \in [Editor -> Job \cup {AtEase}] /\ job'[a] = AtEase /\ \A b \in Editor \ {a} : job'[b] = job[b]
  BY <1>0 DEF TypesInv, TypesTypeOK
<1>3. TypesTypeOK'
  BY <1>0, <1>1, <1>2 DEF TypesInv, TypesTypeOK
<1>4. \A b \in Editor : JobOK(b)'
  BY <1>0, <1>1, <1>2 DEF TypesInv, JobOK
<1>5. \A b \in Editor : AloneOK(b)'
  BY <1>0, <1>2, NobodyElseAlone DEF AloneOK
<1>6. TornOK'
  BY <1>0, <1>2, NobodyElseAlone DEF TypesInv, TornOK
<1>7. Settled'
  <2> SUFFICES ASSUME ~torn' PROVE InOrder'
    BY DEF Settled
  <2>1. job[a].alone
    BY <1>0 DEF TypesInv, TornOK
  <2>2. row = job[a].wanted /\ row.form \notin removed
    BY <1>0, <2>1 DEF TypesInv, AloneOK
  <2> QED
    BY <1>0, <1>1, <2>2 DEF InOrder
<1>8. \A r \in Maker : MakerOK(r)'
  <2>1. ~Quiet
    BY <1>0 DEF Quiet
  <2> QED
    BY <1>0, <1>1, <2>1 DEF TypesInv, MakerOK
<1>9. NotYet'
  BY <1>0 DEF NotYet
<1> QED
  BY <1>3, <1>4, <1>5, <1>6, <1>7, <1>8, <1>9 DEF TypesInv

(* A save is given up: what it had written is torn from its version          *)
LEMMA AbandonOK ==
  ASSUME TypesInv, NEW a \in Editor, Abandon(a)
  PROVE  TypesInv'
<1>0. /\ job[a] # AtEase /\ job[a] \in Job
      /\ job' = [job EXCEPT ![a] = AtEase]
      /\ torn' = (torn \/ job[a].pc \in {"v1", "record", "insert"})
      /\ UNCHANGED <<row, deleted, typeVersions, removed, making, saves>>
  BY DEF Abandon, TypesInv, TypesTypeOK
<1>1. Latest' = Latest
  BY <1>0, LatestStays
<1>2. job' \in [Editor -> Job \cup {AtEase}] /\ job'[a] = AtEase /\ \A b \in Editor \ {a} : job'[b] = job[b]
  BY <1>0 DEF TypesInv, TypesTypeOK
<1>3. TypesTypeOK'
  BY <1>0, <1>2 DEF TypesInv, TypesTypeOK
<1>4. \A b \in Editor : JobOK(b)'
  BY <1>0, <1>1, <1>2 DEF TypesInv, JobOK
<1>5. \A b \in Editor : AloneOK(b)'
  BY <1>0, <1>2, NobodyElseAlone DEF AloneOK
<1>6. TornOK'
  BY <1>0, <1>2, NobodyElseAlone DEF TypesInv, TornOK
<1>7. Settled'
  <2> SUFFICES ASSUME Unwritten', ~torn', row' # NoConfig PROVE InOrder'
    BY DEF Settled
  <2>1. job[a].pc \in {"ensure", "write", "drop"} /\ ~torn
    BY <1>0 DEF Job
  <2>2. Unwritten
    BY <1>2, <2>1 DEF Unwritten
  <2> QED
    BY <1>0, <1>1, <2>1, <2>2 DEF TypesInv, Settled, InOrder
<1>8. \A r \in Maker : MakerOK(r)'
  <2>1. ~Quiet
    BY <1>0 DEF Quiet
  <2> QED
    BY <1>0, <2>1 DEF TypesInv, MakerOK
<1>9. NotYet'
  BY <1>0 DEF TypesInv, NotYet
<1> QED
  BY <1>3, <1>4, <1>5, <1>6, <1>7, <1>8, <1>9 DEF TypesInv

-----------------------------------------------------------------------------
(* Deletions                                                                 *)

LEMMA DeleteTypeOK ==
  ASSUME TypesInv, DeleteType
  PROVE  TypesInv'
<1>0. row # NoConfig /\ deleted' = TRUE /\ UNCHANGED <<row, typeVersions, removed, job, making, saves, torn>>
  BY DEF DeleteType
<1>1. Latest' = Latest
  BY <1>0, LatestStays
<1>2. TypesTypeOK'
  BY <1>0 DEF TypesInv, TypesTypeOK
<1>3. \A b \in Editor : JobOK(b)' /\ AloneOK(b)'
  BY <1>0, <1>1 DEF TypesInv, JobOK, AloneOK, AsCreated
<1>4. TornOK' /\ NotYet'
  BY <1>0 DEF TypesInv, TornOK, NotYet
<1>5. Settled'
  BY <1>0, <1>1 DEF TypesInv, Settled, Unwritten, InOrder
<1>6. \A r \in Maker : MakerOK(r)'
  BY <1>0, <1>1 DEF TypesInv, MakerOK, Quiet
<1> QED
  BY <1>2, <1>3, <1>4, <1>5, <1>6 DEF TypesInv

LEMMA DeleteFormOK ==
  ASSUME TypesInv, NEW a \in Editor, DeleteForm(a)
  PROVE  TypesInv'
<1>0. /\ job[a] # AtEase /\ job[a].pc = "drop" /\ job[a].wanted \in Form
      /\ removed' = removed \cup {job[a].wanted}
      /\ job' = [job EXCEPT ![a] = AtEase]
      /\ UNCHANGED <<row, deleted, typeVersions, making, saves, torn>>
  BY DEF DeleteForm, Busy, TypesInv, JobOK
<1>1. Latest' = Latest
  BY <1>0, LatestStays
<1>2. job' \in [Editor -> Job \cup {AtEase}] /\ job'[a] = AtEase /\ \A b \in Editor \ {a} : job'[b] = job[b]
  BY <1>0 DEF TypesInv, TypesTypeOK
<1>3. TypesTypeOK'
  BY <1>0, <1>2 DEF TypesInv, TypesTypeOK
<1>4. \A b \in Editor : JobOK(b)'
  BY <1>0, <1>1, <1>2 DEF TypesInv, JobOK
<1>5. \A b \in Editor : AloneOK(b)'
  BY <1>0, <1>2, NobodyElseAlone DEF AloneOK
<1>6. TornOK' /\ NotYet'
  BY <1>0, <1>2 DEF TypesInv, TornOK, NotYet
<1>7. Settled'
  <2> SUFFICES ASSUME Unwritten', ~torn', row' # NoConfig PROVE InOrder'
    BY DEF Settled
  <2>1. job[a].alone
    BY <1>0 DEF TypesInv, TornOK
  <2>2. deleted \/ row = NoConfig \/ row.form # job[a].wanted
    BY <1>0, <2>1 DEF TypesInv, AloneOK
  <2>3. Unwritten
    BY <1>0, <1>2 DEF Unwritten
  <2> QED
    BY <1>0, <1>1, <2>2, <2>3 DEF TypesInv, Settled, InOrder
<1>8. \A r \in Maker : MakerOK(r)'
  <2>1. ~Quiet
    BY <1>0 DEF Quiet
  <2> QED
    BY <1>0, <2>1 DEF TypesInv, MakerOK
<1> QED
  BY <1>3, <1>4, <1>5, <1>6, <1>7, <1>8 DEF TypesInv

LEMMA DeleteCategoryOK ==
  ASSUME TypesInv, NEW c \in Category, DeleteCategory(c)
  PROVE  TypesInv'
<1>0. removed' = removed \cup {c} /\ UNCHANGED <<row, deleted, typeVersions, job, making, saves, torn>>
  BY DEF DeleteCategory
<1>1. Latest' = Latest
  BY <1>0, LatestStays
<1>2. TypesTypeOK'
  BY <1>0 DEF TypesInv, TypesTypeOK
<1>3. \A x \in Config : x.form \notin removed => x.form \notin removed'
  BY <1>0, TypesAssumption DEF Config
<1>4. \A b \in Editor : JobOK(b)'
  BY <1>0, <1>1 DEF TypesInv, JobOK
<1>5. \A b \in Editor : AloneOK(b)'
  BY <1>0, <1>1, <1>3 DEF TypesInv, JobOK, AloneOK, AsCreated
<1>6. TornOK' /\ NotYet'
  BY <1>0 DEF TypesInv, TornOK, NotYet
<1>7. Settled'
  BY <1>0, <1>1, <1>3 DEF TypesInv, TypesTypeOK, Settled, Unwritten, InOrder
<1>8. \A r \in Maker : MakerOK(r)'
  BY <1>0, <1>1 DEF TypesInv, MakerOK, Quiet
<1> QED
  BY <1>2, <1>4, <1>5, <1>6, <1>7, <1>8 DEF TypesInv

-----------------------------------------------------------------------------
(* Requests of the type                                                     *)

LEMMA StartRequestOK ==
  ASSUME TypesInv, NEW r \in Maker, StartRequest(r)
  PROVE  TypesInv'
<1> DEFINE new == [pc |-> "read", seen |-> row, calm |-> Quiet /\ ~torn, shown |-> Shown, pinned |-> 0]
<1>0. /\ row # NoConfig /\ row \in Config /\ making' = [making EXCEPT ![r] = new]
      /\ UNCHANGED <<row, deleted, typeVersions, removed, job, saves, torn>>
  BY DEF StartRequest, Creatable, TypesInv, TypesTypeOK
<1>1. Latest' = Latest
  BY <1>0, LatestStays
<1>2. new \in Making
  <2>1. Shown \in 1..MaxTypeVersion
    <3>1. CASE DOMAIN typeVersions = {}
      BY <3>1, TypesAssumption DEF Shown
    <3>2. CASE DOMAIN typeVersions # {}
      BY <3>2, LatestTyped DEF Shown, TypesInv
    <3> QED
      BY <3>1, <3>2
  <2>2. (Quiet /\ ~torn) \in BOOLEAN /\ 0 \in 0..MaxTypeVersion
    BY TypesAssumption
  <2> QED
    BY <1>0, <2>1, <2>2 DEF Making
<1>3. making' \in [Maker -> Making] /\ making'[r] = new /\ \A q \in Maker \ {r} : making'[q] = making[q]
  BY <1>0, <1>2 DEF TypesInv, TypesTypeOK
<1>4. new.pc = "read" /\ new.seen = row /\ new.calm = (Quiet /\ ~torn) /\ new.shown = Shown
  OBVIOUS
<1> HIDE DEF new
<1>5. TypesTypeOK'
  BY <1>0, <1>3 DEF TypesInv, TypesTypeOK
<1>6. \A b \in Editor : JobOK(b)'
  BY <1>0, <1>1 DEF TypesInv, JobOK
<1>7. \A b \in Editor : AloneOK(b)'
  BY <1>0, <1>1, <1>3, <1>4 DEF TypesInv, AloneOK, AsCreated
<1>8. TornOK' /\ NotYet'
  BY <1>0 DEF TypesInv, TornOK, NotYet
<1>9. Settled'
  BY <1>0, <1>1 DEF TypesInv, Settled, Unwritten, InOrder
<1>10. MakerOK(r)'
  <2> SUFFICES ASSUME Quiet, ~torn PROVE Shown = Latest
    BY <1>0, <1>1, <1>3, <1>4 DEF MakerOK, Quiet
  <2>1. InOrder
    BY <1>0 DEF TypesInv, Settled, Unwritten, Quiet
  <2> QED
    BY <2>1 DEF InOrder, Shown
<1>11. \A q \in Maker : MakerOK(q)'
  BY <1>0, <1>1, <1>3, <1>10 DEF TypesInv, MakerOK, Quiet
<1> QED
  BY <1>5, <1>6, <1>7, <1>8, <1>9, <1>11 DEF TypesInv

LEMMA PinVersionsOK ==
  ASSUME TypesInv, NEW r \in Maker, PinVersions(r)
  PROVE  TypesInv'
<1>0. /\ making[r].pc = "read" /\ making[r] \in Making /\ making[r].seen \in Config /\ row # NoConfig
      /\ typeVersions' = IF DOMAIN typeVersions = {} THEN Recorded(1, making[r].seen) ELSE typeVersions
      /\ making' = [making EXCEPT ![r].pc = "made", ![r].pinned = Shown]
      /\ UNCHANGED <<row, deleted, removed, job, saves, torn>>
  BY DEF PinVersions, TypesInv, NotYet, TypesTypeOK, Making
<1>1. /\ \E n \in 0..MaxTypeVersion : typeVersions' \in [1..n -> Config]
      /\ DOMAIN typeVersions' # {} /\ DOMAIN typeVersions \subseteq DOMAIN typeVersions'
      /\ \A m \in DOMAIN typeVersions : typeVersions'[m] = typeVersions[m]
      /\ DOMAIN typeVersions # {} => Latest' = Latest
      /\ DOMAIN typeVersions = {} => typeVersions'[Latest'] = making[r].seen
      /\ Shown \in DOMAIN typeVersions' /\ Shown \in 1..MaxTypeVersion
  <2>1. CASE DOMAIN typeVersions = {}
    <3>1. NextNumber = 1 /\ NextNumber <= MaxTypeVersion /\ Shown = 1 /\ 1 \in 1..MaxTypeVersion
      BY <2>1, TypesAssumption DEF NextNumber, Shown
    <3>2. typeVersions' = Recorded(NextNumber, making[r].seen)
      BY <1>0, <2>1, <3>1
    <3>3. 1 \in DOMAIN typeVersions'
      BY <3>1, <3>2 DEF Recorded
    <3> QED
      BY <1>0, <2>1, <3>1, <3>2, <3>3, Recording DEF TypesInv
  <2>2. CASE DOMAIN typeVersions # {}
    <3>1. typeVersions' = typeVersions
      BY <1>0, <2>2
    <3>2. Latest' = Latest
      BY <3>1, LatestStays
    <3>3. Latest \in 1..MaxTypeVersion /\ DOMAIN typeVersions = 1..Latest /\ Shown = Latest
      BY <2>2, LatestTyped DEF TypesInv, Shown
    <3>4. Latest \in 1..Latest
      BY <3>3, TypesAssumption
    <3> QED
      BY <2>2, <3>1, <3>2, <3>3, <3>4 DEF TypesInv, TypesTypeOK
  <2> QED
    BY <2>1, <2>2
<1>2. \A x \in Making, i \in 0..MaxTypeVersion : x.pc = "read" =>
        LET y == [[x EXCEPT !.pc = "made"] EXCEPT !.pinned = i]
        IN  /\ y \in Making /\ y.pc = "made" /\ y.pinned = i
            /\ y.seen = x.seen /\ y.shown = x.shown /\ y.calm = x.calm
  BY DEF Making
<1>3. /\ making' \in [Maker -> Making] /\ \A q \in Maker \ {r} : making'[q] = making[q]
      /\ making'[r].pc = "made" /\ making'[r].pinned = Shown
      /\ making'[r].seen = making[r].seen /\ making'[r].shown = making[r].shown /\ making'[r].calm = making[r].calm
  <2> DEFINE y == [[making[r] EXCEPT !.pc = "made"] EXCEPT !.pinned = Shown]
  <2>1. /\ y \in Making /\ y.pc = "made" /\ y.pinned = Shown
        /\ y.seen = making[r].seen /\ y.shown = making[r].shown /\ y.calm = making[r].calm
    <3>1. Shown \in 0..MaxTypeVersion
      BY <1>1, TypesAssumption
    <3> QED
      BY <1>0, <1>2, <3>1
  <2>2. making \in [Maker -> Making]
    BY DEF TypesInv, TypesTypeOK
  <2>3. making' = [q \in Maker |-> IF q = r THEN y ELSE making[q]]
    BY <1>0, <2>2
  <2> HIDE DEF y
  <2> QED
    BY <2>1, <2>2, <2>3
<1>4. TypesTypeOK'
  BY <1>0, <1>1, <1>3 DEF TypesInv, TypesTypeOK
<1>5. \A b \in Editor : JobOK(b)'
  BY <1>0, <1>1 DEF TypesInv, JobOK
<1>6. \A b \in Editor : AloneOK(b)'
  <2>1. AsCreated => AsCreated'
    <3> SUFFICES ASSUME AsCreated PROVE typeVersions'[Latest'] = row'
      BY <1>0, <1>3 DEF AsCreated
    <3>1. DOMAIN typeVersions # {} => Latest \in DOMAIN typeVersions
      BY LatestTyped DEF TypesInv
    <3> QED
      BY <1>0, <1>1, <3>1 DEF AsCreated
  <2> QED
    BY <1>0, <2>1 DEF TypesInv, AloneOK
<1>7. TornOK' /\ NotYet'
  BY <1>0 DEF TypesInv, TornOK, NotYet
<1>8. Settled'
  <2> SUFFICES ASSUME Unwritten', ~torn' PROVE InOrder'
    BY DEF Settled
  <2>1. InOrder
    BY <1>0 DEF TypesInv, Settled, Unwritten
  <2>2. Latest \in DOMAIN typeVersions
    <3>1. DOMAIN typeVersions = 1..Latest /\ Latest \in 1..MaxTypeVersion
      BY <2>1, LatestTyped DEF InOrder, TypesInv
    <3> QED
      BY <3>1, TypesAssumption
  <2> QED
    BY <1>0, <1>1, <2>1, <2>2 DEF InOrder
<1>9. MakerOK(r)'
  <2> SUFFICES ASSUME making[r].calm PROVE Shown = making[r].shown /\ typeVersions'[Shown] = making[r].seen
    BY <1>1, <1>3 DEF MakerOK
  <2>1. Quiet /\ ~torn /\ making[r].seen = row /\ making[r].shown = Latest
    BY <1>0 DEF TypesInv, MakerOK
  <2>2. InOrder
    BY <1>0, <2>1 DEF TypesInv, Settled, Unwritten, Quiet
  <2> QED
    BY <1>0, <2>1, <2>2 DEF InOrder, Shown
<1>10. \A q \in Maker : MakerOK(q)'
  <2>1. ASSUME NEW q \in Maker \ {r} PROVE MakerOK(q)'
    <3>1. making[q].pc = "read" /\ making[q].calm => MakerOK(q)'
      <4> SUFFICES ASSUME making[q].pc = "read", making[q].calm PROVE Latest' = Latest
        BY <1>0, <1>3 DEF TypesInv, MakerOK, Quiet
      <4>1. Quiet /\ ~torn
        BY DEF TypesInv, MakerOK
      <4>2. InOrder
        BY <1>0, <4>1 DEF TypesInv, Settled, Unwritten, Quiet
      <4> QED
        BY <1>1, <4>2 DEF InOrder
    <3>2. making[q].pc = "made" => MakerOK(q)'
      BY <1>1, <1>3 DEF TypesInv, MakerOK
    <3> QED
      BY <1>3, <3>1, <3>2 DEF MakerOK
  <2> QED
    BY <1>9, <2>1
<1> QED
  BY <1>4, <1>5, <1>6, <1>7, <1>8, <1>10 DEF TypesInv

-----------------------------------------------------------------------------
LEMMA StutterOK ==
  ASSUME TypesInv, UNCHANGED typeVars
  PROVE  TypesInv'
<1>1. Latest' = Latest
  BY LatestStays DEF typeVars
<1>2. TypesTypeOK'
  BY DEF typeVars, TypesInv, TypesTypeOK
<1>3. \A b \in Editor : JobOK(b)' /\ AloneOK(b)'
  BY <1>1 DEF typeVars, TypesInv, JobOK, AloneOK, AsCreated
<1>4. TornOK' /\ NotYet' /\ Settled'
  BY <1>1 DEF typeVars, TypesInv, TornOK, NotYet, Settled, Unwritten, InOrder
<1>5. \A r \in Maker : MakerOK(r)'
  BY <1>1 DEF typeVars, TypesInv, MakerOK, Quiet
<1> QED
  BY <1>2, <1>3, <1>4, <1>5 DEF TypesInv

LEMMA NextOK ==
  ASSUME TypesInv, [TypesNext]_typeVars
  PROVE  TypesInv'
<1>1. ASSUME NEW a \in Editor, NEW config \in Sent, CreateType(a, config) PROVE TypesInv'
  BY <1>1, CreateTypeOK
<1>2. ASSUME NEW a \in Editor, NEW config \in Sent, Update(a, config) PROVE TypesInv'
  <2>1. /\ config \in Config /\ row # NoConfig /\ config.form \notin removed
        /\ Begins(a, FirstStep, row, config) /\ UNCHANGED <<row, deleted, typeVersions, removed>>
    BY <1>2, TypesAssumption DEF Update
  <2> QED
    BY <2>1, UpdateBegins
<1>3. ASSUME NEW a \in Editor, NEW n \in DOMAIN typeVersions, Restore(a, n) PROVE TypesInv'
  <2>1. typeVersions[n] \in Config
    BY DEF TypesInv, TypesTypeOK
  <2>2. /\ row # NoConfig /\ typeVersions[n].form \notin removed
        /\ Begins(a, FirstStep, row, typeVersions[n]) /\ UNCHANGED <<row, deleted, typeVersions, removed>>
    BY <1>3 DEF Restore
  <2> QED
    BY <2>1, <2>2, UpdateBegins
<1>4. ASSUME NEW a \in Editor, NEW f \in Form, FormUnused(a, f) PROVE TypesInv'
  BY <1>4, FormUnusedOK
<1>5. ASSUME NEW a \in Editor,
             CreateVersion(a) \/ Ensure(a) \/ Write(a) \/ Record(a) \/ Insert(a) \/ DeleteForm(a) \/ Abandon(a)
      PROVE  TypesInv'
  BY <1>5, CreateVersionOK, EnsureOK, WriteOK, RecordOK, InsertOK, DeleteFormOK, AbandonOK
<1>6. CASE DeleteType
  BY <1>6, DeleteTypeOK
<1>7. ASSUME NEW c \in Category, DeleteCategory(c) PROVE TypesInv'
  BY <1>7, DeleteCategoryOK
<1>8. ASSUME NEW r \in Maker, StartRequest(r) \/ PinVersions(r) PROVE TypesInv'
  BY <1>8, StartRequestOK, PinVersionsOK
<1>9. CASE UNCHANGED typeVars
  BY <1>9, StutterOK
<1> QED
  BY <1>1, <1>2, <1>3, <1>4, <1>5, <1>6, <1>7, <1>8, <1>9 DEF TypesNext

(* For any number of administrators, requests and saves, which may overlap    *)
(* and die as they like: unless a save was torn since the last one that was   *)
(* made alone, the latest version of a type is what the type is, and its form *)
(* exists; a request made while nobody saved keeps the version it was offered.*)
THEOREM TypesStayVersioned == TypesSpec => []TypesAreVersioned
<1>1. TypesInit => TypesInv
  BY InitOK
<1>2. TypesInv /\ [TypesNext]_typeVars => TypesInv'
  BY NextOK
<1>3. TypesInv => TypesAreVersioned
  BY DEF TypesInv, Settled, Unwritten, InOrder, Quiet, MakerOK, TypesAreVersioned
<1> QED
  BY <1>1, <1>2, <1>3, PTL DEF TypesSpec

-----------------------------------------------------------------------------
(* The first field with a key is the only one                                *)
LEMMA FirstIsIt ==
  ASSUME NEW S, NEW fs \in Seq(S), DistinctKeys(fs), NEW i \in DOMAIN fs
  PROVE  First(fs, fs[i].key) = fs[i]
<1> DEFINE P(n) == fs[n].key = fs[i].key /\ \A j \in 1..(n - 1) : fs[j].key # fs[i].key
<1>1. DOMAIN fs = 1..Len(fs) /\ Len(fs) \in Nat
  OBVIOUS
<1>2. P(i)
  BY <1>1 DEF DistinctKeys
<1>3. \E n \in DOMAIN fs : P(n)
  BY <1>2
<1> DEFINE c == CHOOSE n \in DOMAIN fs : P(n)
<1>4. c \in DOMAIN fs /\ P(c)
  BY <1>3
<1>5. c = i
  BY <1>4 DEF DistinctKeys
<1> QED  BY <1>5 DEF First

LEMMA FieldOf ==
  ASSUME NEW fs \in Seq(FormField), FormIsValid(fs), NEW k \in Keys(fs)
  PROVE  /\ First(fs, k) \in FormField /\ First(fs, k).type # "formula"
         /\ First(fs, k).type = "table" => TableIsValid(First(fs, k))
<1>1. PICK i \in DOMAIN fs : fs[i].key = k
  BY DEF Keys
<1>2. First(fs, k) = fs[i]
  BY <1>1, FirstIsIt DEF FormIsValid
<1>3. fs[i] \in FormField
  OBVIOUS
<1> QED  BY <1>2, <1>3 DEF FormIsValid

LEMMA FieldsHaveKeys ==
  ASSUME NEW fs \in Seq(FormField)
  PROVE  Keys(fs) \subseteq Key
<1>1. \A i \in DOMAIN fs : fs[i] \in FormField
  OBVIOUS
<1> QED  BY <1>1 DEF Keys, FormField

LEMMA CellsHaveKeys ==
  ASSUME NEW f \in FormField
  PROVE  CellKeys(f) \subseteq Keys(f.columns) /\ Keys(f.columns) \subseteq Key
<1>1. f.columns \in Seq(TableColumn)
  BY DEF FormField
<1>2. \A i \in DOMAIN f.columns : f.columns[i] \in TableColumn
  BY <1>1
<1>3. Keys(f.columns) \subseteq Key
  BY <1>2 DEF Keys, TableColumn
<1> QED  BY <1>3 DEF CellKeys

(* A computed cell has operands that are not computed                        *)
LEMMA ColumnOf ==
  ASSUME NEW f \in FormField, TableIsValid(f), NEW k \in Keys(f.columns)
  PROVE  LET c == First(f.columns, k) IN
         /\ c \in TableColumn
         /\ c.type = "formula" => /\ c.formula.left \in CellKeys(f)
                                  /\ c.formula.right \in Key => c.formula.right \in CellKeys(f)
<1> DEFINE cs == f.columns
<1>0. cs \in Seq(TableColumn) /\ DistinctKeys(cs)
  BY DEF FormField, TableIsValid
<1>1. PICK i \in DOMAIN cs : cs[i].key = k
  BY DEF Keys
<1>2. ASSUME NEW j \in DOMAIN cs
      PROVE  First(cs, cs[j].key) = cs[j] /\ cs[j] \in TableColumn
  BY <1>0, FirstIsIt
<1>3. ASSUME NEW l, NEW j \in DOMAIN cs, cs[j].key = l, cs[j].type \in Numbers
      PROVE  l \in CellKeys(f)
  BY <1>2, <1>3 DEF CellKeys, Keys, Numbers
<1>4. cs[i].type = "formula" => FormulaOperandsValid(cs[i], cs)
  BY DEF TableIsValid
<1> QED  BY <1>1, <1>2, <1>3, <1>4 DEF FormulaOperandsValid

-----------------------------------------------------------------------------
LEMMA FitsByType ==
  ASSUME NEW f, NEW v, NEW day
  PROVE  /\ f.type \in Texts =>
              (Fits(f, v, day) <=> v.kind = "string" /\ Trim[v.of] \in f.allowed /\ (f.required => Trim[v.of] # Blank))
         /\ f.type \in Numbers => (Fits(f, v, day) <=> v.kind = "number" /\ v.of \in f.allowed)
         /\ f.type = "date" => (Fits(f, v, day) <=> v.kind = "string" /\ v.of \in f.allowed /\ WithinToday(f, v.of, day))
         /\ f.type = "select" => (Fits(f, v, day) <=> v.kind = "string" /\ v.of \in f.allowed)
         /\ f.type = "dateRange" =>
              (Fits(f, v, day) <=> /\ v.kind = "strings" /\ Len(v.of) = 2
                                   /\ \A i \in 1..2 : v.of[i] \in f.allowed /\ WithinToday(f, v.of[i], day))
         /\ f.type = "switch" => (Fits(f, v, day) <=> v.kind = "boolean")
         /\ f.type \in References =>
              (Fits(f, v, day) <=> IF f.multiple THEN /\ v.kind = "records" /\ \A i \in DOMAIN v.of : v.of[i] \in Entity
                                                      /\ f.required => v.of # <<>>
                                   ELSE v.kind = "record" /\ v.of \in Entity)
BY DEF Fits, Texts, Numbers, References

LEMMA TrimmingKeeps ==
  ASSUME NEW f, NEW v, NEW day, v # Nothing => IsCell(v), FitsOrEmpty(f, v, day)
  PROVE  LET w == Trimmed(f, v) IN
         /\ v = Nothing <=> w = Nothing
         /\ w # Nothing => IsCell(w) /\ w.kind = v.kind
         /\ FitsOrEmpty(f, w, day) /\ Trimmed(f, w) = w /\ UniqueKey(w) = UniqueKey(v)
<1> DEFINE w == Trimmed(f, v)
<1>1. CASE v = Nothing \/ f.type \notin Texts
  BY <1>1 DEF Trimmed
<1>2. CASE v # Nothing /\ f.type \in Texts
  <2>1. /\ v.kind = "string" /\ Trim[v.of] \in f.allowed /\ (f.required => Trim[v.of] # Blank)
        /\ v = [kind |-> "string", of |-> v.of] /\ v.of \in Text
    BY <1>2, FitsByType DEF FitsOrEmpty, IsCell
  <2>2. w = [kind |-> "string", of |-> Trim[v.of]]
    BY <1>2, <2>1 DEF Trimmed
  <2>3. Trim[v.of] \in Text /\ Trim[Trim[v.of]] = Trim[v.of] /\ Fold[Trim[v.of]] = Fold[v.of]
    BY <2>1, FormsAssumption
  <2> HIDE DEF w
  <2>4. w # Nothing /\ v # Nothing
    BY <1>2, <2>2 DEF Nothing
  <2>5. IsCell(w) /\ w.kind = v.kind
    BY <2>1, <2>2, <2>3 DEF IsCell, Kinds
  <2>6. FitsOrEmpty(f, w, day)
    BY <1>2, <2>1, <2>2, <2>3, <2>4, FitsByType DEF FitsOrEmpty
  <2>7. Trimmed(f, w) = w
    BY <2>2, <2>3 DEF Trimmed
  <2>8. UniqueKey(w) = UniqueKey(v)
    BY <2>1, <2>2, <2>3 DEF UniqueKey
  <2> QED  BY <2>4, <2>5, <2>6, <2>7, <2>8 DEF w
<1> QED  BY <1>1, <1>2

-----------------------------------------------------------------------------
IsCells(cells) == cells = [k \in Key |-> cells[k]] /\ \A k \in Key : cells[k] # Nothing => IsCell(cells[k])

LEMMA ResultsAreNumbers ==
  ASSUME NEW op \in {"+", "-", "*", "/"}, NEW l \in Int, NEW r \in Int, op = "/" => r # 0
  PROVE  Result(op, l, r) \in Int
<1>1. ASSUME NEW n \in Int, NEW d \in Int, d # 0
      PROVE  Round(n, d) \in Int
  <2>1. CASE d < 0
    <3>1. -2 * d \in Int /\ -2 * d > 0 /\ -2 * n - d \in Int
      BY <2>1
    <3> QED  BY <2>1, <3>1 DEF Round
  <2>2. CASE ~(d < 0)
    <3>1. 2 * d \in Int /\ 2 * d > 0 /\ 2 * n + d \in Int
      BY <1>1, <2>2
    <3> QED  BY <2>2, <3>1 DEF Round
  <2> QED  BY <2>1, <2>2
<1>2. l * r \in Int /\ 100 * l \in Int /\ l + r \in Int /\ l - r \in Int
  OBVIOUS
<1> HIDE DEF Round
<1> QED  BY <1>1, <1>2 DEF Result

LEMMA ComputedIsCells ==
  ASSUME NEW f \in FormField, TableIsValid(f), NEW cells, IsCells(cells)
  PROVE  IsCells(Computed(f.columns, cells))
<1> DEFINE q == Computed(f.columns, cells)
<1>1. ASSUME NEW k \in Key, q[k] # Nothing
      PROVE  IsCell(q[k])
  <2>1. CASE k \in Keys(f.columns) /\ First(f.columns, k).type = "formula"
    <3> DEFINE g == First(f.columns, k).formula
               l == cells[g.left]
               r == IF g.right \in Key THEN cells[g.right] ELSE [kind |-> "number", of |-> g.right]
    <3>1. g \in ColumnFormula
      BY <2>1, ColumnOf DEF TableColumn
    <3>2. q[k] = ComputeFormula(cells, g)
      BY <2>1 DEF Computed
    <3> HIDE DEF q, g
    <3>3. l.kind = "number" /\ r.kind = "number" /\ ~(g.op = "/" /\ r.of = 0)
          /\ q[k] = [kind |-> "number", of |-> Result(g.op, l.of, r.of)]
      BY <1>1, <3>2 DEF ComputeFormula
    <3>4. /\ g.left \in Key /\ g.op \in {"+", "-", "*", "/"} /\ g.right \in Key \cup Int
      BY <3>1 DEF ColumnFormula
    <3>5. l.of \in Int
      BY <3>3, <3>4 DEF IsCells, IsCell, Nothing
    <3>6. r.of \in Int
      BY <3>3, <3>4 DEF IsCells, IsCell, Nothing
    <3> HIDE DEF l, r
    <3>7. Result(g.op, l.of, r.of) \in Int
      BY <3>3, <3>4, <3>5, <3>6, ResultsAreNumbers
    <3> QED  BY <3>3, <3>7 DEF IsCell, Kinds
  <2>2. CASE ~(k \in Keys(f.columns) /\ First(f.columns, k).type = "formula")
    BY <1>1, <2>2 DEF Computed, IsCells
  <2> QED  BY <2>1, <2>2
<1>2. q = [k \in Key |-> q[k]]
  BY DEF Computed
<1> QED  BY <1>1, <1>2 DEF IsCells

(* Computing leaves what was entered as it is, so a second time changes      *)
(* nothing                                                                   *)
LEMMA ComputedOnce ==
  ASSUME NEW f \in FormField, TableIsValid(f), NEW cells
  PROVE  LET q == Computed(f.columns, cells) IN
         /\ \A k \in CellKeys(f) \cap Key : q[k] = cells[k]
         /\ Computed(f.columns, q) = q
<1> DEFINE q == Computed(f.columns, cells)
<1>1. ASSUME NEW k \in CellKeys(f) \cap Key
      PROVE  q[k] = cells[k]
  BY DEF Computed, CellKeys
<1>2. ASSUME NEW k \in Key
      PROVE  Computed(f.columns, q)[k] = q[k]
  <2>1. CASE k \in Keys(f.columns) /\ First(f.columns, k).type = "formula"
    <3> DEFINE g == First(f.columns, k).formula
    <3>1. g \in ColumnFormula /\ g.left \in CellKeys(f) /\ (g.right \in Key => g.right \in CellKeys(f))
      BY <2>1, ColumnOf DEF TableColumn
    <3>2. q[g.left] = cells[g.left] /\ (g.right \in Key => q[g.right] = cells[g.right])
      BY <3>1, <1>1 DEF ColumnFormula
    <3>3. q[k] = ComputeFormula(cells, g) /\ Computed(f.columns, q)[k] = ComputeFormula(q, g)
      BY <2>1 DEF Computed
    <3> HIDE DEF q, g
    <3>4. ComputeFormula(q, g) = ComputeFormula(cells, g)
      BY <3>2 DEF ComputeFormula
    <3> QED  BY <3>3, <3>4
  <2>2. CASE ~(k \in Keys(f.columns) /\ First(f.columns, k).type = "formula")
    BY <2>2 DEF Computed
  <2> QED  BY <2>1, <2>2
<1>3. Computed(f.columns, q) = [k \in Key |-> Computed(f.columns, q)[k]] /\ q = [k \in Key |-> q[k]]
  BY DEF Computed
<1>4. Computed(f.columns, q) = q
  BY <1>2, <1>3
<1> QED  BY <1>1, <1>4

-----------------------------------------------------------------------------
(* What an accepted row becomes                                              *)
LEMMA RowOnceParsed ==
  ASSUME NEW f \in FormField, TableIsValid(f), NEW given, IsRow(given), NEW day,
         \A k \in CellKeys(f) : FitsOrEmpty(First(f.columns, k), given.cells[k], day)
  PROVE  LET q == ParsedRow(f, given) IN
         /\ IsRow(q) /\ q.id = Bare(given.id) /\ ParsedRow(f, q) = q /\ Computed(f.columns, q.cells) = q.cells
         /\ \A k \in CellKeys(f) : /\ FitsOrEmpty(First(f.columns, k), q.cells[k], day)
                                   /\ UniqueKey(q.cells[k]) = UniqueKey(given.cells[k])
<1> DEFINE cs == f.columns
           C == CellKeys(f)
           g == TrimmedAll(cs, Only(C, given.cells))
           q == ParsedRow(f, given)
<1>0. Bare(given.id) \in Int /\ Bare(Bare(given.id)) = Bare(given.id)
  BY FormsAssumption DEF IsRow, Bare
<1>1. C \subseteq Key /\ C \subseteq Keys(cs)
  BY CellsHaveKeys
<1>2. ASSUME NEW k \in C
      PROVE  /\ g[k] = Trimmed(First(cs, k), given.cells[k])
             /\ g[k] # Nothing => IsCell(g[k])
             /\ FitsOrEmpty(First(cs, k), g[k], day) /\ Trimmed(First(cs, k), g[k]) = g[k]
             /\ UniqueKey(g[k]) = UniqueKey(given.cells[k])
  <2>1. g[k] = Trimmed(First(cs, k), given.cells[k])
    BY <1>1 DEF TrimmedAll, Only
  <2>2. FitsOrEmpty(First(cs, k), given.cells[k], day) /\ (given.cells[k] # Nothing => IsCell(given.cells[k]))
    BY <1>1 DEF IsRow
  <2> QED  BY <2>1, <2>2, TrimmingKeeps
<1>3. ASSUME NEW k \in Key \ C
      PROVE  g[k] = Nothing
  BY <1>3 DEF TrimmedAll, Only, Trimmed
<1>4. g = [k \in Key |-> g[k]]
  BY DEF TrimmedAll
<1>5. given.id \in Int /\ given = [id |-> given.id, cells |-> given.cells]
  BY DEF IsRow
<1>6. q = [id |-> Bare(given.id), cells |-> Computed(cs, g)]
  BY <1>5 DEF ParsedRow
<1> HIDE DEF g, q
<1>7. IsCells(g)
  BY <1>2, <1>3, <1>4 DEF IsCells
<1>8. IsCells(Computed(cs, g))
  BY <1>7, ComputedIsCells
<1>9. /\ \A k \in C : Computed(cs, g)[k] = g[k]
      /\ Computed(cs, Computed(cs, g)) = Computed(cs, g)
  BY <1>1, ComputedOnce
<1>10. IsRow(q)
  BY <1>0, <1>6, <1>8 DEF IsRow, IsCells
<1>11. ParsedRow(f, q) = q
  <2> DEFINE h == TrimmedAll(cs, Only(C, q.cells))
  <2>1. ParsedRow(f, q) = [id |-> Bare(given.id), cells |-> Computed(cs, h)]
    BY <1>0, <1>6 DEF ParsedRow
  <2>2. ASSUME NEW k \in C
        PROVE  h[k] = g[k]
    <3>1. h[k] = Trimmed(First(cs, k), q.cells[k])
      BY <1>1 DEF TrimmedAll, Only
    <3>2. q.cells[k] = g[k]
      BY <1>6, <1>9
    <3> QED  BY <3>1, <3>2, <1>2
  <2>3. ASSUME NEW k \in Key \ C
        PROVE  h[k] = g[k]
    BY <2>3, <1>3 DEF TrimmedAll, Only, Trimmed
  <2>4. h = [k \in Key |-> h[k]]
    BY DEF TrimmedAll
  <2> HIDE DEF h
  <2>5. h = g
    BY <2>2, <2>3, <2>4, <1>4, <1>1
  <2> QED  BY <2>1, <2>5, <1>6
<1>12. ASSUME NEW k \in C
       PROVE  FitsOrEmpty(First(cs, k), q.cells[k], day) /\ UniqueKey(q.cells[k]) = UniqueKey(given.cells[k])
  BY <1>2, <1>6, <1>9
<1>13. q.id = Bare(given.id) /\ Computed(cs, q.cells) = q.cells
  BY <1>6, <1>9
<1> QED  BY <1>10, <1>11, <1>12, <1>13 DEF q

(* ... and an accepted table                                                 *)
RowsParsed(f, v) == [v EXCEPT !.of = [i \in DOMAIN @ |-> ParsedRow(f, @[i])]]

LEMMA ListOf ==
  ASSUME NEW n \in Nat, NEW s, s = [i \in 1..n |-> s[i]]
  PROVE  Len(s) = n /\ DOMAIN s = 1..n
<1>1. s \in [1..n -> {s[i] : i \in 1..n}]
  OBVIOUS
<1>2. s \in Seq({s[i] : i \in 1..n})
  BY <1>1
<1> QED  BY <1>1, <1>2

LEMMA TableOnceParsed ==
  ASSUME NEW f \in FormField, TableIsValid(f), NEW v, IsCell(v), IsTable(v), NEW day, TableFits(f, v, day)
  PROVE  LET w == RowsParsed(f, v) IN
         /\ IsCell(w) /\ w.kind = "rows" /\ IsTable(w) /\ TableFits(f, w, day) /\ RowsParsed(f, w) = w
         /\ \A i \in 1..Len(w.of) : Computed(f.columns, w.of[i].cells) = w.of[i].cells
<1> DEFINE n == Len(v.of)
           r == [i \in 1..n |-> ParsedRow(f, v.of[i])]
           w == RowsParsed(f, v)
<1>1. /\ n \in Nat /\ v.of = [i \in 1..n |-> v.of[i]] /\ v = [kind |-> "rows", of |-> v.of]
      /\ \A i \in 1..n : IsRow(v.of[i])
  BY DEF IsTable, IsCell, TableFits
<1>2. DOMAIN v.of = 1..n
  BY <1>1
<1>3. w = [kind |-> "rows", of |-> r]
  <2>1. w = [v EXCEPT !.of = r]
    BY <1>2 DEF RowsParsed
  <2> HIDE DEF w, r
  <2> QED  BY <1>1, <2>1
<1>4. ASSUME NEW i \in 1..n
      PROVE  /\ IsRow(r[i]) /\ r[i].id = Bare(v.of[i].id) /\ ParsedRow(f, r[i]) = r[i]
             /\ Computed(f.columns, r[i].cells) = r[i].cells
             /\ \A k \in CellKeys(f) : /\ FitsOrEmpty(First(f.columns, k), r[i].cells[k], day)
                                       /\ UniqueKey(r[i].cells[k]) = UniqueKey(v.of[i].cells[k])
  <2>1. r[i] = ParsedRow(f, v.of[i])
    OBVIOUS
  <2>2. \A k \in CellKeys(f) : FitsOrEmpty(First(f.columns, k), v.of[i].cells[k], day)
    BY <1>2 DEF TableFits
  <2> DEFINE given == v.of[i]
  <2>3. IsRow(given) /\ \A k \in CellKeys(f) : FitsOrEmpty(First(f.columns, k), given.cells[k], day)
    BY <1>1, <2>2
  <2>4. r[i] = ParsedRow(f, given)
    BY <2>1
  <2> HIDE DEF r, given
  <2>5. /\ IsRow(r[i]) /\ r[i].id = Bare(given.id) /\ ParsedRow(f, r[i]) = r[i]
        /\ Computed(f.columns, r[i].cells) = r[i].cells
        /\ \A k \in CellKeys(f) : /\ FitsOrEmpty(First(f.columns, k), r[i].cells[k], day)
                                  /\ UniqueKey(r[i].cells[k]) = UniqueKey(given.cells[k])
    BY <2>3, <2>4, RowOnceParsed
  <2> QED  BY <2>5 DEF given
<1>5. r = [i \in 1..n |-> r[i]]
  OBVIOUS
<1> HIDE DEF r, w
<1>6. Len(r) = n /\ DOMAIN r = 1..n
  BY <1>1, <1>5, ListOf
<1>7. IsCell(w) /\ IsTable(w) /\ w.kind = "rows"
  BY <1>1, <1>3, <1>4, <1>5, <1>6 DEF IsCell, IsTable, Kinds
<1>8. TableFits(f, w, day)
  <2>1. n \in f.minRows..f.maxRows
    BY DEF TableFits
  <2>2. ASSUME NEW i \in 1..n
        PROVE  r[i].id # 0 /\ Bare(r[i].id) \notin LongId /\ \A k \in CellKeys(f) : FitsOrEmpty(First(f.columns, k), r[i].cells[k], day)
    <3>1. /\ v.of[i].id \in Int /\ v.of[i].id # 0 /\ Bare(v.of[i].id) \notin LongId
      BY <1>1, <1>2 DEF TableFits, IsRow
    <3>2. Bare(v.of[i].id) # 0 /\ Bare(Bare(v.of[i].id)) = Bare(v.of[i].id)
      BY <3>1, FormsAssumption DEF Bare
    <3> QED  BY <1>4, <3>1, <3>2
  <2>3. ASSUME NEW i \in 1..n, NEW j \in 1..n, i # j
        PROVE  /\ Bare(r[i].id) # Bare(r[j].id)
               /\ \A k \in { c \in CellKeys(f) : First(f.columns, c).unique } :
                    LET key == UniqueKey(r[i].cells[k]) IN key # Nothing => key # UniqueKey(r[j].cells[k])
    <3>1. /\ Bare(v.of[i].id) # Bare(v.of[j].id)
          /\ \A k \in { c \in CellKeys(f) : First(f.columns, c).unique } :
                    LET key == UniqueKey(v.of[i].cells[k]) IN key # Nothing => key # UniqueKey(v.of[j].cells[k])
      BY <1>2, <2>3 DEF TableFits
    <3>2. Bare(Bare(v.of[i].id)) = Bare(v.of[i].id) /\ Bare(Bare(v.of[j].id)) = Bare(v.of[j].id)
      BY FormsAssumption DEF Bare
    <3> QED  BY <3>1, <3>2, <1>4
  <2> QED  BY <2>1, <2>2, <2>3, <1>3, <1>6 DEF TableFits
<1>9. RowsParsed(f, w) = w
  <2>1. [i \in DOMAIN r |-> ParsedRow(f, r[i])] = r
    BY <1>4, <1>5, <1>6
  <2> QED  BY <1>3, <2>1 DEF RowsParsed
<1>10. \A i \in 1..Len(w.of) : Computed(f.columns, w.of[i].cells) = w.of[i].cells
  BY <1>3, <1>4, <1>6
<1> QED  BY <1>7, <1>8, <1>9, <1>10 DEF w

(* Parsing is complete: what it returns is accepted and stays as it is       *)
LEMMA OnceParsed ==
  ASSUME NEW fs \in Seq(FormField), FormIsValid(fs), NEW p, IsPayload(p), NEW day, Accepted(fs, p, day)
  PROVE  LET q == Parsed(fs, p) IN
         IsPayload(q) /\ Accepted(fs, q, day) /\ Parsed(fs, q) = q
<1> DEFINE q == Parsed(fs, p)
<1>1. q = [k \in Key |-> q[k]] /\ Parsed(fs, q) = [k \in Key |-> Parsed(fs, q)[k]]
  BY DEF Parsed
<1>2. Keys(fs) \subseteq Key
  BY FieldsHaveKeys
<1>3. ASSUME NEW k \in Key
      PROVE  /\ q[k] # Nothing => IsCell(q[k]) /\ (q[k].kind = "rows" => IsTable(q[k]))
             /\ Parsed(fs, q)[k] = q[k]
             /\ k \in Keys(fs) => LET f == First(fs, k) IN
                  IF q[k] # Nothing /\ f.type = "table" THEN TableFits(f, q[k], day) ELSE FitsOrEmpty(f, q[k], day)
  <2> DEFINE f == First(fs, k)
  <2>1. CASE k \notin Keys(fs)
    BY <2>1 DEF Parsed
  <2>2. CASE k \in Keys(fs) /\ p[k] = Nothing
    <3>1. q[k] = Nothing /\ Parsed(fs, q)[k] = Nothing
      BY <2>2 DEF Parsed
    <3>2. FitsOrEmpty(f, Nothing, day)
      BY <2>2 DEF Accepted
    <3> HIDE DEF q, f
    <3> QED  BY <3>1, <3>2 DEF f
  <2>3. CASE k \in Keys(fs) /\ p[k] # Nothing /\ f.type = "table"
    <3>1. f \in FormField /\ TableIsValid(f) /\ TableFits(f, p[k], day)
      BY <2>3, FieldOf DEF Accepted
    <3>2. IsCell(p[k]) /\ IsTable(p[k])
      BY <2>3, <3>1 DEF IsPayload, TableFits
    <3>3. q[k] = RowsParsed(f, p[k])
      BY <2>3 DEF Parsed, RowsParsed
    <3>4. Parsed(fs, q)[k] = IF q[k] = Nothing THEN Nothing ELSE RowsParsed(f, q[k])
      BY <2>3 DEF Parsed, RowsParsed
    <3> HIDE DEF q, f
    <3>5. /\ IsCell(q[k]) /\ q[k].kind = "rows" /\ IsTable(q[k]) /\ TableFits(f, q[k], day)
          /\ RowsParsed(f, q[k]) = q[k]
      BY <3>1, <3>2, <3>3, TableOnceParsed
    <3>6. q[k] # Nothing
      BY <3>5 DEF IsCell, Nothing, Kinds
    <3> QED  BY <2>3, <3>4, <3>5, <3>6 DEF f
  <2>4. CASE k \in Keys(fs) /\ p[k] # Nothing /\ f.type # "table"
    <3>1. FitsOrEmpty(f, p[k], day) /\ IsCell(p[k]) /\ (p[k].kind = "rows" => IsTable(p[k]))
      BY <2>4 DEF Accepted, IsPayload
    <3>2. q[k] = Trimmed(f, p[k])
      BY <2>4 DEF Parsed
    <3>3. Parsed(fs, q)[k] = IF q[k] = Nothing THEN Nothing ELSE Trimmed(f, q[k])
      BY <2>4 DEF Parsed
    <3> HIDE DEF q, f
    <3>4. /\ q[k] # Nothing /\ IsCell(q[k]) /\ q[k].kind = p[k].kind
          /\ FitsOrEmpty(f, q[k], day) /\ Trimmed(f, q[k]) = q[k]
      <4> DEFINE v == p[k]
                 w == Trimmed(f, v)
      <4>1. v # Nothing /\ IsCell(v) /\ FitsOrEmpty(f, v, day) /\ q[k] = w
        BY <2>4, <3>1, <3>2
      <4> HIDE DEF v
      <4>2. /\ w # Nothing /\ IsCell(w) /\ w.kind = v.kind /\ FitsOrEmpty(f, w, day) /\ Trimmed(f, w) = w
        BY <4>1, TrimmingKeeps
      <4> QED  BY <4>1, <4>2 DEF v
    <3>5. q[k].kind = "rows" => IsTable(q[k])
      <4>1. CASE f.type \in Texts
        BY <2>4, <3>1, <3>4, <4>1, FitsByType DEF FitsOrEmpty
      <4>2. CASE f.type \notin Texts
        BY <3>1, <3>2, <4>2 DEF Trimmed
      <4> QED  BY <4>1, <4>2
    <3> QED  BY <2>4, <3>3, <3>4, <3>5 DEF f
  <2> QED  BY <2>1, <2>2, <2>3, <2>4
<1> HIDE DEF q
<1>4. IsPayload(q)
  BY <1>1, <1>3 DEF IsPayload
<1>5. Accepted(fs, q, day)
  BY <1>2, <1>3 DEF Accepted
<1>6. Parsed(fs, q) = q
  BY <1>1, <1>3
<1> QED  BY <1>4, <1>5, <1>6 DEF q

-----------------------------------------------------------------------------
(* Row ids                                                                   *)
LEMMA IdsGiven ==
  ASSUME NEW v, IsCell(v), v.kind = "rows", IsTable(v)
  PROVE  LET w == [v EXCEPT !.of = WithIds(@)] IN
         /\ IsCell(w) /\ w.kind = "rows" /\ IsTable(w)
         /\ (\A i \in 1..Len(v.of) : v.of[i].id \in Nat) => OwnIds(w.of)
         /\ OwnIds(v.of) => w = v
<1> DEFINE n == Len(v.of)
           s == v.of
           r == WithIds(v.of)
           w == [v EXCEPT !.of = WithIds(@)]
<1>1. /\ n \in Nat /\ s = [i \in 1..n |-> s[i]] /\ v = [kind |-> "rows", of |-> s]
      /\ \A i \in 1..n : IsRow(s[i])
  BY DEF IsTable, IsCell
<1>2. DOMAIN s = 1..n
  BY <1>1
<1>3. r = [i \in 1..n |-> IF s[i].id = 0 \/ \E j \in 1..(i - 1) : s[j].id = s[i].id
                           THEN [s[i] EXCEPT !.id = -i] ELSE s[i]]
  BY <1>2 DEF WithIds
<1>4. w = [kind |-> "rows", of |-> r]
  <2> HIDE DEF r
  <2> QED  BY <1>1 DEF r
<1>5. ASSUME NEW i \in 1..n
      PROVE  IsRow(r[i]) /\ (r[i] = s[i] \/ r[i].id = -i)
  <2>1. IsRow(s[i]) /\ -i \in Int
    BY <1>1
  <2>2. DOMAIN s[i] = {"id", "cells"} /\ s[i] = [id |-> s[i].id, cells |-> s[i].cells]
        /\ s[i].cells = [k \in Key |-> s[i].cells[k]]
    BY <2>1 DEF IsRow
  <2>3. IsRow([id |-> -i, cells |-> s[i].cells])
    BY <2>1, <2>2 DEF IsRow
  <2>4. [s[i] EXCEPT !.id = -i] = [id |-> -i, cells |-> s[i].cells]
    BY <2>2
  <2>5. r[i] = s[i] \/ r[i] = [s[i] EXCEPT !.id = -i]
    BY <1>3
  <2> QED  BY <2>1, <2>3, <2>4, <2>5
<1>6. r = [i \in 1..n |-> r[i]]
  BY <1>3
<1>7. Len(r) = n /\ DOMAIN r = 1..n
  <2> HIDE DEF r
  <2> QED  BY <1>1, <1>6, ListOf
<1>8. IsCell(w) /\ w.kind = "rows" /\ IsTable(w)
  <2> HIDE DEF r, w
  <2> QED  BY <1>1, <1>4, <1>5, <1>6, <1>7 DEF IsCell, IsTable, Kinds
<1>9. ASSUME \A i \in 1..n : s[i].id \in Nat
      PROVE  OwnIds(w.of)
  <2>1. ASSUME NEW i \in 1..n
        PROVE  \/ r[i].id = s[i].id /\ s[i].id \in Nat \ {0} /\ \A j \in 1..(i - 1) : s[j].id # s[i].id
               \/ r[i].id = -i
    BY <1>3, <1>5, <1>9
  <2> HIDE DEF r, s
  <2>2. ASSUME NEW i \in 1..n, NEW j \in 1..n, i # j, r[i].id = r[j].id
        PROVE  FALSE
    <3>1. CASE i < j
      <4>1. i \in 1..(j - 1)
        BY <1>1, <3>1
      <4> QED  BY <2>1, <2>2, <4>1
    <3>2. CASE j < i
      <4>1. j \in 1..(i - 1)
        BY <1>1, <3>2
      <4> QED  BY <2>1, <2>2, <4>1
    <3> QED  BY <2>2, <3>1, <3>2
  <2>3. ASSUME NEW i \in 1..n
        PROVE  r[i].id # 0
    BY <2>1
  <2> HIDE DEF w
  <2> QED  BY <1>4, <1>7, <2>2, <2>3 DEF OwnIds
<1>10. ASSUME OwnIds(s)
       PROVE  w = v
  <2>1. ASSUME NEW i \in 1..n
        PROVE  r[i] = s[i]
    <3>1. \A j \in 1..(i - 1) : j \in 1..n /\ j # i
      BY <1>1
    <3> QED  BY <1>3, <1>10, <3>1 DEF OwnIds
  <2> HIDE DEF r, s
  <2>2. r = s
    BY <2>1, <1>6, <1>1
  <2> QED  BY <2>2, <1>4, <1>1
<1> QED  BY <1>8, <1>9, <1>10

Numbered(fs, p) ==
  \A k \in Keys(fs) : First(fs, k).type = "table" /\ p[k].kind = "rows" => OwnIds(p[k].of)

LEMMA RowsNumbered ==
  ASSUME NEW fs \in Seq(FormField), NEW p, IsPayload(p)
  PROVE  LET q == EnsureTableRowIds(fs, p) IN
         /\ IsPayload(q)
         /\ (\A k \in Key : p[k].kind = "rows" => \A i \in DOMAIN p[k].of : p[k].of[i].id \in Nat) => Numbered(fs, q)
         /\ Numbered(fs, p) => q = p
<1> DEFINE q == EnsureTableRowIds(fs, p)
           Row(k) == k \in Keys(fs) /\ First(fs, k).type = "table" /\ p[k].kind = "rows"
<1>1. Keys(fs) \subseteq Key
  BY FieldsHaveKeys
<1>2. q = [k \in Key |-> q[k]]
  BY DEF EnsureTableRowIds
<1>3. ASSUME NEW k \in Key, Row(k)
      PROVE  /\ IsCell(p[k]) /\ IsTable(p[k]) /\ DOMAIN p[k].of = 1..Len(p[k].of)
             /\ q[k] = [p[k] EXCEPT !.of = WithIds(@)]
  <2>1. p[k] # Nothing
    BY <1>3 DEF Nothing
  <2>2. IsCell(p[k]) /\ IsTable(p[k])
    BY <2>1, <1>3 DEF IsPayload
  <2>3. DOMAIN p[k].of = 1..Len(p[k].of)
    BY <2>2 DEF IsTable
  <2>4. q[k] = [p[k] EXCEPT !.of = WithIds(@)]
    BY <2>1, <1>3 DEF EnsureTableRowIds
  <2> QED  BY <2>2, <2>3, <2>4
<1>4. ASSUME NEW k \in Key, ~Row(k)
      PROVE  q[k] = p[k]
  BY <1>4 DEF EnsureTableRowIds
<1> HIDE DEF q
<1>5. ASSUME NEW k \in Key, Row(k)
      PROVE  /\ IsCell(q[k]) /\ IsTable(q[k]) /\ q[k].kind = "rows"
             /\ (\A i \in DOMAIN p[k].of : p[k].of[i].id \in Nat) => OwnIds(q[k].of)
             /\ OwnIds(p[k].of) => q[k] = p[k]
  <2>1. IsCell(p[k]) /\ IsTable(p[k]) /\ DOMAIN p[k].of = 1..Len(p[k].of) /\ p[k].kind = "rows"
    BY <1>3, <1>5
  <2> DEFINE w == [p[k] EXCEPT !.of = WithIds(@)]
  <2>2. /\ IsCell(w) /\ w.kind = "rows" /\ IsTable(w)
        /\ (\A i \in 1..Len(p[k].of) : p[k].of[i].id \in Nat) => OwnIds(w.of)
        /\ OwnIds(p[k].of) => w = p[k]
    BY <2>1, IdsGiven
  <2>3. q[k] = w
    BY <1>3, <1>5
  <2> HIDE DEF w
  <2> QED  BY <2>1, <2>2, <2>3
<1>6. IsPayload(q)
  BY <1>2, <1>4, <1>5 DEF IsPayload
<1>7. ASSUME \A k \in Key : p[k].kind = "rows" => \A i \in DOMAIN p[k].of : p[k].of[i].id \in Nat
      PROVE  Numbered(fs, q)
  <2> SUFFICES ASSUME NEW k \in Keys(fs), First(fs, k).type = "table", q[k].kind = "rows"
               PROVE  OwnIds(q[k].of)
    BY DEF Numbered
  <2>1. Row(k)
    BY <1>1, <1>4
  <2> QED  BY <2>1, <1>1, <1>5, <1>7
<1>8. ASSUME Numbered(fs, p)
      PROVE  q = p
  <2>1. ASSUME NEW k \in Key
        PROVE  q[k] = p[k]
    <3>1. CASE Row(k)
      BY <3>1, <1>5, <1>8 DEF Numbered
    <3> QED  BY <3>1, <1>4
  <2>2. p = [k \in Key |-> p[k]]
    BY DEF IsPayload
  <2> QED  BY <2>1, <2>2, <1>2
<1> QED  BY <1>6, <1>7, <1>8 DEF q

-----------------------------------------------------------------------------
(* Migration of a value                                                      *)
LEMMA ShapeByType ==
  ASSUME NEW type, NEW v
  PROVE  /\ type \in Texts \cup {"date", "select"} => (HasShape(type, v) <=> v.kind = "string")
         /\ type \in Numbers => (HasShape(type, v) <=> v.kind = "number")
         /\ type = "dateRange" => (HasShape(type, v) <=> v.kind = "strings" /\ Len(v.of) = 2)
         /\ type = "switch" => (HasShape(type, v) <=> v.kind = "boolean")
         /\ type = "table" => (HasShape(type, v) <=> v.kind = "rows")
         /\ type \in References => (HasShape(type, v) <=> v.kind \in {"record", "records"})
BY DEF HasShape, Texts, Numbers, References

(* Plain: neither a table nor computed                                       *)
IsPlain(f) == f \in FormField \cup TableColumn /\ f.type \notin {"table", "formula"}

LEMMA PlainTypes ==
  ASSUME NEW f, IsPlain(f)
  PROVE  f.type \in Texts \cup Numbers \cup References \cup {"date", "select", "dateRange", "switch"}
BY DEF IsPlain, FormField, TableColumn, FormFieldType, ColumnType, Texts, Numbers, References

LEMMA KindIsShape ==
  ASSUME NEW f, IsPlain(f), NEW v
  PROVE  HasKind(f, v) <=>
           /\ HasShape(f.type, v) /\ (f.type = "select" => v.of \in f.allowed)
           /\ f.type \in References => (v.kind = "records" <=> f.multiple)
<1>1. f.type \in Texts \cup Numbers \cup References \cup {"date", "select", "dateRange", "switch"} /\ f.multiple \in BOOLEAN
  BY PlainTypes DEF IsPlain, FormField, TableColumn
<1>2. CASE f.type \in References
  <2>1. HasKind(f, v) <=> v.kind = IF f.multiple THEN "records" ELSE "record"
    BY <1>2 DEF HasKind, Texts, Numbers, References
  <2>2. HasShape(f.type, v) <=> v.kind \in {"record", "records"}
    BY <1>2, ShapeByType
  <2>3. f.type # "select"
    BY <1>2 DEF References
  <2> QED  BY <1>1, <1>2, <2>1, <2>2, <2>3
<1>3. CASE f.type \notin References
  BY <1>1, <1>3, ShapeByType DEF HasKind, Texts, Numbers
<1> QED  BY <1>2, <1>3

LEMMA FitsHaveKind ==
  ASSUME NEW f, IsPlain(f), NEW v, NEW day, Fits(f, v, day)
  PROVE  HasKind(f, v)
<1>1. f.type \in Texts \cup Numbers \cup References \cup {"date", "select", "dateRange", "switch"}
  BY PlainTypes
<1>2. CASE f.type \in References
  <2>1. IF f.multiple THEN v.kind = "records" ELSE v.kind = "record"
    BY <1>2, FitsByType
  <2> QED  BY <1>2, <2>1 DEF HasKind
<1>3. CASE f.type \notin References
  BY <1>1, <1>3, FitsByType DEF HasKind, Texts, Numbers
<1> QED  BY <1>2, <1>3

LEMMA ReferenceMigrated ==
  ASSUME NEW to, to.multiple \in BOOLEAN, NEW v, IsCell(v), v.kind \in {"record", "records"}
  PROVE  LET w == MigrateReference(to, v) IN
         /\ w # Nothing => IsCell(w) /\ w.kind \in {"record", "records"} /\ (w.kind = "records" <=> to.multiple)
         /\ (v.kind = "records" <=> to.multiple) => Same(v, w)
<1> DEFINE list == IF v.kind = "records" THEN v.of ELSE <<v.of>>
           w == MigrateReference(to, v)
<1>1. CASE to.multiple
  <2>1. w = [kind |-> "records", of |-> list]
    BY <1>1 DEF MigrateReference
  <2> HIDE DEF w
  <2>2. IsCell(w) /\ w # Nothing
    BY <2>1 DEF IsCell, Kinds, Nothing
  <2>3. v # Nothing
    BY DEF Nothing
  <2> QED  BY <1>1, <2>1, <2>2, <2>3 DEF Same, w
<1>2. CASE ~to.multiple
  <2>1. w = IF Len(list) = 1 THEN [kind |-> "record", of |-> list[1]] ELSE Nothing
    BY <1>2 DEF MigrateReference
  <2> HIDE DEF w
  <2>2. w # Nothing => IsCell(w) /\ w.kind = "record"
    BY <2>1 DEF IsCell, Kinds, Nothing
  <2>3. ASSUME v.kind = "record"
        PROVE  Same(v, w)
    <3>1. list = <<v.of>>
      BY <2>3
    <3>2. Len(list) = 1 /\ list[1] = v.of
      BY <3>1
    <3> HIDE DEF list
    <3>3. w = [kind |-> "record", of |-> v.of]
      BY <2>1, <3>2
    <3> QED  BY <2>3, <3>3 DEF Same, Nothing
  <2> QED  BY <1>2, <2>2, <2>3 DEF w
<1> QED  BY <1>1, <1>2

(* A plain value that is not dropped has a shape the new field takes, and    *)
(* one the new field takes as it is is not dropped                           *)
LEMMA ValueMigrated ==
  ASSUME NEW from, NEW to, IsPlain(to), NEW v, v # Nothing => IsCell(v)
  PROVE  LET w == MigrateValue(from, to, v) IN
         /\ w # Nothing => IsCell(w) /\ w.kind # "rows" /\ HasKind(to, w)
         /\ Keeps(from, to, v, w)
<1> DEFINE w == MigrateValue(from, to, v)
<1>0. to.multiple \in BOOLEAN /\ to.type \notin {"table", "formula"}
  BY DEF IsPlain, FormField, TableColumn
<1>1. CASE v = Nothing \/ ~SameFamily(from.type, to.type) \/ ~HasShape(to.type, v)
  <2>1. w = Nothing
    BY <1>1 DEF MigrateValue
  <2>2. v = Nothing \/ ~HasKind(to, v) \/ ~SameFamily(from.type, to.type)
    BY <1>1, KindIsShape
  <2>3. Compatible(from, to) => SameFamily(from.type, to.type)
    BY DEF Compatible, SameFamily
  <2> QED  BY <2>1, <2>2, <2>3 DEF Keeps
<1>2. CASE v # Nothing /\ SameFamily(from.type, to.type) /\ HasShape(to.type, v)
  <2>0. IsCell(v)
    BY <1>2
  <2>1. CASE to.type \in References
    <3>1. w = MigrateReference(to, v)
      BY <1>0, <1>2, <2>1 DEF MigrateValue, References
    <3>2. v.kind \in {"record", "records"}
      BY <1>2, <2>1, ShapeByType
    <3>3. /\ w # Nothing => IsCell(w) /\ w.kind \in {"record", "records"} /\ (w.kind = "records" <=> to.multiple)
          /\ (v.kind = "records" <=> to.multiple) => Same(v, w)
      BY <1>0, <2>0, <3>1, <3>2, ReferenceMigrated
    <3> HIDE DEF w
    <3>4. w # Nothing => HasKind(to, w)
      BY <2>1, <3>3, ShapeByType, KindIsShape DEF References
    <3>5. Keeps(from, to, v, w)
      BY <2>1, <3>3, KindIsShape DEF Keeps
    <3> QED  BY <3>3, <3>4, <3>5 DEF w
  <2>2. CASE to.type \notin References
    <3>1. w = IF to.type = "select" /\ v.of \notin to.allowed THEN Nothing ELSE v
      BY <1>0, <1>2, <2>2 DEF MigrateValue
    <3> HIDE DEF w
    <3>2. w # Nothing => HasKind(to, w)
      BY <1>2, <2>0, <2>2, <3>1, KindIsShape
    <3>3. Keeps(from, to, v, w)
      BY <1>2, <3>1, KindIsShape DEF Keeps, Same
    <3>4. v.kind # "rows"
      BY <1>0, <1>2, <2>2, ShapeByType
         DEF IsPlain, FormField, TableColumn, FormFieldType, ColumnType, Texts, Numbers, References
    <3> QED  BY <2>0, <3>1, <3>2, <3>3, <3>4 DEF w
  <2> QED  BY <2>1, <2>2
<1> QED  BY <1>1, <1>2

-----------------------------------------------------------------------------
LEMMA ColumnIsPlain ==
  ASSUME NEW f \in FormField, TableIsValid(f), NEW k \in CellKeys(f)
  PROVE  IsPlain(First(f.columns, k))
<1>1. k \in Keys(f.columns) /\ First(f.columns, k).type # "formula"
  BY DEF CellKeys
<1>2. First(f.columns, k) \in TableColumn
  BY <1>1, ColumnOf
<1>3. First(f.columns, k).type # "table"
  BY <1>2 DEF TableColumn, ColumnType
<1> QED  BY <1>1, <1>2, <1>3 DEF IsPlain

LEMMA RowMigrated ==
  ASSUME NEW from, NEW to \in FormField, TableIsValid(to), NEW given, IsRow(given)
  PROVE  LET q == MigrateRow(from, to, given) IN
         /\ IsRow(q) /\ q.id = given.id /\ CellsHaveKind(to, q.cells)
         /\ \A c \in Keys(from.columns) \cap Keys(to.columns) :
              Keeps(First(from.columns, c), First(to.columns, c), given.cells[c], q.cells[c])
<1> DEFINE fc == from.columns
           tc == to.columns
           g == [k \in Key |-> IF k \in Keys(fc) \cap Keys(tc)
                                THEN MigrateValue(First(fc, k), First(tc, k), given.cells[k]) ELSE Nothing]
           q == MigrateRow(from, to, given)
<1>1. CellKeys(to) \subseteq Keys(tc) /\ Keys(tc) \subseteq Key
  BY CellsHaveKeys
<1>2. given.id \in Int /\ given = [id |-> given.id, cells |-> given.cells]
      /\ \A k \in Key : given.cells[k] # Nothing => IsCell(given.cells[k])
  BY DEF IsRow
<1>3. q = [id |-> given.id, cells |-> Computed(tc, g)]
  <2>1. q = [given EXCEPT !.cells = Computed(tc, g)]
    BY DEF MigrateRow
  <2> HIDE DEF q, g
  <2> QED  BY <1>2, <2>1
<1>4. ASSUME NEW k \in Key, k \in Keys(fc) \cap Keys(tc)
      PROVE  g[k] = MigrateValue(First(fc, k), First(tc, k), given.cells[k])
  BY <1>4
<1>5. ASSUME NEW k \in Key, k \notin Keys(fc) \cap Keys(tc)
      PROVE  g[k] = Nothing
  BY <1>5
<1>6. g = [k \in Key |-> g[k]]
  OBVIOUS
<1> HIDE DEF q, g
<1>7. ASSUME NEW k \in CellKeys(to)
      PROVE  /\ g[k] # Nothing => IsCell(g[k]) /\ HasKind(First(tc, k), g[k])
             /\ k \in Keys(fc) => Keeps(First(fc, k), First(tc, k), given.cells[k], g[k])
  <2>1. IsPlain(First(tc, k))
    BY ColumnIsPlain
  <2>2. CASE k \in Keys(fc)
    BY <1>1, <1>2, <1>4, <2>1, <2>2, ValueMigrated
  <2>3. CASE k \notin Keys(fc)
    BY <1>1, <1>5, <2>3
  <2> QED  BY <2>2, <2>3
<1>8. ASSUME NEW k \in Key, k \notin CellKeys(to)
      PROVE  g[k] = Nothing
  <2>1. CASE k \in Keys(fc) \cap Keys(tc)
    <3>1. First(tc, k).type = "formula"
      BY <1>8, <2>1 DEF CellKeys
    <3> QED  BY <1>4, <2>1, <3>1 DEF MigrateValue
  <2> QED  BY <1>5, <2>1
<1>9. IsCells(g)
  BY <1>6, <1>7, <1>8 DEF IsCells
<1>10. IsCells(Computed(tc, g))
  BY <1>9, ComputedIsCells
<1>11. /\ \A k \in CellKeys(to) : Computed(tc, g)[k] = g[k]
       /\ Computed(tc, Computed(tc, g)) = Computed(tc, g)
  BY <1>1, ComputedOnce
<1>12. IsRow(q) /\ q.id = given.id
  BY <1>2, <1>3, <1>10 DEF IsRow, IsCells
<1>13. CellsHaveKind(to, q.cells)
  BY <1>3, <1>7, <1>11 DEF CellsHaveKind
<1>14. ASSUME NEW c \in Keys(fc) \cap Keys(tc)
       PROVE  Keeps(First(fc, c), First(tc, c), given.cells[c], q.cells[c])
  <2>1. CASE c \in CellKeys(to)
    BY <1>3, <1>7, <1>11, <2>1
  <2>2. CASE c \notin CellKeys(to)
    <3>1. First(tc, c).type = "formula"
      BY <2>2 DEF CellKeys
    <3>2. ~HasKind(First(tc, c), given.cells[c])
      BY <3>1 DEF HasKind, Texts, Numbers, References
    <3> QED  BY <3>2 DEF Keeps
  <2> QED  BY <2>1, <2>2
<1> QED  BY <1>12, <1>13, <1>14 DEF q

(* A payload is migrated: what IsInOrder and NothingIsLost ask for   *)
RowsMigrated(from, to, v) == [v EXCEPT !.of = [i \in DOMAIN @ |-> MigrateRow(from, to, @[i])]]

LEMMA TableMigrated ==
  ASSUME NEW from, NEW to \in FormField, TableIsValid(to),
         NEW v, IsCell(v), v.kind = "rows", IsTable(v), OwnIds(v.of)
  PROVE  LET w == RowsMigrated(from, to, v) IN
         /\ w # Nothing /\ IsCell(w) /\ w.kind = "rows" /\ IsTable(w) /\ OwnIds(w.of) /\ TableIsInOrder(to, w)
         /\ Len(w.of) = Len(v.of) /\ \A i \in DOMAIN v.of : w.of[i].id = v.of[i].id
         /\ \A i \in DOMAIN v.of, c \in Keys(from.columns) \cap Keys(to.columns) :
              Keeps(First(from.columns, c), First(to.columns, c), v.of[i].cells[c], w.of[i].cells[c])
<1> DEFINE n == Len(v.of)
           r == [i \in 1..n |-> MigrateRow(from, to, v.of[i])]
           w == RowsMigrated(from, to, v)
<1>1. /\ n \in Nat /\ v.of = [i \in 1..n |-> v.of[i]] /\ v = [kind |-> "rows", of |-> v.of]
      /\ \A i \in 1..n : IsRow(v.of[i])
  BY DEF IsTable, IsCell
<1>2. DOMAIN v.of = 1..n
  BY <1>1
<1>3. w = [kind |-> "rows", of |-> r]
  <2>1. w = [v EXCEPT !.of = r]
    BY <1>2 DEF RowsMigrated
  <2> HIDE DEF w, r
  <2> QED  BY <1>1, <2>1
<1>4. ASSUME NEW i \in 1..n
      PROVE  /\ IsRow(r[i]) /\ r[i].id = v.of[i].id /\ CellsHaveKind(to, r[i].cells)
             /\ \A c \in Keys(from.columns) \cap Keys(to.columns) :
                  Keeps(First(from.columns, c), First(to.columns, c), v.of[i].cells[c], r[i].cells[c])
  <2>1. r[i] = MigrateRow(from, to, v.of[i])
    OBVIOUS
  <2> HIDE DEF r
  <2> QED  BY <1>1, <2>1, RowMigrated
<1>5. r = [i \in 1..n |-> r[i]]
  OBVIOUS
<1> HIDE DEF r, w
<1>6. Len(r) = n /\ DOMAIN r = 1..n
  BY <1>1, <1>5, ListOf
<1>7. w # Nothing /\ IsCell(w) /\ w.kind = "rows" /\ IsTable(w)
  BY <1>1, <1>3, <1>4, <1>5, <1>6 DEF IsCell, IsTable, Kinds, Nothing
<1>8. OwnIds(w.of)
  BY <1>3, <1>4, <1>6 DEF OwnIds
<1>9. TableIsInOrder(to, w)
  BY <1>3, <1>4, <1>6, <1>7, <1>8 DEF TableIsInOrder
<1> QED  BY <1>2, <1>3, <1>4, <1>6, <1>7, <1>8, <1>9 DEF w

LEMMA PayloadMigrated ==
  ASSUME NEW old \in Seq(FormField), FormIsValid(old), NEW new \in Seq(FormField), FormIsValid(new),
         NEW p, IsPayload(p), Numbered(old, p)
  PROVE  LET q == MigratePayload(old, new, p) IN
         /\ IsPayload(q) /\ Numbered(new, q) /\ IsInOrder(new, q)
         /\ NothingIsLost(old, new, p, q)
<1> DEFINE q == MigratePayload(old, new, p)
           Both == Keys(old) \cap Keys(new)
           from(k) == First(old, k)
           to(k) == First(new, k)
<1>1. Keys(new) \subseteq Key
  BY FieldsHaveKeys
<1>2. q = [k \in Key |-> q[k]]
  BY DEF MigratePayload
<1>3. ASSUME NEW k \in Key, k \notin Both
      PROVE  q[k] = Nothing
  BY <1>3 DEF MigratePayload
<1>4. ASSUME NEW k \in Both
      PROVE  k \in Key /\ LET v == MigrateValue(from(k), to(k), p[k]) IN
             q[k] = IF v # Nothing /\ to(k).type = "table" THEN RowsMigrated(from(k), to(k), v) ELSE v
  BY <1>1 DEF MigratePayload, RowsMigrated
<1>5. ASSUME NEW k \in Both
      PROVE  /\ from(k) \in FormField /\ to(k) \in FormField /\ to(k).type # "formula" /\ from(k).type # "formula"
             /\ to(k).type = "table" => TableIsValid(to(k))
  BY FieldOf
<1>6. ASSUME NEW k \in Both
      PROVE  p[k] # Nothing => IsCell(p[k]) /\ (p[k].kind = "rows" => IsTable(p[k]))
  BY <1>1 DEF IsPayload
<1> HIDE DEF q, from, to
<1>7. ASSUME NEW k \in Both, to(k).type # "table"
      PROVE  /\ q[k] # Nothing => IsCell(q[k]) /\ q[k].kind # "rows" /\ HasKind(to(k), q[k])
             /\ Keeps(from(k), to(k), p[k], q[k])
  <2>1. IsPlain(to(k))
    BY <1>5, <1>7 DEF IsPlain
  <2>2. q[k] = MigrateValue(from(k), to(k), p[k])
    BY <1>4, <1>7
  <2> QED  BY <1>6, <2>1, <2>2, ValueMigrated
<1>8. ASSUME NEW k \in Both, to(k).type = "table"
      PROVE  IF from(k).type = "table" /\ p[k] # Nothing /\ p[k].kind = "rows"
             THEN q[k] = RowsMigrated(from(k), to(k), p[k])
             ELSE q[k] = Nothing
  <2>1. SameFamily(from(k).type, to(k).type) <=> from(k).type = "table"
    BY <1>8 DEF SameFamily, Families, Texts, Numbers
  <2>2. HasShape(to(k).type, p[k]) <=> p[k].kind = "rows"
    BY <1>8, ShapeByType
  <2>3. MigrateValue(from(k), to(k), p[k])
          = IF from(k).type = "table" /\ p[k] # Nothing /\ p[k].kind = "rows" THEN p[k] ELSE Nothing
    BY <1>8, <2>1, <2>2 DEF MigrateValue, References
  <2> QED  BY <1>4, <1>8, <2>3
<1>9. ASSUME NEW k \in Both, to(k).type = "table", from(k).type = "table", p[k] # Nothing, p[k].kind = "rows"
      PROVE  /\ q[k] # Nothing /\ IsCell(q[k]) /\ q[k].kind = "rows" /\ IsTable(q[k]) /\ OwnIds(q[k].of)
             /\ TableIsInOrder(to(k), q[k]) /\ Len(q[k].of) = Len(p[k].of)
             /\ \A i \in DOMAIN p[k].of : q[k].of[i].id = p[k].of[i].id
             /\ \A i \in DOMAIN p[k].of, c \in Keys(from(k).columns) \cap Keys(to(k).columns) :
                  Keeps(First(from(k).columns, c), First(to(k).columns, c), p[k].of[i].cells[c], q[k].of[i].cells[c])
  <2>1. q[k] = RowsMigrated(from(k), to(k), p[k])
    BY <1>8, <1>9
  <2>2. IsCell(p[k]) /\ IsTable(p[k]) /\ to(k) \in FormField /\ TableIsValid(to(k))
    BY <1>5, <1>6, <1>9
  <2>3. OwnIds(p[k].of)
    BY <1>9 DEF Numbered, from
  <2> QED  BY <1>9, <2>1, <2>2, <2>3, TableMigrated
<1>10. ASSUME NEW k \in Key, q[k] # Nothing
       PROVE  /\ k \in Both /\ IsCell(q[k]) /\ (q[k].kind = "rows" => IsTable(q[k]))
              /\ IF to(k).type = "table" THEN q[k].kind = "rows" /\ TableIsInOrder(to(k), q[k]) /\ OwnIds(q[k].of)
                 ELSE HasKind(to(k), q[k])
  <2>1. k \in Both
    BY <1>3, <1>10
  <2>2. CASE to(k).type = "table"
    BY <1>8, <1>9, <1>10, <2>1, <2>2
  <2>3. CASE to(k).type # "table"
    BY <1>7, <1>10, <2>1, <2>3
  <2> QED  BY <2>1, <2>2, <2>3
<1>11. IsPayload(q)
  BY <1>2, <1>10 DEF IsPayload
<1>12. Numbered(new, q)
  <2> SUFFICES ASSUME NEW k \in Keys(new), to(k).type = "table", q[k].kind = "rows"
               PROVE  OwnIds(q[k].of)
    BY DEF Numbered, to
  <2>1. q[k] # Nothing
    BY DEF Nothing
  <2> QED  BY <1>1, <1>10, <2>1
<1>13. IsInOrder(new, q)
  BY <1>10 DEF IsInOrder, to
<1>14. ASSUME NEW k \in Both
       PROVE  FieldKeeps(from(k), to(k), p[k], q[k])
  <2>1. CASE "table" \notin {from(k).type, to(k).type}
    BY <1>7, <2>1 DEF FieldKeeps
  <2>2. CASE "table" \in {from(k).type, to(k).type}
    <3> SUFFICES ASSUME from(k).type = to(k).type, p[k].kind = "rows"
                 PROVE  /\ q[k] # Nothing /\ Len(q[k].of) = Len(p[k].of)
                        /\ \A i \in DOMAIN p[k].of : q[k].of[i].id = p[k].of[i].id
                        /\ \A i \in DOMAIN p[k].of, c \in Keys(from(k).columns) \cap Keys(to(k).columns) :
                             Keeps(First(from(k).columns, c), First(to(k).columns, c), p[k].of[i].cells[c], q[k].of[i].cells[c])
      BY <2>2 DEF FieldKeeps
    <3>1. p[k] # Nothing
      BY DEF Nothing
    <3> QED  BY <1>9, <2>2, <3>1
  <2> QED  BY <2>1, <2>2
<1>15. NothingIsLost(old, new, p, q)
  BY <1>14 DEF NothingIsLost, from, to
<1> QED  BY <1>11, <1>12, <1>13, <1>15 DEF q

(* What was accepted on one day is accepted later, but for days that passed  *)
LEMMA FitsLater ==
  ASSUME NEW f, NEW v, NEW day \in Int, NEW later \in Int, day <= later, v # Nothing => IsCell(v),
         "minDate" \in f.todays /\ v # Nothing => \A t \in Days(f, v) : Day[t] >= later,
         FitsOrEmpty(f, v, day)
  PROVE  FitsOrEmpty(f, v, later)
<1>1. CASE v = Nothing
  BY <1>1 DEF FitsOrEmpty
<1>2. CASE v # Nothing
  <2>1. Fits(f, v, day)
    BY <1>2 DEF FitsOrEmpty
  <2>2. ASSUME NEW t \in Text, WithinToday(f, t, day), "minDate" \in f.todays => Day[t] >= later
        PROVE  WithinToday(f, t, later)
    <3>1. Day[t] \in Int
      BY FormsAssumption
    <3> QED  BY <2>2, <3>1 DEF WithinToday
  <2>3. CASE f.type = "date"
    <3>1. v.kind = "string" /\ v.of \in f.allowed /\ WithinToday(f, v.of, day)
      BY <2>1, <2>3, FitsByType
    <3>2. v.of \in Text /\ v.of \in Days(f, v)
      BY <1>2, <2>3, <3>1 DEF IsCell, Days
    <3>3. Fits(f, v, later)
      BY <1>2, <2>2, <2>3, <3>1, <3>2, FitsByType
    <3> QED  BY <1>2, <3>3 DEF FitsOrEmpty
  <2>4. CASE f.type = "dateRange"
    <3>1. /\ v.kind = "strings" /\ Len(v.of) = 2
          /\ \A i \in 1..2 : v.of[i] \in f.allowed /\ WithinToday(f, v.of[i], day)
      BY <2>1, <2>4, FitsByType
    <3>2. v.of \in Seq(Text) /\ \A i \in 1..2 : v.of[i] \in Days(f, v)
      BY <1>2, <2>4, <3>1 DEF IsCell, Days
    <3>3. \A i \in 1..2 : v.of[i] \in Text
      BY <3>1, <3>2
    <3>4. \A i \in 1..2 : WithinToday(f, v.of[i], later)
      BY <1>2, <2>2, <3>1, <3>2, <3>3
    <3>5. Fits(f, v, later)
      BY <2>4, <3>1, <3>4, FitsByType
    <3> QED  BY <1>2, <3>5 DEF FitsOrEmpty
  <2>5. CASE f.type \notin {"date", "dateRange"}
    <3>1. Fits(f, v, later) = Fits(f, v, day)
      BY <2>5 DEF Fits
    <3> QED  BY <1>2, <2>1, <3>1 DEF FitsOrEmpty
  <2> QED  BY <2>3, <2>4, <2>5
<1> QED  BY <1>1, <1>2

LEMMA AcceptedLater ==
  ASSUME NEW fs \in Seq(FormField), FormIsValid(fs), NEW p, IsPayload(p), NEW day \in Int, NEW later \in Int, day <= later,
         NotPast(fs, p, later), Accepted(fs, p, day)
  PROVE  Accepted(fs, p, later)
<1> SUFFICES ASSUME NEW k \in Keys(fs)
             PROVE  IF p[k] # Nothing /\ First(fs, k).type = "table" THEN TableFits(First(fs, k), p[k], later)
                    ELSE FitsOrEmpty(First(fs, k), p[k], later)
  BY DEF Accepted
<1> DEFINE f == First(fs, k)
<1>1. k \in Key /\ (p[k] # Nothing => IsCell(p[k]) /\ (p[k].kind = "rows" => IsTable(p[k])))
  BY FieldsHaveKeys DEF IsPayload
<1>2. f \in FormField /\ (f.type = "table" => TableIsValid(f))
  BY FieldOf
<1>3. CASE ~(p[k] # Nothing /\ f.type = "table")
  <2>1. FitsOrEmpty(f, p[k], day)
    BY <1>3 DEF Accepted
  <2>2. "minDate" \in f.todays /\ p[k] # Nothing => \A t \in Days(f, p[k]) : Day[t] >= later
    BY DEF NotPast
  <2> HIDE DEF f
  <2>3. FitsOrEmpty(f, p[k], later)
    BY <1>1, <2>1, <2>2, FitsLater
  <2> QED  BY <1>3, <2>3 DEF f
<1>4. CASE p[k] # Nothing /\ f.type = "table"
  <2>1. TableFits(f, p[k], day)
    BY <1>4 DEF Accepted
  <2>2. TableIsValid(f) /\ IsTable(p[k])
    BY <1>1, <1>2, <1>4, <2>1 DEF TableFits
  <2> HIDE DEF f
  <2>3. DOMAIN p[k].of = 1..Len(p[k].of) /\ \A i \in 1..Len(p[k].of) : IsRow(p[k].of[i])
    BY <2>2 DEF IsTable
  <2>4. ASSUME NEW i \in DOMAIN p[k].of, NEW c \in CellKeys(f)
        PROVE  FitsOrEmpty(First(f.columns, c), p[k].of[i].cells[c], later)
    <3> DEFINE g == First(f.columns, c)
               v == p[k].of[i].cells[c]
    <3>1. FitsOrEmpty(g, v, day)
      BY <2>1 DEF TableFits
    <3>2. c \in Key /\ c \in Keys(f.columns)
      BY <1>2, CellsHaveKeys
    <3>3. v # Nothing => IsCell(v)
      BY <2>3, <3>2 DEF IsRow
    <3>4. g.todays = {}
      BY <1>2, <2>2, <3>2, ColumnOf DEF TableColumn
    <3> HIDE DEF g, v
    <3>5. FitsOrEmpty(g, v, later)
      BY <3>1, <3>3, <3>4, FitsLater
    <3> QED  BY <3>5 DEF g, v
  <2>5. TableFits(f, p[k], later)
    BY <2>1, <2>4 DEF TableFits
  <2> QED  BY <1>4, <2>5 DEF f
<1> QED  BY <1>3, <1>4

LEMMA NothingLostInPlace ==
  ASSUME NEW fs, NEW p
  PROVE  NothingIsLost(fs, fs, p, p)
<1>1. ASSUME NEW f, NEW v
      PROVE  Keeps(f, f, v, v)
  BY DEF Keeps, Same
<1>2. ASSUME NEW f, NEW v
      PROVE  FieldKeeps(f, f, v, v)
  BY <1>1 DEF FieldKeeps, Nothing
<1> QED  BY <1>2 DEF NothingIsLost

-----------------------------------------------------------------------------
PayloadInv ==
  /\ form \in Seq(FormField) /\ FormIsValid(form)
  /\ fields \in Seq(FormField) /\ FormIsValid(fields)
  /\ IsPayload(payload) /\ Numbered(fields, payload)
  /\ today \in Int
  /\ phase = "sent" /\ fields # <<>> =>
       Parsed(fields, payload) = payload /\ \E day \in Int : day <= today /\ Accepted(fields, payload, day)

LEMMA PayloadInit == FormsInit => PayloadInv
<1> SUFFICES ASSUME FormsInit
             PROVE  PayloadInv
  OBVIOUS
<1>1. form \in Seq(FormField) /\ FormIsValid(form)
  BY FormsAssumption DEF FormsInit
<1>2. fields \in Seq(FormField) /\ FormIsValid(fields) /\ Keys(fields) = {}
  BY DEF FormsInit, FormIsValid, DistinctKeys, Keys
<1>3. IsPayload(payload)
  BY DEF FormsInit, IsPayload
<1> QED  BY <1>1, <1>2, <1>3 DEF PayloadInv, Numbered, FormsInit

LEMMA DraftNumbered ==
  ASSUME NEW fs \in Seq(FormField), NEW p \in Draft
  PROVE  IsPayload(EnsureTableRowIds(fs, p)) /\ Numbered(fs, EnsureTableRowIds(fs, p))
<1>1. IsPayload(p) /\ \A k \in Key : p[k].kind = "rows" => \A i \in DOMAIN p[k].of : p[k].of[i].id \in Nat
  <2>1. IsPayload(p) /\ \A k \in Key : p[k].kind = "rows" => \A i \in DOMAIN p[k].of : p[k].of[i].id \in SentId \cup {0}
    BY FormsAssumption
  <2>2. SentId \cup {0} \subseteq Nat
    BY FormsAssumption
  <2> QED  BY <2>1, <2>2
<1> QED  BY <1>1, RowsNumbered

(* What a clone makes of the payload                                         *)
LEMMA Cloned ==
  ASSUME PayloadInv, Clone
  PROVE  /\ IsPayload(payload') /\ Numbered(fields', payload')
         /\ NothingIsLost(fields, fields', payload, payload')
         /\ IF fields # fields' THEN IsInOrder(fields', payload') ELSE payload' = payload
<1> DEFINE q == IF form = fields THEN payload ELSE MigratePayload(fields, form, payload)
<1>1. payload' = EnsureTableRowIds(form, q) /\ fields' = form
  BY DEF Clone
<1>2. /\ IsPayload(q) /\ Numbered(form, q) /\ NothingIsLost(fields, form, payload, q)
      /\ IF fields # form THEN IsInOrder(form, q) ELSE q = payload
  <2>1. CASE form = fields
    BY <2>1, NothingLostInPlace DEF PayloadInv
  <2>2. CASE form # fields
    BY <2>2, PayloadMigrated DEF PayloadInv
  <2> QED  BY <2>1, <2>2
<1> HIDE DEF q
<1>3. payload' = q
  BY <1>1, <1>2, RowsNumbered DEF PayloadInv
<1> QED  BY <1>1, <1>2, <1>3

LEMMA PayloadStep == PayloadInv /\ [FormsNext]_formVars => PayloadInv'
<1> SUFFICES ASSUME PayloadInv, [FormsNext]_formVars
             PROVE  PayloadInv'
  OBVIOUS
<1>1. CASE SaveForm
  <2>1. form' \in Seq(FormField) /\ FormIsValid(form')
    BY <1>1, FormsAssumption DEF SaveForm
  <2> QED  BY <1>1, <2>1 DEF SaveForm, PayloadInv
<1>2. CASE SubmitRequest
  <2>1. CASE fields = <<>>
    BY <1>2, <2>1 DEF SubmitRequest, PayloadInv
  <2>2. CASE fields # <<>>
    <3>1. Accepted(fields, payload, today) /\ payload' = Parsed(fields, payload) /\ UNCHANGED <<form, fields, today>>
      BY <1>2, <2>2 DEF SubmitRequest
    <3>2. IsPayload(payload') /\ Accepted(fields, payload', today) /\ Parsed(fields, payload') = payload'
      BY <3>1, OnceParsed DEF PayloadInv
    <3>3. Numbered(fields, payload')
      <4> SUFFICES ASSUME NEW k \in Keys(fields), First(fields, k).type = "table", payload'[k].kind = "rows"
                   PROVE  OwnIds(payload'[k].of)
        BY DEF Numbered
      <4>1. k \in Key /\ payload'[k] # Nothing
        BY FieldsHaveKeys DEF PayloadInv, Nothing
      <4>2. TableFits(First(fields, k), payload'[k], today)
        BY <3>2, <4>1 DEF Accepted
      <4>3. IsTable(payload'[k])
        BY <3>2, <4>1 DEF IsPayload
      <4>4. DOMAIN payload'[k].of = 1..Len(payload'[k].of)
        BY <4>3 DEF IsTable
      <4> QED  BY <4>2, <4>4 DEF TableFits, OwnIds
    <3> QED  BY <3>1, <3>2, <3>3 DEF PayloadInv
  <2> QED  BY <2>1, <2>2
<1>3. CASE Return
  BY <1>3 DEF Return, PayloadInv
<1>4. CASE Clone
  <2>1. form' = form /\ fields' = form /\ phase' = "draft" /\ today' = today
    BY <1>4 DEF Clone
  <2> QED  BY <1>4, <2>1, Cloned DEF PayloadInv
<1>5. ASSUME NEW p \in Draft, CreateRequest(p)
      PROVE  PayloadInv'
  <2>1. form' = form /\ fields' = form /\ phase' = "draft" /\ today' = today /\ payload' = EnsureTableRowIds(form, p)
    BY <1>5 DEF CreateRequest
  <2> QED  BY <2>1, DraftNumbered DEF PayloadInv
<1>6. ASSUME NEW p \in Draft, SaveDraft(p)
      PROVE  PayloadInv'
  <2>1. UNCHANGED <<form, fields, phase, today>> /\ phase = "draft" /\ payload' = EnsureTableRowIds(fields, p)
    BY <1>6 DEF SaveDraft
  <2> QED  BY <2>1, DraftNumbered DEF PayloadInv
<1>7. CASE UNCHANGED formVars
  BY <1>7 DEF formVars, PayloadInv
<1>8. CASE NextDay
  <2>1. today' = today + 1 /\ UNCHANGED <<form, fields, payload, phase>>
    BY <1>8 DEF NextDay
  <2>2. today' \in Int /\ \A day \in Int : day <= today => day <= today'
    BY <2>1 DEF PayloadInv
  <2> QED  BY <2>1, <2>2 DEF PayloadInv
<1> QED  BY <1>1, <1>2, <1>3, <1>4, <1>5, <1>6, <1>7, <1>8 DEF FormsNext

(* A sent payload is normalised to itself and accepted again on a later day, *)
(* but for a day that has passed in a field that asks for today or later; a  *)
(* clone loses nothing the latest form has a place for, is the same payload  *)
(* in an unchanged form, and in a changed one has only bounds, incomplete    *)
(* references and blank-padded row ids left to mend, for any forms, drafts,  *)
(* trimming, folding and days (validatePayload, migratePayload,              *)
(* ensureTableRowIds)                                                        *)
THEOREM WhatWasFilledInSurvives == FormsSpec => PayloadsSurvive
<1>1. FormsInit => PayloadInv
  BY PayloadInit
<1>2. PayloadInv /\ [FormsNext]_formVars => PayloadInv'
  BY PayloadStep
<1>3. PayloadInv =>
        (phase = "sent" /\ fields # <<>> =>
           Parsed(fields, payload) = payload /\ (NotPast(fields, payload, today) => Accepted(fields, payload, today)))
  BY AcceptedLater DEF PayloadInv
<1>4. PayloadInv /\ [FormsNext]_formVars =>
        [Clone => /\ NothingIsLost(fields, fields', payload, payload')
                  /\ IF fields # fields' THEN IsInOrder(fields', payload')
                     ELSE phase = "sent" /\ fields # <<>> => payload' = payload]_formVars
  BY Cloned
<1> QED  BY <1>1, <1>2, <1>3, <1>4, PTL DEF FormsSpec, PayloadsSurvive
=============================================================================
