------------------------------ MODULE Documents ------------------------------
(***************************************************************************)
(* The files of approval requests: the set a requester composes for each   *)
(* round, the copies made when a request is returned or cloned, the PDF    *)
(* versions made of documents in the background and in the signing box,    *)
(* and the signed versions.  Rows live in the database, contents in an     *)
(* object store that knows no transactions.                                *)
(*                                                                         *)
(* Submitting, deciding, signing and attaching a conversion lock the       *)
(* request row, so each is one action.  Editing a draft locks nothing: it  *)
(* is split into reading the request and writing, guarded by the version   *)
(* of the request row.  The background conversion is split at every place  *)
(* where it waits for Redis, the converter or the database.                *)
(***************************************************************************)
EXTENDS Naturals, FiniteSets, Sequences

CONSTANTS
  Request,
  Office, Pdf, Plain,  \* documents to convert, PDF documents, other files
  Editor,              \* browser tabs in which a requester edits
  Worker,              \* passes of the background conversion
  Cron,                \* those of them started by the clock, not by an event
  None,                \* null
  MaxAttempts,         \* CONVERT_MAX_ATTEMPTS
  Batch,               \* BATCH: rows one scan of the clock takes
  MaxRound,            \* bound: submissions of a request
  MaxStep,             \* MaxStep[n], bound: steps a request meets in round n
  MaxKey,              \* bound: object keys per document, round and kind
  MaxFaults,           \* bound: crashes, lost answers, database and Redis errors, and
                       \* transactions that fail after they made objects
  Archived             \* bound: requests that were decided before

Doc == Office \cup Pdf \cup Plain

ASSUME DocumentsAssumption ==
  /\ None \notin Request \cup Worker
  /\ MaxAttempts \in Nat \ {0} /\ Batch \in Nat \ {0}
  /\ MaxRound \in Nat \ {0} /\ MaxStep \in [1..MaxRound -> Nat] /\ MaxKey \in Nat \ {0}
  /\ MaxFaults \in Nat
  /\ Cron \subseteq Worker /\ Archived \subseteq Request

(* A row of approval_request_files: a set holds a document once.           *)
RowId == [request : Request, round : 1..MaxRound, doc : Doc]

(* The object of an uploaded or copied file, or of a PDF made from it.      *)
Key == [request : Request, round : 1..MaxRound, doc : Doc, made : BOOLEAN, n : 1..MaxKey]

VARIABLES
  phase,       \* the requests' status, as far as files depend on it
  round,       \* how many times a request was submitted
  step,        \* bound: steps met in this round
  atSignature, \* the current step requires a signature
  rows,        \* approval_request_files
  recorded,    \* keys of attachment rows
  lost,        \* those of them whose object was deleted
  due,         \* rows whose convertNextAt has passed
  older,       \* pairs of due rows, the earlier one first
  locks,       \* Redis: which worker holds the lock of which row; None if it died
  editor, worker,
  cleaning,    \* keys of failed transactions the application is about to delete
  faults

requestVars == <<phase, round, step, atSignature>>
storeVars == <<recorded, lost>>
scheduleVars == <<due, older>>
vars == <<requestVars, rows, storeVars, scheduleVars, locks, editor, worker, cleaning, faults>>

Change == [signed : BOOLEAN, from : Key, to : Key]
Row == [original : Key, current : Key, convert : {"none", "pending", "done", "failed"},
        attempts : Nat, log : Seq(Change)]

Working == [pc : {"read", "locked", "convert", "attach", "clean"}, todo : SUBSET Request,
            request : Request \cup {None}, ids : SUBSET RowId,
            results : SUBSET [id : RowId, key : Key], orphans : SUBSET Key]
Idle == [pc |-> "idle", todo |-> {}, request |-> None, ids |-> {}, results |-> {}, orphans |-> {}]

DocTypeOK ==
  /\ phase \in [Request -> {"none", "draft", "pending", "returned", "closed", "deleted"}]
  /\ round \in [Request -> 0..MaxRound]
  /\ step \in [Request -> Nat]
  /\ atSignature \in [Request -> BOOLEAN]
  /\ DOMAIN rows \subseteq RowId /\ rows \in [DOMAIN rows -> Row]
  /\ \A id \in DOMAIN rows : rows[id].convert = "failed" => rows[id].attempts >= MaxAttempts
  /\ recorded \subseteq Key /\ lost \subseteq recorded
  /\ due \subseteq RowId /\ older \subseteq RowId \X RowId
  /\ locks \subseteq RowId \X (Worker \cup {None})
  /\ editor \in [Editor -> [request : Request \cup {None}, round : 0..MaxRound, current : BOOLEAN]]
  /\ worker \in [Worker -> Working \cup {Idle}]
  /\ cleaning \subseteq [keys : SUBSET Key, checked : BOOLEAN]
  /\ faults \in 0..MaxFaults

-----------------------------------------------------------------------------
(* Keys and versions                                                        *)

isPdf(k) == k.made \/ k.doc \in Pdf
needsConversion(row) == ~row.current.made /\ row.current.doc \in Office

Held == UNION { worker[w].orphans \cup {x.key : x \in worker[w].results} : w \in Worker }
        \cup UNION { c.keys : c \in cleaning }

(* Names are unique: a number nobody remembers may be given again.  Objects *)
(* that are in the store and that nobody remembers are left out.            *)
NewKeys(id, made) ==
  { [request |-> id.request, round |-> id.round, doc |-> id.doc, made |-> made, n |-> n] : n \in 1..MaxKey }
    \ (recorded \cup Held)
First(K) == CHOOSE k \in K : \A o \in K : k.n <= o.n
Second(K) == First(K \ {First(K)})

draftRound(r) == round[r] + 1
RowsOf(r, n) == { id \in DOMAIN rows : id.request = r /\ id.round = n }
NewRow(k) == [original |-> k, current |-> k, convert |-> "none", attempts |-> 0, log |-> <<>>]
Put(R, S) == [id \in DOMAIN R \cup DOMAIN S |-> IF id \in DOMAIN S THEN S[id] ELSE R[id]]

(* setRequestFiles: rows kept, dropped and added; `files` are the originals  *)
SetFiles(r, n, files) ==
  LET id(k) == [request |-> r, round |-> n, doc |-> k.doc]
      rest == { x \in DOMAIN rows : ~(x.request = r /\ x.round = n) }
  IN  [x \in rest \cup { id(k) : k \in files } |->
         IF x \in rest \/ (x \in DOMAIN rows /\ rows[x].original \in files) THEN rows[x]
         ELSE NewRow(CHOOSE k \in files : id(k) = x)]

(* requestFilesError: the configuration asks for at least one file           *)
FilesOK(files) ==
  /\ files # {}
  /\ \A k, o \in files : k.doc = o.doc => k = o   \* bound

markConverted(row, k) ==
  [row EXCEPT !.current = k, !.convert = "done",
              !.log = Append(@, [signed |-> FALSE, from |-> row.current, to |-> k])]

Signed(row, k) ==
  [row EXCEPT !.current = k, !.log = Append(@, [signed |-> TRUE, from |-> row.current, to |-> k])]

markFailedAttempt(row) ==
  [row EXCEPT !.attempts = @ + 1, !.convert = IF row.attempts + 1 >= MaxAttempts THEN "failed" ELSE "pending"]

(* markDocumentsForConversion: the rows it schedules, five minutes from now  *)
ToMark(R, r, n) ==
  { id \in DOMAIN R : id.request = r /\ id.round = n /\ needsConversion(R[id]) /\ R[id].convert # "done" }
Mark(R, ids) ==
  [id \in DOMAIN R |-> IF id \in ids THEN [R[id] EXCEPT !.convert = "pending", !.attempts = 0] ELSE R[id]]

NotDue(ids) ==
  /\ due' = due \ ids
  /\ older' = { p \in older : p[1] \notin ids /\ p[2] \notin ids }

(* Who writes the request row makes everybody else's copy of it outdated     *)
Touch(r) ==
  editor' = [e \in Editor |-> IF editor[e].request = r THEN [editor[e] EXCEPT !.current = FALSE] ELSE editor[e]]

-----------------------------------------------------------------------------
(* The requester: files, drafts, edits                                      *)

Closed == [request |-> None, round |-> 0, current |-> FALSE]

Archive == [request : Archived, round : {1}, doc : Doc]
ArchivedFile(id) == [request |-> id.request, round |-> 1, doc |-> id.doc, made |-> FALSE, n |-> 1]

Init ==
  /\ phase = [r \in Request |-> IF r \in Archived THEN "closed" ELSE "none"]
  /\ round = [r \in Request |-> IF r \in Archived THEN 1 ELSE 0]
  /\ step = [r \in Request |-> 0]
  /\ atSignature = [r \in Request |-> FALSE]
  /\ rows = [id \in Archive |-> NewRow(ArchivedFile(id))]
  /\ recorded = { ArchivedFile(id) : id \in Archive } /\ lost = {}
  /\ due = {} /\ older = {}
  /\ locks = {}
  /\ editor = [e \in Editor |-> Closed]
  /\ worker = [w \in Worker |-> Idle]
  /\ cleaning = {}
  /\ faults = 0

(* setFiles: files the requester uploaded for this request, in any round;    *)
(* the ones uploaded for the occasion get their attachment row here          *)
Uploads(r) == { k \in recorded : k.request = r /\ ~k.made }
UploadsTo(r, n) ==
  LET Uploaded(d) == \E k \in Uploads(r) : k.round = n /\ k.doc = d IN   \* bound
  { First(NewKeys(id, FALSE)) :
      id \in { x \in RowId : x.request = r /\ x.round = n /\ ~Uploaded(x.doc) /\ NewKeys(x, FALSE) # {} } }

SaveFiles(r, n) ==
  \E files \in SUBSET (Uploads(r) \cup UploadsTo(r, n)) :
    /\ FilesOK(files)
    /\ rows' = SetFiles(r, n, files)
    /\ recorded' = recorded \cup files /\ lost' = lost

(* createRequest                                                             *)
Create(r) ==
  /\ phase[r] = "none"
  /\ SaveFiles(r, draftRound(r))
  /\ phase' = [phase EXCEPT ![r] = "draft"]
  /\ UNCHANGED <<round, step, atSignature, scheduleVars, locks, editor, worker, cleaning, faults>>

(* updateRequest reads the request (getOwnEditable) ...                      *)
EditRead(e, r) ==
  /\ editor[e] = Closed
  /\ phase[r] \in {"draft", "returned"}
  /\ editor' = [editor EXCEPT ![e] = [request |-> r, round |-> round[r], current |-> TRUE]]
  /\ UNCHANGED <<requestVars, rows, storeVars, scheduleVars, locks, worker, cleaning, faults>>

(* ... and writes the files of the round it saw, if the request row is still *)
(* the one it read: the flush always writes that row and checks its version  *)
VersionUnchecked(e) == TRUE
VersionMatches(e) == editor[e].current

EditWrite(e) ==
  LET r == editor[e].request IN
  /\ editor[e] # Closed /\ VersionMatches(e)
  /\ editor[e].round < MaxRound   \* bound
  /\ SaveFiles(r, editor[e].round + 1)
  /\ editor' = [o \in Editor |-> IF o = e THEN Closed
                                 ELSE IF editor[o].request = r THEN [editor[o] EXCEPT !.current = FALSE] ELSE editor[o]]
  /\ UNCHANGED <<requestVars, scheduleVars, locks, worker, cleaning, faults>>

(* The flush fails (OptimisticLockError), the input was wrong                *)
EditFails(e) ==
  /\ editor[e] # Closed
  /\ editor' = [editor EXCEPT ![e] = Closed]
  /\ UNCHANGED <<requestVars, rows, storeVars, scheduleVars, locks, worker, cleaning, faults>>

(* deleteRequest: drafts only; it checks the row's version as well           *)
Delete(r) ==
  /\ phase[r] = "draft"
  /\ phase' = [phase EXCEPT ![r] = "deleted"]
  /\ Touch(r)
  /\ UNCHANGED <<round, step, atSignature, rows, storeVars, scheduleVars, locks, worker, cleaning, faults>>

-----------------------------------------------------------------------------
(* The engine, as far as files depend on it                                 *)

(* advance: the request stops at a step that requires a signature or at one  *)
(* that does not, or it is through.  R are the rows so far, `done` the ones  *)
(* whose conversion is not awaited any more.                                 *)
Arrive(r, R, done) ==
  \E stop \in {"signature", "plain", "end"} :
    LET ids == IF stop = "signature" THEN ToMark(R, r, round'[r]) ELSE {} IN
    /\ stop # "end" => step'[r] <= MaxStep[round'[r]]
    /\ phase' = [phase EXCEPT ![r] = IF stop = "end" THEN "closed" ELSE "pending"]
    /\ atSignature' = [atSignature EXCEPT ![r] = stop = "signature"]
    /\ rows' = Mark(R, ids)
    /\ NotDue(ids \cup done)

(* submit: the set being composed becomes the set of the new round           *)
Submit(r) ==
  /\ phase[r] \in {"draft", "returned"}
  /\ round[r] < MaxRound
  /\ FilesOK({ rows[id].original : id \in RowsOf(r, draftRound(r)) })
  /\ round' = [round EXCEPT ![r] = @ + 1]
  /\ step' = [step EXCEPT ![r] = 1]
  /\ Arrive(r, rows, {})
  /\ Touch(r)
  /\ UNCHANGED <<storeVars, locks, worker, cleaning, faults>>

NextStep(r) ==
  /\ step' = [step EXCEPT ![r] = @ + 1]
  /\ round' = round
  /\ Touch(r)

(* The step is passed without a signature: approved, or a signature step     *)
(* whose group lost its members is dropped                                   *)
Pass(r) ==
  /\ phase[r] = "pending"
  /\ NextStep(r)
  /\ Arrive(r, rows, {})
  /\ UNCHANGED <<storeVars, locks, worker, cleaning, faults>>

(* Rejected or cancelled                                                     *)
Finish(r) ==
  /\ phase[r] \in {"draft", "returned", "pending"}
  /\ phase' = [phase EXCEPT ![r] = "closed"]
  /\ atSignature' = [atSignature EXCEPT ![r] = FALSE]
  /\ Touch(r)
  /\ UNCHANGED <<round, step, rows, storeVars, scheduleVars, locks, worker, cleaning, faults>>

(* A transaction that made the objects K commits, is rolled back after some  *)
(* of them were made, or commits without the caller hearing of it.  A caller *)
(* that gets an error deletes them; `checked` spares those in use.           *)
Commits(K) ==
  /\ recorded' = recorded \cup K /\ lost' = lost
  /\ UNCHANGED <<cleaning, faults>>
RollsBack(K, checked) ==
  /\ faults < MaxFaults /\ faults' = faults + 1
  /\ \E made \in SUBSET K \ {{}} : cleaning' = cleaning \cup {[keys |-> made, checked |-> checked]}
  /\ UNCHANGED <<requestVars, rows, storeVars, scheduleVars, locks, editor, worker>>
CommitsUnheard(K, checked) ==
  /\ faults < MaxFaults /\ faults' = faults + 1
  /\ recorded' = recorded \cup K /\ lost' = lost
  /\ cleaning' = cleaning \cup {[keys |-> K, checked |-> checked]}

-----------------------------------------------------------------------------
(* The signing box                                                          *)

Documents(r) == { id \in RowsOf(r, round[r]) : id.doc \notin Plain }
ToConvert(r) == { id \in Documents(r) : needsConversion(rows[id]) }

convertKey(id) == First(NewKeys(id, TRUE))
convertDocuments(r) == Put(rows, [id \in ToConvert(r) |-> markConverted(rows[id], convertKey(id))])

KeysLeft(ids, n) == \A id \in ids : Cardinality(NewKeys(id, TRUE)) >= n

(* prepare: documents not converted yet are converted now; nobody deletes    *)
(* the objects when this fails, so a failure leaves nothing the model keeps  *)
Prepare(r) ==
  /\ phase[r] = "pending" /\ atSignature[r]
  /\ ToConvert(r) # {} /\ KeysLeft(ToConvert(r), 1)
  /\ rows' = convertDocuments(r)
  /\ NotDue(ToConvert(r))
  /\ Commits({ convertKey(id) : id \in ToConvert(r) })
  /\ UNCHANGED <<requestVars, locks, editor, worker>>

(* signAndApprove: convert what is left, sign every PDF, decide the step; a  *)
(* parallel step may still wait for others                                   *)
Sign(r) ==
  LET ready == convertDocuments(r)
      signKey(id) == IF id \in ToConvert(r) THEN Second(NewKeys(id, TRUE)) ELSE First(NewKeys(id, TRUE))
      R == Put(ready, [id \in Documents(r) |-> Signed(ready[id], signKey(id))])
      K == { convertKey(id) : id \in ToConvert(r) } \cup { signKey(id) : id \in Documents(r) }
      Approved == \/ /\ rows' = R
                     /\ NotDue(ToConvert(r))
                     /\ UNCHANGED <<requestVars, editor>>
                  \/ /\ NextStep(r)
                     /\ Arrive(r, R, ToConvert(r))
  IN
  /\ phase[r] = "pending" /\ atSignature[r]
  /\ Documents(r) # {}
  /\ KeysLeft(ToConvert(r), 2) /\ KeysLeft(Documents(r), 1)
  /\ \/ Approved /\ Commits(K) /\ UNCHANGED <<locks, worker>>
     \/ Approved /\ CommitsUnheard(K, TRUE) /\ UNCHANGED <<locks, worker>>
     \/ RollsBack(K, TRUE)

-----------------------------------------------------------------------------
(* Copies                                                                   *)

(* copyRequestFiles: the originals of some rows, as the set of round n of r  *)
CopyKey(r, n, id) == First(NewKeys([request |-> r, round |-> n, doc |-> id.doc], FALSE))
CopyRows(r, n, ids) ==
  [x \in { [request |-> r, round |-> n, doc |-> id.doc] : id \in ids } |-> NewRow(CopyKey(r, n, x))]
CopiesPossible(r, n, ids) ==
  \A id \in ids : NewKeys([request |-> r, round |-> n, doc |-> id.doc], FALSE) # {}

(* Return: the documents of the round are copied for the next one            *)
Return(r) ==
  LET ids == RowsOf(r, round[r])
      K == { CopyKey(r, draftRound(r), id) : id \in ids }
      Returned == /\ phase' = [phase EXCEPT ![r] = "returned"]
                  /\ atSignature' = [atSignature EXCEPT ![r] = FALSE]
                  /\ rows' = Put(rows, CopyRows(r, draftRound(r), ids))
                  /\ Touch(r)
                  /\ UNCHANGED <<round, step, scheduleVars, locks, worker>>
  IN
  /\ phase[r] = "pending"
  /\ round[r] < MaxRound /\ CopiesPossible(r, draftRound(r), ids)   \* bound
  /\ \/ Returned /\ Commits(K)
     \/ Returned /\ CommitsUnheard(K, FALSE)
     \/ RollsBack(K, FALSE)

(* cloneRequest: a new draft with the files of another request's latest set, *)
(* or with none                                                              *)
LatestFiles(s) ==
  IF phase[s] \in {"draft", "returned"} THEN RowsOf(s, draftRound(s))
  ELSE { id \in DOMAIN rows : id.request = s /\ \A o \in DOMAIN rows : o.request = s => o.round <= id.round }

Clone(r, s) ==
  \E ids \in {LatestFiles(s), {}} :
    LET K == { CopyKey(r, 1, id) : id \in ids }
        Cloned == /\ phase' = [phase EXCEPT ![r] = "draft"]
                  /\ rows' = Put(rows, CopyRows(r, 1, ids))
                  /\ UNCHANGED <<round, step, atSignature, scheduleVars, locks, editor, worker>>
    IN
    /\ phase[r] = "none"
    /\ phase[s] \notin {"none", "deleted"}
    /\ CopiesPossible(r, 1, ids)
    /\ \/ Cloned /\ Commits(K)
       \/ Cloned /\ CommitsUnheard(K, FALSE)
       \/ RollsBack(K, FALSE)

(* deleteUnusedObjects, and the unchecked deletion of copies                 *)
Unused(c) == IF c.checked THEN c.keys \ recorded ELSE c.keys

Clean(c) ==
  /\ c \in cleaning
  /\ cleaning' = cleaning \ {c}
  /\ lost' = lost \cup (Unused(c) \cap recorded)
  /\ UNCHANGED <<requestVars, rows, recorded, scheduleVars, locks, editor, worker, faults>>

(* The process dies, or the references cannot be looked up: objects are left *)
CleaningFails(c) ==
  /\ c \in cleaning
  /\ cleaning' = cleaning \ {c}
  /\ UNCHANGED <<requestVars, rows, storeVars, scheduleVars, locks, editor, worker, faults>>

-----------------------------------------------------------------------------
(* The background conversion                                                *)

isDue(w, id) ==
  /\ rows[id].convert = "pending" /\ needsConversion(rows[id])
  /\ w \in Cron => id \in due

Others == <<requestVars, storeVars, editor, cleaning>>

(* Time passes: convertNextAt of a waiting row                               *)
FallDue(id) ==
  /\ id \in DOMAIN rows /\ rows[id].convert = "pending" /\ id \notin due
  /\ due' = due \cup {id}
  /\ older' = older \cup { <<x, id>> : x \in due }
  /\ UNCHANGED <<Others, rows, locks, worker, faults>>

(* retryDue: dueRequestIds takes the requests of the rows longest due        *)
Scan(w) ==
  LET waiting == { id \in due : phase[id.request] = "pending" } IN
  /\ w \in Cron /\ worker[w] = Idle
  /\ \E batch \in SUBSET waiting :
       /\ batch # {}
       /\ Cardinality(batch) = Batch \/ (Cardinality(batch) < Batch /\ batch = waiting)
       /\ \A x \in batch, y \in waiting : <<y, x>> \in older => y \in batch
       /\ worker' = [worker EXCEPT ![w] = [Idle EXCEPT !.pc = "read", !.todo = { id.request : id \in batch }]]
  /\ UNCHANGED <<Others, rows, scheduleVars, locks, faults>>

(* What a worker does when it is through with a request                      *)
Turn(todo) == IF todo = {} THEN Idle ELSE [Idle EXCEPT !.pc = "read", !.todo = todo]
LocksKept(w) == locks
Unlocked(w) == { p \in locks : p[2] # w }

(* processRequest: the rows to convert, then the lock of each; a row that    *)
(* another pass holds is left to it, and Redis may be unreachable            *)
Candidates(w, r) ==
  { id \in RowsOf(r, round[r]) : phase[r] = "pending" /\ id.doc \notin Plain /\ isDue(w, id) }

Process(w, r, todo) ==
  LET Locked(ids) ==
        worker' = [worker EXCEPT ![w] =
          IF ids = {} THEN Turn(todo \ {r})
          ELSE [Idle EXCEPT !.pc = "locked", !.todo = todo \ {r}, !.request = r, !.ids = ids]]
  IN
  /\ \/ LET free == { id \in Candidates(w, r) : \A p \in locks : p[1] # id } IN
        /\ locks' = locks \cup (free \X {w})
        /\ Locked(free)
        /\ UNCHANGED faults
     \/ /\ faults < MaxFaults /\ faults' = faults + 1
        /\ Candidates(w, r) # {}
        /\ Locked(Candidates(w, r))
        /\ UNCHANGED locks
  /\ UNCHANGED <<Others, rows, scheduleVars>>

(* handle: a message, perhaps late or repeated, names a request              *)
Consume(w, r) ==
  /\ w \notin Cron /\ worker[w] = Idle
  /\ Candidates(w, r) # {}
  /\ Process(w, r, {r})

Read(w) ==
  /\ worker[w].pc = "read"
  /\ \E r \in worker[w].todo : Process(w, r, worker[w].todo)

(* ... the rows are read again: the pass before may have converted them      *)
Reread(w) ==
  LET ids == { id \in worker[w].ids : id \in DOMAIN rows /\ isDue(w, id) } IN
  /\ worker[w].pc = "locked"
  /\ IF ids = {} THEN /\ worker' = [worker EXCEPT ![w] = Turn(@.todo)]
                      /\ locks' = Unlocked(w)
                 ELSE /\ worker' = [worker EXCEPT ![w].pc = "convert", ![w].ids = ids]
                      /\ UNCHANGED locks
  /\ UNCHANGED <<Others, rows, scheduleVars, faults>>

(* convertAndAttach: each document is converted, or not, outside the         *)
(* transaction                                                               *)
Convert(w) ==
  /\ worker[w].pc = "convert"
  /\ \E ok \in SUBSET worker[w].ids :
       /\ KeysLeft(ok, 1)
       /\ worker' = [worker EXCEPT ![w].pc = "attach",
                                   ![w].results = { [id |-> id, key |-> First(NewKeys(id, TRUE))] : id \in ok }]
  /\ UNCHANGED <<Others, rows, scheduleVars, locks, faults>>

(* ... then the results are attached under the lock of the request row, as   *)
stillNeeded(r, id) == round[r] = id.round /\ needsConversion(rows[id])

Attach(w) ==
  LET me == worker[w]
      useful == { x \in me.results : stillNeeded(me.request, x.id) }
      converted == { x.id : x \in useful }
      failed == { id \in me.ids : (\A x \in me.results : x.id # id) /\ stillNeeded(me.request, id) }
      keys(X) == { x.key : x \in X }
      Attached ==
        /\ rows' = [id \in DOMAIN rows |->
                      IF id \in converted THEN markConverted(rows[id], (CHOOSE x \in useful : x.id = id).key)
                      ELSE IF id \in failed THEN markFailedAttempt(rows[id]) ELSE rows[id]]
        /\ NotDue(converted \cup failed)
        /\ recorded' = recorded \cup keys(useful)
      Leaves(K) == worker' = [worker EXCEPT ![w].pc = "clean", ![w].orphans = K]
      Faulty == faults < MaxFaults /\ faults' = faults + 1
  IN
  /\ me.pc = "attach"
  /\ \/ Attached /\ Leaves(keys(me.results \ useful)) /\ UNCHANGED faults
     \/ Attached /\ Leaves(keys(me.results)) /\ Faulty
     \/ Leaves(keys(me.results)) /\ Faulty /\ UNCHANGED <<rows, scheduleVars, recorded>>
  /\ UNCHANGED <<requestVars, lost, locks, editor, cleaning>>

(* ... and what is not used is deleted, or left if that cannot be looked up  *)
CleanUp(w) ==
  /\ worker[w].pc = "clean"
  /\ lost' = lost \cup (Unused([keys |-> worker[w].orphans, checked |-> TRUE]) \cap recorded)
  /\ locks' = Unlocked(w)
  /\ worker' = [worker EXCEPT ![w] = Turn(@.todo)]
  /\ UNCHANGED <<requestVars, rows, recorded, scheduleVars, editor, cleaning, faults>>

Work(w) == Read(w) \/ Reread(w) \/ Convert(w) \/ Attach(w) \/ CleanUp(w)

WorkerDies(w) ==
  /\ worker[w] # Idle
  /\ faults < MaxFaults /\ faults' = faults + 1
  /\ worker' = [worker EXCEPT ![w] = Idle]
  /\ locks' = { <<p[1], IF p[2] = w THEN None ELSE p[2]>> : p \in locks }
  /\ UNCHANGED <<Others, rows, scheduleVars>>

(* The lock of a dead worker is released after ten minutes; a worker that    *)
(* takes longer than that loses it, too                                      *)
LockExpires(p) ==
  /\ p \in locks
  /\ locks' = locks \ {p}
  /\ IF p[2] = None THEN UNCHANGED faults ELSE faults < MaxFaults /\ faults' = faults + 1
  /\ UNCHANGED <<Others, rows, scheduleVars, worker>>

-----------------------------------------------------------------------------
(* What the page of a request shows and opens                               *)

editing(r) == phase[r] \in {"draft", "returned"}
shownRound(r) == IF editing(r) THEN draftRound(r) ELSE round[r]
Shown(r) == { rows[id].original : id \in RowsOf(r, shownRound(r)) }

(* groupRoundFiles: of every round that was sent, what was uploaded, what is  *)
(* current and what each signature made                                      *)
SentOf(r) == { id \in DOMAIN rows : id.request = r /\ id.round <= round[r] }
Signatures(id) == { i \in 1..Len(rows[id].log) : rows[id].log[i].signed }
groupRoundFiles(r) ==
  UNION { {rows[id].original, rows[id].current} \cup { rows[id].log[i].to : i \in Signatures(id) }
          : id \in SentOf(r) }
PageFiles(r) == Shown(r) \cup groupRoundFiles(r)

(* resolveViewableFile: a file of a row of any round, else what a signature   *)
(* started from or made                                                      *)
Opens(r) ==
  UNION { {rows[id].original, rows[id].current}
            \cup UNION { {rows[id].log[i].from, rows[id].log[i].to} : i \in Signatures(id) }
          : id \in { x \in DOMAIN rows : x.request = r } }

(* prepareFilesArchive; a signed one is refused while the request is edited   *)
buildArchiveEntries(ids, kind) ==
  IF kind = "original" THEN { rows[id].original : id \in ids }
  ELSE { rows[id].current : id \in { x \in ids : x.doc \notin Plain } }
archive(r, kind) ==
  IF editing(r) /\ kind = "signed" THEN {} ELSE buildArchiveEntries(RowsOf(r, shownRound(r)), kind)

-----------------------------------------------------------------------------
Next ==
  \/ \E r \in Request : \/ Create(r) \/ Delete(r) \/ Submit(r) \/ Pass(r) \/ Finish(r)
                        \/ Prepare(r) \/ Sign(r) \/ Return(r)
                        \/ \E s \in Request : Clone(r, s)
                        \/ \E e \in Editor : EditRead(e, r)
                        \/ \E w \in Worker : Consume(w, r)
  \/ \E e \in Editor : EditWrite(e) \/ EditFails(e)
  \/ \E c \in cleaning : Clean(c) \/ CleaningFails(c)
  \/ \E w \in Worker : Scan(w) \/ Work(w) \/ WorkerDies(w)
  \/ \E id \in RowId : FallDue(id)
  \/ \E p \in locks : LockExpires(p)

Spec == Init /\ [][Next]_vars

(* The clock starts a scan every minute and a pass, once started, goes on;   *)
(* time passes.  Nobody has to click, and messages may be lost.              *)
LiveId == { id \in RowId : id.request \notin Archived }

Fairness ==
  /\ \A w \in Worker : WF_vars(Scan(w)) /\ WF_vars(Work(w))
  /\ \A id \in LiveId : WF_vars(FallDue(id)) /\ WF_vars(LockExpires(<<id, None>>))

FairSpec == Spec /\ Fairness

-----------------------------------------------------------------------------
(* A set of files that was sent stays as it was sent: no file joins, leaves  *)
(* or is replaced, and no sent round is forgotten, whatever tabs are open.   *)
SentIds == { id \in DOMAIN rows : id.round <= round[id.request] }

SentFilesFrozen ==
  [][\A r \in Request, n \in 1..MaxRound :
       n <= round[r] =>
         /\ n <= round'[r]
         /\ { id \in DOMAIN rows' : id.request = r /\ id.round = n } = RowsOf(r, n)
         /\ \A id \in RowsOf(r, n) : rows'[id].original = rows[id].original]_vars

(* The versions of a document form one chain: whoever converts or signs      *)
(* starts from the version that is current, nobody's signature is left       *)
(* behind, only the first change may be a conversion and only PDFs are       *)
(* signed.  Two passes, the signing box and the signer race for this.        *)
VersionsFormAChain ==
  \A id \in DOMAIN rows :
    LET log == rows[id].log
        at(i) == IF i = 0 THEN rows[id].original ELSE log[i].to
    IN  /\ rows[id].current = at(Len(log))
        /\ \A i \in 1..Len(log) :
             /\ log[i].from = at(i - 1)
             /\ log[i].signed => isPdf(log[i].from)
             /\ ~log[i].signed => i = 1
        /\ log # <<>> => id \in SentIds

(* Every version a row or a signature refers to has its object: clean-up     *)
(* after an error never deletes a PDF whose transaction did commit.  Copies  *)
(* have no such protection once an answer is lost.                           *)
VersionsAreStored == \A k \in lost : ~k.made /\ faults > 0

(* The chain of every document, and the objects its links are kept in        *)
DocumentsAreSound == DocTypeOK /\ VersionsFormAChain /\ VersionsAreStored

(* Nothing that was ever made of a document gets out of reach: every version *)
(* in the chain of a document opens for whoever may see the request, those   *)
(* replaced by a later conversion or signature included, and so does all the *)
(* page names and all its archives contain.                                  *)
EveryVersionOpens ==
  \A r \in Request : phase[r] \notin {"none", "deleted"} =>
    /\ \A id \in SentOf(r) : \A i \in 1..Len(rows[id].log) :
         {rows[id].log[i].from, rows[id].log[i].to} \subseteq Opens(r)
    /\ PageFiles(r) \subseteq Opens(r)
    /\ \A kind \in {"signed", "original"} : archive(r, kind) \subseteq PageFiles(r)

(* Sending changes nothing on the page: what the requester saw is the set    *)
(* that goes out.  A return shows the same documents again, as copies.       *)
PageShowsWhatIsSent ==
  [][\A r \in Request :
       /\ round'[r] # round[r] => Shown(r)' = Shown(r)
       /\ phase[r] = "pending" /\ phase'[r] = "returned" =>
            { k.doc : k \in Shown(r)' } = { k.doc : k \in Shown(r) }]_vars

(* All of it: what was sent can be relied on, version by version, and read    *)
SentFilesStand ==
  [](DocumentsAreSound /\ EveryVersionOpens) /\ SentFilesFrozen /\ PageShowsWhatIsSent

(* A document waiting to be converted is converted or given up, unless its   *)
(* request moves on, even if every message is lost and workers die.          *)
Awaited(id) ==
  /\ id \in DOMAIN rows /\ rows[id].convert = "pending"
  /\ phase[id.request] = "pending" /\ round[id.request] = id.round

ConversionEnds == \A id \in LiveId : Awaited(id) ~> ~Awaited(id)
=============================================================================
