--------------------------- MODULE ExportJobsProofs ---------------------------
(***************************************************************************)
(* What holds of ExportJobs for any number of jobs, owners, resources and    *)
(* workers, any ceiling and any number of faults.                           *)
(*                                                                         *)
(* A job that is claimed leaves the queue for good, so at most one worker   *)
(* ever processes it (Apart); and whoever ends a job finds it running, so   *)
(* at most one worker is about to tell its owner.                           *)
(***************************************************************************)
EXTENDS ExportJobs, TLAPS

Telling == {"tellLost", "tellFailed", "tellReady"}
Untold == [ready |-> 0, failed |-> 0]
Waiting(j) == job[j].status \in {"none", "asked", "queued"}
Finished(j) == job[j].status \in {"done", "expired"}
Over(j) == Finished(j) /\ job[j].due

(* What a worker relies on about the job at hand *)
WorkerOK(w) ==
  LET pc == worker[w].pc
      j == worker[w].job
  IN /\ pc \in Processing => ~Waiting(j)
     /\ pc \in {"open", "write", "check", "upload", "cancel"} => j \notin store /\ ~Finished(j)
     /\ pc = "finish" => j \in store /\ ~Finished(j)
     /\ pc = "discard" => job[j].status # "processing" /\ ~Finished(j)
     /\ pc = "undo" => (Finished(j) => j \in unsure)
     /\ pc = "fail" => (j \in store => j \in astray)
     /\ pc = "expire" => Over(j) /\ (j \in store => j \in astray)
     /\ pc \in {"expired", "expire"} => \A k \in worker[w].batch : Over(k)
     /\ pc \in Telling => told[j] = Untold
     /\ pc \in {"tellLost", "tellFailed"} => job[j].status = "failed"
     /\ pc = "tellReady" => Finished(j)

HasItsFile(j) == job[j].status = "done" /\ ~job[j].due /\ j \notin unsure => j \in store
FileHasJob(j) ==
  j \in store \ astray =>
    \/ job[j].status = "done"
    \/ \E w \in Worker : worker[w].job = j /\ worker[w].pc \in {"finish", "discard", "undo"}
ToldRight(j) ==
  /\ told[j].ready + told[j].failed <= 1
  /\ told[j].ready = 1 => job[j].status \in {"done", "expired"}
  /\ told[j].failed = 1 => job[j].status = "failed"

JobOK(j) ==
  /\ Waiting(j) => j \notin store
  /\ Waiting(j) \/ job[j].status = "processing" => told[j] = Untold
  /\ HasItsFile(j) /\ FileHasJob(j) /\ ToldRight(j)

Apart ==
  \A v, w \in Worker : v # w /\ worker[v].job = worker[w].job =>
    /\ ~(worker[v].pc \in Processing /\ worker[w].pc \in Processing)
    /\ ~(worker[v].pc \in Telling /\ worker[w].pc \in Telling)

Inv ==
  /\ TypeOK
  /\ \A w \in Worker : WorkerOK(w)
  /\ \A j \in Job : JobOK(j)
  /\ Apart

Pc == Sweeping \cup Processing \cup {"rest"}

(* What JobsEndOnce says of one step *)
EndsOnce ==
  \A j \in Job :
    job[j].status \in Ended =>
      job'[j].status = job[j].status \/ (job[j].status = "done" /\ job'[j].status = "expired")

LEMMA PcType == 
  /\ Processing \subseteq Pc /\ Telling \subseteq Pc
  /\ \A w \in Worker : TypeOK => worker[w].pc \in Pc
BY DEF TypeOK, Doing, Pc, Processing, Sweeping, Telling

LEMMA InitOK == ASSUME Init PROVE Inv
<1>1. TypeOK
  BY ExportAssumption DEF Init, TypeOK, Row, Status, AtRest, Doing, Processing
<1>2. \A w \in Worker : WorkerOK(w)
  BY DEF Init, WorkerOK, AtRest, Processing, Telling
<1>3. \A j \in Job : JobOK(j)
  BY DEF Init, JobOK, HasItsFile, FileHasJob, ToldRight, Untold, Waiting
<1>4. Apart
  BY DEF Init, Apart, AtRest, Processing, Telling
<1> QED
  BY <1>1, <1>2, <1>3, <1>4 DEF Inv

(* What an update of one row changes *)
Becomes(j, status) ==
  /\ job' \in [Job -> Row]
  /\ \A k \in Job \ {j} : job'[k] = job[k]
  /\ job'[j].status = status /\ job'[j].due = job[j].due
  /\ job'[j].fileKey <=> status = "done"

LEMMA RowChanges ==
  ASSUME TypeOK, NEW j \in Job
  PROVE  /\ \A s \in Status \ {"done"} : job[j].status # "done" /\ Sets(j, s) => Becomes(j, s)
         /\ job' = [job EXCEPT ![j].cancelRequested = TRUE] => Becomes(j, job[j].status)
         /\ job' = [job EXCEPT ![j].stale = TRUE] => Becomes(j, job[j].status)
         /\ job' = [job EXCEPT ![j].stale = FALSE] => Becomes(j, job[j].status)
         /\ Done(j) => Becomes(j, "done")
         /\ job' = [job EXCEPT ![j].status = "expired", ![j].fileKey = FALSE] => Becomes(j, "expired")
         /\ job[j].status # "done" /\ job' = [job EXCEPT ![j].status = "processing", ![j].stale = FALSE]
              => Becomes(j, "processing")
<1>1. job \in [Job -> Row] /\ (job[j].fileKey <=> job[j].status = "done")
  BY DEF TypeOK
<1>2. {"done", "expired", "processing"} \subseteq Status
  BY DEF Status
<1>3. ASSUME NEW s \in Status \ {"done"}, job[j].status # "done", Sets(j, s) PROVE Becomes(j, s)
  BY <1>1, <1>3 DEF Sets, Becomes, Row
<1>4. ASSUME NEW b \in BOOLEAN,
             \/ job' = [job EXCEPT ![j].cancelRequested = b]
             \/ job' = [job EXCEPT ![j].stale = b]
      PROVE  Becomes(j, job[j].status)
  BY <1>1, <1>4 DEF Becomes, Row
<1>5. ASSUME Done(j) PROVE Becomes(j, "done")
  BY <1>1, <1>2, <1>5 DEF Done, Becomes, Row
<1>6. ASSUME job' = [job EXCEPT ![j].status = "expired", ![j].fileKey = FALSE]
      PROVE  Becomes(j, "expired")
  BY <1>1, <1>2, <1>6 DEF Becomes, Row
<1>7. ASSUME job[j].status # "done", job' = [job EXCEPT ![j].status = "processing", ![j].stale = FALSE]
      PROVE  Becomes(j, "processing")
  BY <1>1, <1>2, <1>7 DEF Becomes, Row
<1> QED
  BY <1>3, <1>4, <1>5, <1>6, <1>7

LEMMA OwnerOK ==
  ASSUME Inv, NEW j \in Job, Ask(j) \/ Insert(j) \/ Cancel(j)
  PROVE  Inv' /\ EndsOnce
<1>1. TypeOK /\ worker \in [Worker -> Doing]
  BY DEF Inv, TypeOK
<1>2. /\ \/ job[j].status \in {"none", "asked"} /\ \E s \in {"asked", "queued"} : Becomes(j, s)
         \/ job[j].status = "queued" /\ Becomes(j, "cancelled")
         \/ job[j].status = "processing" /\ Becomes(j, "processing")
      /\ UNCHANGED <<store, worker, told, astray, unsure, faults>>
  <2>1. {"asked", "queued", "cancelled"} \subseteq Status \ {"done"}
    BY DEF Status
  <2>2. CASE Ask(j)
    BY <1>1, <2>1, <2>2, RowChanges DEF Ask
  <2>3. CASE Insert(j)
    BY <1>1, <2>1, <2>3, RowChanges DEF Insert
  <2>4. CASE Cancel(j)
    BY <1>1, <2>1, <2>4, RowChanges DEF Cancel
  <2> QED
    BY <2>2, <2>3, <2>4
<1>3. TypeOK'
  BY <1>2 DEF Inv, TypeOK, Becomes
<1>4. \A w \in Worker : WorkerOK(w)'
  BY <1>1, <1>2 DEF Inv, TypeOK, Becomes, Doing, WorkerOK, Waiting, Finished, Over, Processing, Telling
<1>5. \A k \in Job : JobOK(k)'
  BY <1>2 DEF Inv, Becomes, JobOK, HasItsFile, FileHasJob, ToldRight, Waiting
<1>6. Apart'
  BY <1>2 DEF Inv, Apart
<1>7. EndsOnce
  BY <1>2 DEF EndsOnce, Becomes, Ended
<1> QED
  BY <1>3, <1>4, <1>5, <1>6, <1>7 DEF Inv

(* What a worker's step changes of what it is doing *)
Moves(w, pc, j, batch) ==
  /\ worker' \in [Worker -> Doing]
  /\ \A v \in Worker \ {w} : worker'[v] = worker[v]
  /\ worker'[w] = [pc |-> pc, job |-> j, batch |-> batch]

LEMMA WorkerMoves ==
  ASSUME TypeOK, NEW w \in Worker
  PROVE  /\ \A pc \in Pc : Goes(w, pc) => Moves(w, pc, worker[w].job, worker[w].batch)
         /\ Rests(w) => Moves(w, "rest", None, {})
         /\ \A pc \in Pc, j \in Job \cup {None}, B \in SUBSET Job : Takes(w, pc, j, B) => Moves(w, pc, j, B)
<1>1. worker \in [Worker -> Doing]
  BY DEF TypeOK
<1>2. \A pc \in Pc, j \in Job \cup {None}, B \in SUBSET Job : [pc |-> pc, job |-> j, batch |-> B] \in Doing
  BY DEF Doing, Pc
<1>3. worker[w] = [pc |-> worker[w].pc, job |-> worker[w].job, batch |-> worker[w].batch]
  BY <1>1 DEF Doing
<1>4. worker[w].job \in Job \cup {None} /\ worker[w].batch \in SUBSET Job
  BY <1>1 DEF Doing
<1>5. AtRest \in Doing
  BY <1>2 DEF AtRest, Pc
<1>6. ASSUME NEW pc \in Pc, Goes(w, pc) PROVE Moves(w, pc, worker[w].job, worker[w].batch)
  BY <1>1, <1>2, <1>3, <1>4, <1>6 DEF Goes, Moves
<1>7. ASSUME Rests(w) PROVE Moves(w, "rest", None, {})
  BY <1>1, <1>5, <1>7 DEF Rests, Moves, AtRest
<1>8. ASSUME NEW pc \in Pc, NEW j \in Job \cup {None}, NEW B \in SUBSET Job, Takes(w, pc, j, B)
      PROVE  Moves(w, pc, j, B)
  BY <1>1, <1>2, <1>8 DEF Takes, Moves
<1> QED
  BY <1>6, <1>7, <1>8

(* The steps that read, and move their worker alone *)
LEMMA ReadingOK ==
  ASSUME Inv, NEW w \in Worker, UNCHANGED <<job, store, told, unsure>>, faults' \in 0..MaxFaults,
         NEW pc \in Pc, NEW j \in Job \cup {None}, NEW B \in SUBSET Job, Moves(w, pc, j, B),
         astray \subseteq astray', astray' \subseteq Job,
         pc \in Processing => worker[w].pc \in Processing /\ j = worker[w].job,
         pc \in Telling => worker[w].pc \in Telling /\ j = worker[w].job,
         pc # "expire",
         worker[w].pc \in {"finish", "discard", "undo"} =>
           \/ pc \in {"finish", "discard", "undo"}
           \/ worker[w].job \in astray',
         WorkerOK(w)'
  PROVE  Inv' /\ EndsOnce
<1>1. TypeOK'
  BY DEF Inv, TypeOK, Moves, Telling, Processing
<1>2. \A v \in Worker : WorkerOK(v)'
  BY DEF Inv, Moves, WorkerOK, Waiting, Finished, Over
<1>3. ASSUME NEW k \in Job PROVE JobOK(k)'
  <2>1. JobOK(k)
    BY DEF Inv
  <2>2. FileHasJob(k)'
    <3>1. SUFFICES ASSUME k \in store \ astray', job[k].status # "done"
                   PROVE  \E v \in Worker : worker'[v].job = k /\ worker'[v].pc \in {"finish", "discard", "undo"}
      BY DEF FileHasJob
    <3>2. PICK v \in Worker : worker[v].job = k /\ worker[v].pc \in {"finish", "discard", "undo"}
      BY <2>1, <3>1 DEF JobOK, FileHasJob
    <3> QED
      BY <3>1, <3>2 DEF Moves, Processing
  <2> QED
    BY <2>1, <2>2 DEF JobOK, HasItsFile, ToldRight, Waiting
<1>4. Apart'
  BY DEF Inv, Moves, Apart
<1> QED
  BY <1>1, <1>2, <1>3, <1>4 DEF Inv, EndsOnce
(* A worker takes up a job only when nobody else has it *)
Alone(w, j, busy) == \A v \in Worker \ {w} : worker[v].pc \in busy => worker[v].job # j
TakesAlone(w, pc, j) ==
  \A busy \in {Processing, Telling} :
    pc \in busy => (worker[w].pc \in busy /\ j = worker[w].job) \/ Alone(w, j, busy)

LEMMA ApartKept ==
  ASSUME Inv, NEW w \in Worker, NEW pc \in Pc, NEW j \in Job \cup {None}, NEW B \in SUBSET Job,
         Moves(w, pc, j, B), TakesAlone(w, pc, j)
  PROVE  Apart'
<1>1. SUFFICES ASSUME NEW v \in Worker \ {w}, worker[v].job = j, NEW busy \in {Processing, Telling}
               PROVE  ~(worker[v].pc \in busy /\ pc \in busy)
  BY DEF Inv, Apart, Moves
<1>2. CASE worker[w].pc \in busy /\ j = worker[w].job
  BY <1>1, <1>2 DEF Inv, Apart
<1>3. CASE Alone(w, j, busy)
  BY <1>1, <1>3 DEF Alone
<1> QED
  BY <1>1, <1>2, <1>3 DEF TakesAlone

(* The updates that end or begin a job, seen from the other workers *)
Legal(j, s) ==
  \/ job[j].status = "queued" /\ s = "processing"
  \/ job[j].status = "processing" /\ s \in {"processing", "failed", "cancelled", "done"}
  \/ Finished(j) /\ s = "expired"

LEMMA OthersOK ==
  ASSUME Inv, NEW v \in Worker, worker'[v] = worker[v], NEW j \in Job, NEW s \in Status,
         Becomes(j, s), Legal(j, s), UNCHANGED <<store, told, astray>>, unsure \subseteq unsure',
         (s = "done" /\ worker[v].pc \in Processing) => worker[v].job # j
  PROVE  WorkerOK(v)'
<1>1. WorkerOK(v) /\ worker[v] \in Doing
  BY DEF Inv, TypeOK
<1>2. worker[v].batch \subseteq Job /\ (worker[v].pc \in Processing \cup {"expire", "tellLost"} => worker[v].job \in Job)
  BY DEF Inv, TypeOK, Doing
<1>3. \A k \in Job : /\ ~Waiting(k) => ~Waiting(k)'
                     /\ Finished(k) => Finished(k)'
                     /\ k # j \/ s # "done" => (Finished(k)' => Finished(k))
                     /\ Over(k) => Over(k)'
                     /\ job[k].status # "processing" /\ ~Waiting(k) => job'[k].status # "processing"
                     /\ job[k].status = "failed" => job'[k].status = "failed"
  BY DEF Becomes, Legal, Waiting, Finished, Over
<1>4. {"open", "write", "check", "upload", "cancel", "finish", "discard", "undo", "fail", "tellReady", "tellFailed"} \subseteq Processing
  BY DEF Processing
<1> QED
  BY <1>1, <1>2, <1>3, <1>4 DEF WorkerOK, Telling

(* The steps that update one row and tell nobody yet *)
LEMMA UpdateOK ==
  ASSUME Inv, NEW w \in Worker, NEW j \in Job, NEW s \in Status, Becomes(j, s), Legal(j, s),
         UNCHANGED <<store, told, astray>>, unsure \subseteq unsure', unsure' \subseteq Job, faults' \in 0..MaxFaults,
         NEW pc \in Pc, NEW k \in Job \cup {None}, NEW B \in SUBSET Job, Moves(w, pc, k, B),
         TakesAlone(w, pc, k), pc \in Processing \cup {"tellLost", "expire"} => k \in Job,
         s = "done" => worker[w].pc \in Processing /\ worker[w].job = j,
         worker[w].pc \in {"finish", "discard", "undo"} => worker[w].job = j,
         WorkerOK(w)', HasItsFile(j)', FileHasJob(j)'
  PROVE  Inv' /\ EndsOnce
<1>1. TypeOK'
  BY DEF Inv, TypeOK, Moves, Becomes
<1>2. ASSUME NEW v \in Worker \ {w} PROVE WorkerOK(v)'
  <2>1. (s = "done" /\ worker[v].pc \in Processing) => worker[v].job # j
    BY <1>2 DEF Inv, Apart
  <2> QED
    BY <1>2, <2>1, OthersOK DEF Moves
<1>3. ASSUME NEW i \in Job PROVE JobOK(i)'
  <2>1. JobOK(i)
    BY DEF Inv
  <2>2. HasItsFile(i)'
    BY <2>1 DEF JobOK, HasItsFile, Becomes
  <2>3. FileHasJob(i)'
    <3>1. SUFFICES ASSUME i # j, i \in store \ astray, job[i].status # "done"
                   PROVE  \E v \in Worker : worker'[v].job = i /\ worker'[v].pc \in {"finish", "discard", "undo"}
      BY DEF FileHasJob, Becomes
    <3>2. PICK v \in Worker : worker[v].job = i /\ worker[v].pc \in {"finish", "discard", "undo"}
      BY <2>1, <3>1 DEF JobOK, FileHasJob
    <3>3. v # w
      BY <3>1, <3>2
    <3> QED
      BY <3>1, <3>2, <3>3 DEF Moves
  <2>4. (Waiting(i) \/ job[i].status = "processing" => told[i] = Untold)'
    BY <2>1 DEF JobOK, Becomes, Legal, Waiting, Finished
  <2>5. ToldRight(i)'
    BY <2>1 DEF JobOK, ToldRight, Becomes, Legal, Untold, Finished
  <2>6. (Waiting(i) => i \notin store)'
    BY <2>1 DEF JobOK, Becomes, Legal, Waiting, Finished
  <2> QED
    BY <2>2, <2>3, <2>4, <2>5, <2>6 DEF JobOK
<1>4. Apart'
  BY ApartKept
<1>5. EndsOnce
  BY DEF EndsOnce, Becomes, Legal, Finished, Ended
<1> QED
  BY <1>1, <1>2, <1>3, <1>4, <1>5 DEF Inv
(* The steps of a worker that change one object of the store *)
LEMMA StoreOK ==
  ASSUME Inv, NEW w \in Worker, NEW j \in Job, UNCHANGED <<job, told, unsure>>, faults' \in 0..MaxFaults,
         store' \subseteq Job, \A k \in Job \ {j} : k \in store' <=> k \in store,
         astray \subseteq astray', astray' \subseteq Job,
         Over(j) \/ (worker[w].pc \in {"upload", "discard", "undo"} /\ worker[w].job = j),
         j \in store' => j \in store \/ (worker[w].pc = "upload" /\ worker[w].job = j),
         NEW pc \in Pc, NEW i \in Job \cup {None}, NEW B \in SUBSET Job, Moves(w, pc, i, B),
         pc \in Processing => worker[w].pc \in Processing /\ i = worker[w].job /\ i = j,
         pc \notin Telling, pc = "expire" => i \in Job,
         worker[w].pc \in {"finish", "discard", "undo"} => worker[w].job = j,
         WorkerOK(w)', HasItsFile(j)', FileHasJob(j)'
  PROVE  Inv' /\ EndsOnce
<1>1. TypeOK'
  BY DEF Inv, TypeOK, Moves, Telling
<1>2. WorkerOK(w) /\ {"upload", "discard", "undo"} \subseteq Processing
  BY DEF Inv, Processing
<1>3. Over(j) => worker[w].pc # "upload" \/ worker[w].job # j
  BY <1>2 DEF WorkerOK, Over
<1>4. ASSUME NEW v \in Worker \ {w} PROVE WorkerOK(v)'
  <2>1. WorkerOK(v) /\ worker[v] \in Doing /\ worker'[v] = worker[v]
    BY DEF Inv, TypeOK, Moves
  <2>2. worker[v].batch \subseteq Job /\ (worker[v].pc \in Processing \cup {"expire", "tellLost"} => worker[v].job \in Job)
    BY DEF Inv, TypeOK, Doing
  <2>3. worker[v].job = j /\ worker[v].pc \in Processing => Over(j)
    BY <1>2 DEF Inv, Apart
  <2>4. Over(j) => (j \in store' => j \in store)
    BY <1>3
  <2>5. worker[v].job = j => worker[v].pc # "finish"
    BY <2>1, <2>3 DEF WorkerOK, Over, Processing
  <2>6. worker[v].pc \in {"open", "write", "check", "upload", "cancel", "fail", "expire"} /\ worker[v].job = j => Over(j)
    BY <2>1, <2>3 DEF WorkerOK, Processing
  <2>7. {"open", "write", "check", "upload", "cancel", "fail", "finish"} \subseteq Processing
    BY DEF Processing
  <2>8. \A k \in Job : /\ k \in store' => k \in store \/ (k = j /\ ~Over(j))
                       /\ k \in store => k \in store' \/ k = j
    BY <2>4
  <2>9. UNCHANGED <<job, told, unsure>> /\ astray \subseteq astray'
    OBVIOUS
  <2> QED
    BY <2>1, <2>2, <2>5, <2>6, <2>7, <2>8, <2>9 DEF WorkerOK, Waiting, Finished, Over
<1>5. ASSUME NEW k \in Job PROVE JobOK(k)'
  <2>1. JobOK(k)
    BY DEF Inv
  <2>2. HasItsFile(k)'
    BY <2>1 DEF JobOK, HasItsFile
  <2>3. FileHasJob(k)'
    <3>1. SUFFICES ASSUME k # j, k \in store \ astray, job[k].status # "done"
                   PROVE  \E v \in Worker : worker'[v].job = k /\ worker'[v].pc \in {"finish", "discard", "undo"}
      BY DEF FileHasJob
    <3>2. PICK v \in Worker : worker[v].job = k /\ worker[v].pc \in {"finish", "discard", "undo"}
      BY <2>1, <3>1 DEF JobOK, FileHasJob
    <3>3. v # w
      BY <3>1, <3>2
    <3> QED
      BY <3>1, <3>2, <3>3 DEF Moves
  <2>4. (Waiting(k) => k \notin store)'
    <3>1. ~Waiting(j)
      BY <1>2 DEF WorkerOK, Waiting, Over, Finished
    <3> QED
      BY <2>1, <3>1 DEF JobOK, Waiting
  <2> QED
    BY <2>1, <2>2, <2>3, <2>4 DEF JobOK, ToldRight, Waiting
<1>6. Apart'
  <2>1. TakesAlone(w, pc, i)
    BY DEF TakesAlone
  <2> QED
    BY <2>1, ApartKept
<1> QED
  BY <1>1, <1>4, <1>5, <1>6 DEF Inv, EndsOnce

LEMMA TellOK ==
  ASSUME Inv, NEW w \in Worker, NEW to \in {"lost", "rest"},
         \/ Tell(w, "tellLost", "failed", to)
         \/ Tell(w, "tellFailed", "failed", to)
         \/ Tell(w, "tellReady", "ready", to)
  PROVE  Inv' /\ EndsOnce
<1>1. /\ worker[w].pc \in Telling /\ worker[w].job \in Job /\ worker[w].batch \subseteq Job
      /\ WorkerOK(w) /\ JobOK(worker[w].job) /\ told \in [Job -> [ready : Nat, failed : Nat]]
  BY DEF Inv, TypeOK, Doing, Tell, At, Telling, Processing
<1>2. /\ told' \in [Job -> [ready : Nat, failed : Nat]]
      /\ \A k \in Job \ {worker[w].job} : told'[k] = told[k]
  BY <1>1 DEF Tell
<1>3. ASSUME NEW i \in Job, i = worker[w].job PROVE ToldRight(i)'
  <2>1. told[i] = Untold
    BY <1>1, <1>3 DEF WorkerOK
  <2>2. CASE At(w, "tellReady")
    <3>1. told'[i] \in {[ready |-> 1, failed |-> 0], Untold} /\ Finished(i)
      BY <1>1, <1>3, <2>1, <2>2 DEF WorkerOK, Tell, At, Untold
    <3> QED
      BY <3>1 DEF ToldRight, Tell, Untold, Finished
  <2>3. CASE ~At(w, "tellReady")
    <3>1. told'[i] \in {[ready |-> 0, failed |-> 1], Untold} /\ job[i].status = "failed"
      BY <1>1, <1>3, <2>1, <2>3 DEF WorkerOK, Tell, At, Untold
    <3> QED
      BY <3>1 DEF ToldRight, Tell, Untold
  <2> QED
    BY <2>2, <2>3
<1>4. \E j \in Job \cup {None}, B \in SUBSET Job : Moves(w, to, j, B)
  <2>1. to \in Pc
    BY DEF Pc, Sweeping
  <2>2. Goes(w, to) \/ (to = "rest" /\ Rests(w))
    BY DEF Tell
  <2>3. TypeOK /\ worker[w].job \in Job \cup {None} /\ worker[w].batch \in SUBSET Job
    BY <1>1 DEF Inv
  <2>4. CASE Goes(w, to)
    <3>1. Moves(w, to, worker[w].job, worker[w].batch)
      BY <2>1, <2>3, <2>4, WorkerMoves
    <3> QED
      BY <2>3, <3>1
  <2>5. CASE to = "rest" /\ Rests(w)
    <3>1. Moves(w, to, None, {})
      BY <2>3, <2>5, WorkerMoves
    <3> QED
      BY <3>1
  <2> QED
    BY <2>2, <2>4, <2>5
<1>5. UNCHANGED <<job, store, astray, unsure>> /\ faults' \in 0..MaxFaults
  BY ExportAssumption DEF Inv, TypeOK, Tell, Fault
<1>6. TypeOK'
  BY <1>2, <1>4, <1>5 DEF Inv, TypeOK, Moves, Processing
<1>7. ASSUME NEW v \in Worker PROVE WorkerOK(v)'
  <2>1. CASE v = w
    BY <1>4, <2>1 DEF Moves, WorkerOK, Processing, Telling
  <2>2. CASE v # w
    <3>1. worker[v].pc \in Telling => worker[v].job # worker[w].job /\ worker[v].job \in Job
      BY <1>1, <2>2 DEF Inv, Apart, TypeOK, Telling, Processing
    <3>2. worker'[v] = worker[v] /\ WorkerOK(v)
      BY <1>4, <2>2 DEF Moves, Inv
    <3> QED
      BY <1>2, <1>5, <3>1, <3>2 DEF WorkerOK, Waiting, Finished, Over
  <2> QED
    BY <2>1, <2>2
<1>8. ASSUME NEW i \in Job PROVE JobOK(i)'
  <2>1. JobOK(i)
    BY DEF Inv
  <2>2. FileHasJob(i)'
    BY <1>1, <1>4, <1>5, <2>1 DEF JobOK, FileHasJob, Moves, Telling
  <2>3. ToldRight(i)'
    BY <1>2, <1>3, <1>5, <2>1 DEF JobOK, ToldRight
  <2>4. (Waiting(i) \/ job[i].status = "processing" => told[i] = Untold)'
    <3>1. Finished(worker[w].job) \/ job[worker[w].job].status = "failed"
      BY <1>1 DEF WorkerOK, Telling
    <3> QED
      BY <1>2, <1>5, <2>1, <3>1 DEF JobOK, Waiting, Finished
  <2> QED
    BY <1>5, <2>1, <2>2, <2>3, <2>4 DEF JobOK, HasItsFile, Waiting
<1>9. Apart'
  <2>1. PICK j \in Job \cup {None}, B \in SUBSET Job : Moves(w, to, j, B)
    BY <1>4
  <2>2. TakesAlone(w, to, j) /\ to \in Pc
    BY DEF TakesAlone, Processing, Telling, Pc, Sweeping
  <2> QED
    BY <2>1, <2>2, ApartKept
<1> QED
  BY <1>5, <1>6, <1>7, <1>8, <1>9 DEF Inv, EndsOnce
(* The sweep *)
LEMMA SweepOK ==
  ASSUME Inv, NEW w \in Worker, SweepLost(w) \/ SweepExpired(w) \/ ClaimRead(w)
  PROVE  Inv' /\ EndsOnce
<1>1. {"lost", "expired", "claim", "rest"} \subseteq Pc \ (Processing \cup Telling \cup {"expire"})
  BY DEF Pc, Sweeping, Processing, Telling
<1>2. worker[w].pc \in {"rest", "lost", "expired"}
  BY DEF SweepLost, SweepExpired, ClaimRead, AtRest, At
<1>3. UNCHANGED <<job, store, told, astray, unsure, faults>> /\ astray \subseteq Job /\ faults \in 0..MaxFaults
  BY DEF Inv, TypeOK, SweepLost, SweepExpired, ClaimRead
<1>4. CASE SweepLost(w)
  <2>1. PICK B \in SUBSET Job : Moves(w, "lost", None, B)
    BY <1>1, <1>4, WorkerMoves DEF Inv, SweepLost, Mine
  <2>2. WorkerOK(w)'
    BY <1>1, <2>1 DEF Moves, WorkerOK, Processing
  <2> QED
    BY <1>1, <1>2, <1>3, <2>1, <2>2, ReadingOK
<1>5. CASE SweepExpired(w)
  <2> DEFINE B == { j \in Mine(w) : job[j].status = "done" /\ job[j].due }
  <2>1. B \in SUBSET Job /\ Moves(w, "expired", None, B)
    BY <1>1, <1>5, WorkerMoves DEF Inv, SweepExpired, Mine
  <2>2. WorkerOK(w)'
    BY <1>1, <1>3, <2>1 DEF Moves, WorkerOK, Over, Finished, Processing
  <2> HIDE DEF B
  <2> QED
    BY <1>1, <1>2, <1>3, <2>1, <2>2, ReadingOK
<1>6. CASE ClaimRead(w)
  <2>1. PICK pc \in {"claim", "rest"}, B \in SUBSET Job : Moves(w, pc, None, B)
    BY <1>1, <1>6, WorkerMoves DEF Inv, ClaimRead, Claimable, Mine
  <2>2. WorkerOK(w)'
    BY <1>1, <2>1 DEF Moves, WorkerOK, Processing
  <2> QED
    BY <1>1, <1>2, <1>3, <2>1, <2>2, ReadingOK
<1> QED
  BY <1>4, <1>5, <1>6

LEMMA FailLostOK ==
  ASSUME Inv, NEW w \in Worker, FailLost(w)
  PROVE  Inv' /\ EndsOnce
<1>1. /\ TypeOK /\ worker[w].pc = "lost" /\ {"lost", "tellLost"} \subseteq Pc \ (Processing \cup {"expire"})
      /\ "lost" \notin Telling /\ {"lost", "tellLost"} \cap {"finish", "discard", "undo"} = {}
  BY DEF Inv, FailLost, At, Pc, Sweeping, Processing, Telling
<1>2. PICK j \in worker[w].batch :
        IF job[j].status = "processing"
        THEN Sets(j, "failed") /\ Takes(w, "tellLost", j, worker[w].batch \ {j})
        ELSE Takes(w, "lost", j, worker[w].batch \ {j}) /\ UNCHANGED job
  BY DEF FailLost
<1>3. j \in Job /\ worker[w].batch \ {j} \in SUBSET Job /\ j \in Job \cup {None}
  BY <1>1 DEF TypeOK, Doing
<1>4. UNCHANGED <<store, told, astray, unsure, faults>> /\ unsure \subseteq Job /\ astray \subseteq Job /\ faults \in 0..MaxFaults
  BY DEF FailLost, Inv, TypeOK
<1>5. CASE job[j].status = "processing"
  <2>1. Becomes(j, "failed") /\ Legal(j, "failed") /\ "failed" \in Status
    BY <1>1, <1>2, <1>3, <1>5, RowChanges DEF Legal, Status
  <2>2. Moves(w, "tellLost", j, worker[w].batch \ {j})
    BY <1>1, <1>2, <1>3, <1>5, WorkerMoves
  <2>3. WorkerOK(w)'
    BY <1>3, <1>4, <1>5, <2>1, <2>2 DEF Inv, JobOK, WorkerOK, Moves, Becomes, Processing
  <2>4. TakesAlone(w, "tellLost", j)
    <3>1. ASSUME NEW v \in Worker, worker[v].pc \in Telling, worker[v].job = j PROVE FALSE
      BY <1>5, <3>1 DEF Inv, WorkerOK, Finished, Telling
    <3> QED
      BY <1>1, <3>1 DEF TakesAlone, Alone
  <2>5. HasItsFile(j)' /\ FileHasJob(j)'
    <3>1. FileHasJob(j) /\ job'[j].status = "failed"
      BY <1>3, <2>1 DEF Inv, JobOK, Becomes
    <3> QED
      BY <1>1, <1>4, <1>5, <2>2, <3>1 DEF HasItsFile, FileHasJob, Moves
  <2> QED
    BY <1>1, <1>3, <1>4, <2>1, <2>2, <2>3, <2>4, <2>5, UpdateOK
<1>6. CASE job[j].status # "processing"
  <2>1. Moves(w, "lost", j, worker[w].batch \ {j}) /\ UNCHANGED job
    BY <1>1, <1>2, <1>3, <1>6, WorkerMoves
  <2>2. WorkerOK(w)'
    BY <1>1, <2>1 DEF WorkerOK, Moves
  <2> QED
    BY <1>1, <1>3, <1>4, <2>1, <2>2, ReadingOK
<1> QED
  BY <1>5, <1>6

LEMMA DeleteExpiredOK ==
  ASSUME Inv, NEW w \in Worker, DeleteExpired(w)
  PROVE  Inv' /\ EndsOnce
<1>1. /\ TypeOK /\ worker[w].pc = "expired"
      /\ "expire" \in Pc \ (Processing \cup Telling)
  BY DEF Inv, DeleteExpired, At, Pc, Sweeping, Processing, Telling
<1>2. PICK j \in worker[w].batch : Deletes(j) /\ Takes(w, "expire", j, worker[w].batch \ {j})
  BY DEF DeleteExpired
<1>3. j \in Job /\ worker[w].batch \ {j} \in SUBSET Job /\ j \in Job \cup {None}
  BY <1>1 DEF TypeOK, Doing
<1>4. UNCHANGED <<job, told, unsure>>
  BY DEF DeleteExpired
<1>5. Over(j) /\ WorkerOK(w)
  BY <1>1 DEF Inv, WorkerOK
<1>6. /\ store' \subseteq store /\ store \subseteq Job /\ (\A k \in Job \ {j} : k \in store' <=> k \in store)
      /\ astray \subseteq astray' /\ astray' \subseteq Job /\ (j \in store' => j \in astray')
      /\ faults' \in 0..MaxFaults
  BY <1>1, <1>2, <1>3, ExportAssumption DEF Deletes, Fault, TypeOK
<1>7. Moves(w, "expire", j, worker[w].batch \ {j})
  BY <1>1, <1>2, <1>3, WorkerMoves
<1>8. WorkerOK(w)' /\ HasItsFile(j)' /\ FileHasJob(j)'
  BY <1>1, <1>4, <1>5, <1>6, <1>7 DEF WorkerOK, Moves, Over, Finished, HasItsFile, FileHasJob
<1>9. store' \subseteq Job /\ (j \in store' => j \in store)
  BY <1>6
<1>10. worker[w].pc \notin {"finish", "discard", "undo"} /\ "expire" \notin Processing /\ "expire" \notin Telling
  BY <1>1
<1> QED
  BY <1>1, <1>3, <1>4, <1>5, <1>6, <1>7, <1>8, <1>9, <1>10, StoreOK

LEMMA ExpireOK ==
  ASSUME Inv, NEW w \in Worker, Expire(w)
  PROVE  Inv' /\ EndsOnce
<1>1. /\ TypeOK /\ worker[w].pc = "expire" /\ worker[w].job \in Job /\ worker[w].batch \subseteq Job
      /\ "expired" \in Pc \ (Processing \cup Telling) /\ WorkerOK(w)
  BY DEF Inv, TypeOK, Doing, Expire, At, Pc, Sweeping, Processing, Telling
<1>2. PICK j \in Job : j = worker[w].job
  BY <1>1
<1>3. Over(j) /\ (j \in store => j \in astray)
  BY <1>1, <1>2 DEF WorkerOK
<1>4. Becomes(j, "expired") /\ Legal(j, "expired") /\ "expired" \in Status
  BY <1>1, <1>2, <1>3, RowChanges DEF Expire, Legal, Over, Status
<1>5. Moves(w, "expired", j, worker[w].batch)
  BY <1>1, <1>2, WorkerMoves DEF Expire
<1>6. UNCHANGED <<store, told, astray, unsure, faults>> /\ unsure \subseteq Job /\ astray \subseteq Job /\ faults \in 0..MaxFaults
  BY <1>1 DEF Expire, TypeOK
<1>7. WorkerOK(w)'
  <2>1. \A k \in Job : Over(k) => Over(k)'
    BY <1>4 DEF Becomes, Over, Finished
  <2> QED
    BY <1>1, <1>5, <1>6, <2>1 DEF WorkerOK, Moves
<1>8. HasItsFile(j)' /\ FileHasJob(j)' /\ TakesAlone(w, "expired", j)
  BY <1>1, <1>3, <1>4, <1>6 DEF HasItsFile, FileHasJob, Becomes, TakesAlone
<1> QED
  BY <1>1, <1>4, <1>5, <1>6, <1>7, <1>8, UpdateOK

LEMMA ClaimWriteOK ==
  ASSUME Inv, NEW w \in Worker, ClaimWrite(w)
  PROVE  Inv' /\ EndsOnce
<1>1. /\ TypeOK /\ worker[w].pc = "claim"
      /\ "open" \in Pc /\ "open" \in Processing \ Telling /\ "rest" \in Pc \ (Processing \cup Telling)
  BY DEF Inv, ClaimWrite, At, Pc, Processing, Telling
<1>2. UNCHANGED <<store, told, astray, unsure, faults>> /\ unsure \subseteq Job /\ astray \subseteq Job /\ faults \in 0..MaxFaults
  BY <1>1 DEF ClaimWrite, TypeOK
<1>3. CASE Rests(w) /\ UNCHANGED job
  <2>1. Moves(w, "rest", None, {})
    BY <1>1, <1>3, WorkerMoves
  <2>2. WorkerOK(w)'
    BY <1>1, <2>1 DEF Moves, WorkerOK
  <2> QED
    BY <1>1, <1>2, <1>3, <2>1, <2>2, ReadingOK
<1>4. ASSUME NEW j \in worker[w].batch \cap Claimable(w), Takes(w, "open", j, {}),
             job' = [job EXCEPT ![j].status = "processing", ![j].stale = FALSE]
      PROVE  Inv' /\ EndsOnce
  <2>1. j \in Job /\ job[j].status = "queued" /\ "processing" \in Status
    BY <1>4 DEF Claimable, Mine, Status
  <2>2. Becomes(j, "processing") /\ Legal(j, "processing")
    BY <1>1, <1>4, <2>1, RowChanges DEF Legal
  <2>3. Moves(w, "open", j, {})
    BY <1>1, <1>4, <2>1, WorkerMoves
  <2>4. JobOK(j) /\ j \notin store
    BY <2>1 DEF Inv, JobOK, Waiting
  <2>5. WorkerOK(w)' /\ HasItsFile(j)' /\ FileHasJob(j)'
    BY <1>1, <1>2, <2>2, <2>3, <2>4 DEF WorkerOK, HasItsFile, FileHasJob, Becomes, Moves, Waiting, Finished
  <2>6. TakesAlone(w, "open", j)
    <3>1. \A v \in Worker : worker[v].pc \in Processing => worker[v].job # j
      BY <2>1 DEF Inv, WorkerOK, Waiting
    <3> QED
      BY <1>1, <3>1 DEF TakesAlone, Alone
  <2> QED
    BY <1>1, <1>2, <2>1, <2>2, <2>3, <2>5, <2>6, UpdateOK
<1> QED
  BY <1>3, <1>4 DEF ClaimWrite
(* Processing.  The job in a worker's hands ... *)
LEMMA AtWork ==
  ASSUME Inv, NEW w \in Worker, worker[w].pc \in Processing
  PROVE  /\ TypeOK /\ WorkerOK(w) /\ worker[w].job \in Job /\ worker[w].batch \in SUBSET Job
         /\ worker[w].job \in Job \cup {None} /\ JobOK(worker[w].job)
         /\ store \subseteq Job /\ unsure \subseteq Job /\ astray \subseteq Job /\ faults \in 0..MaxFaults
BY DEF Inv, TypeOK, Doing

(* ... and where the worker goes from there *)
LEMMA WorkPc ==
  /\ {"open", "write", "check", "upload", "finish", "discard", "undo", "cancel", "fail"}
       \subseteq (Processing \cap Pc) \ Telling
  /\ {"tellFailed", "tellReady"} \subseteq Processing \cap Pc \cap Telling
  /\ "rest" \in Pc \ (Processing \cup Telling)
BY DEF Pc, Processing, Telling

LEMMA ReadOK ==
  ASSUME Inv, NEW w \in Worker, Open(w) \/ Write(w) \/ WriteFails(w)
  PROVE  Inv' /\ EndsOnce
<1>1. worker[w].pc \in {"open", "write", "check"}
  BY DEF Open, Write, WriteFails, At
<1>2. worker[w].pc \in Processing
  BY <1>1, WorkPc
<1>3. UNCHANGED <<job, store, told, astray, unsure, faults>>
  BY DEF Open, Write, WriteFails, Stays
<1>4. CASE Rests(w)
  <2>1. Moves(w, "rest", None, {})
    BY <1>2, <1>4, AtWork, WorkerMoves
  <2>2. WorkerOK(w)'
    BY <2>1, WorkPc DEF Moves, WorkerOK
  <2> QED
    BY <1>1, <1>2, <1>3, <2>1, <2>2, AtWork, WorkPc, ReadingOK
<1>5. ASSUME NEW pc \in {"write", "check", "upload", "cancel", "fail"}, Goes(w, pc) PROVE Inv' /\ EndsOnce
  <2>1. Moves(w, pc, worker[w].job, worker[w].batch)
    BY <1>2, <1>5, AtWork, WorkPc, WorkerMoves
  <2>2. WorkerOK(w)'
    BY <1>1, <1>2, <1>3, <1>5, <2>1, AtWork, WorkPc DEF Moves, WorkerOK, Waiting, Finished
  <2> QED
    BY <1>1, <1>2, <1>3, <1>5, <2>1, <2>2, AtWork, WorkPc, ReadingOK
<1> QED
  BY <1>4, <1>5 DEF Open, Write, WriteFails

LEMMA UploadOK ==
  ASSUME Inv, NEW w \in Worker, Upload(w)
  PROVE  Inv' /\ EndsOnce
<1>1. worker[w].pc = "upload" /\ worker[w].pc \in Processing
  BY WorkPc DEF Upload, At
<1>2. PICK j \in Job : j = worker[w].job
  BY <1>1, AtWork
<1>3. WorkerOK(w) /\ ~Finished(j) /\ ~Waiting(j)
  BY <1>1, <1>2, AtWork DEF WorkerOK
<1>4. UNCHANGED <<job, told, astray, unsure, faults>>
  BY DEF Upload
<1>5. PICK pc \in {"finish", "undo"} :
        /\ Goes(w, pc)
        /\ store' = store \cup {j} \/ (pc = "undo" /\ store' = store)
  BY <1>2 DEF Upload
<1>6. Moves(w, pc, j, worker[w].batch)
  BY <1>1, <1>2, <1>5, AtWork, WorkPc, WorkerMoves
<1>7. WorkerOK(w)' /\ HasItsFile(j)' /\ FileHasJob(j)'
  BY <1>3, <1>4, <1>5, <1>6, WorkPc DEF WorkerOK, HasItsFile, FileHasJob, Moves, Waiting, Finished
<1> QED
  BY <1>1, <1>2, <1>4, <1>5, <1>6, <1>7, AtWork, WorkPc, StoreOK

LEMMA DiscardOK ==
  ASSUME Inv, NEW w \in Worker, Discard(w)
  PROVE  Inv' /\ EndsOnce
<1>1. worker[w].pc \in {"discard", "undo"} /\ worker[w].pc \in Processing
  BY WorkPc DEF Discard, At
<1>2. PICK j \in Job : j = worker[w].job
  BY <1>1, AtWork
<1>3. WorkerOK(w) /\ (Finished(j) => j \in unsure) /\ ~Waiting(j)
  BY <1>1, <1>2, AtWork DEF WorkerOK
<1>4. UNCHANGED <<job, told, unsure>>
  BY DEF Discard
<1>5. /\ store' \subseteq Job /\ (\A k \in Job \ {j} : k \in store' <=> k \in store)
      /\ astray \subseteq astray' /\ astray' \subseteq Job /\ (j \in store' => j \in astray' /\ j \in store)
      /\ faults' \in 0..MaxFaults
  <2>1. Deletes(j)
    BY <1>2 DEF Discard
  <2> QED
    BY <1>1, <2>1, AtWork, ExportAssumption DEF Deletes, Fault
<1>6. PICK pc \in {"fail", "rest"}, i \in Job \cup {None}, B \in SUBSET Job :
        Moves(w, pc, i, B) /\ (pc = "fail" => i = j)
  <2>1. CASE Goes(w, "fail")
    BY <1>1, <1>2, <2>1, AtWork, WorkPc, WorkerMoves
  <2>2. CASE Rests(w)
    BY <1>1, <2>2, AtWork, WorkerMoves
  <2> QED
    BY <2>1, <2>2 DEF Discard
<1>7. WorkerOK(w)'
  BY <1>3, <1>4, <1>5, <1>6, WorkPc DEF WorkerOK, Moves, Waiting
<1>8. HasItsFile(j)' /\ FileHasJob(j)'
  BY <1>3, <1>4, <1>5 DEF HasItsFile, FileHasJob, Finished
<1> QED
  BY <1>1, <1>2, <1>4, <1>5, <1>6, <1>7, <1>8, AtWork, WorkPc, StoreOK

(* The update that ends the job one is processing *)
LEMMA EndOK ==
  ASSUME Inv, NEW w \in Worker, worker[w].pc \in {"finish", "cancel", "fail"}, NEW j \in Job, j = worker[w].job,
         job[j].status = "processing", UNCHANGED <<store, told, astray>>, faults' \in 0..MaxFaults,
         \/ Sets(j, "cancelled") /\ Rests(w) /\ worker[w].pc = "cancel" /\ unsure' = unsure
         \/ Sets(j, "failed") /\ Goes(w, "tellFailed") /\ worker[w].pc = "fail" /\ unsure' = unsure
         \/ Done(j) /\ Goes(w, "tellReady") /\ worker[w].pc = "finish" /\ unsure' = unsure
         \/ Done(j) /\ Goes(w, "undo") /\ worker[w].pc = "finish" /\ unsure' = unsure \cup {j}
  PROVE  Inv' /\ EndsOnce
<1>1. worker[w].pc \in Processing
  BY WorkPc
<1>2. WorkerOK(w) /\ told[j] = Untold
  BY <1>1, AtWork DEF JobOK
<1>3. unsure \subseteq unsure' /\ unsure' \subseteq Job
  BY <1>1, AtWork
<1>4. {"cancelled", "failed", "done"} \subseteq Status
  BY DEF Status
<1>5. ASSUME NEW v \in Worker, worker[v].pc \in Telling PROVE worker[v].job # j
  BY <1>5 DEF Inv, WorkerOK, Telling, Finished
<1>6. CASE Sets(j, "cancelled") /\ Rests(w) /\ worker[w].pc = "cancel" /\ unsure' = unsure
  <2>1. Becomes(j, "cancelled") /\ Legal(j, "cancelled") /\ Moves(w, "rest", None, {})
    BY <1>1, <1>4, <1>6, AtWork, RowChanges, WorkerMoves DEF Legal
  <2>2. WorkerOK(w)' /\ TakesAlone(w, "rest", None)
    BY <2>1, WorkPc DEF Moves, WorkerOK, TakesAlone
  <2>3. HasItsFile(j)' /\ FileHasJob(j)'
    BY <1>2, <1>6, <2>1 DEF WorkerOK, HasItsFile, FileHasJob, Becomes
  <2> QED
    BY <1>1, <1>3, <1>4, <1>6, <2>1, <2>2, <2>3, WorkPc, UpdateOK
<1>7. CASE Sets(j, "failed") /\ Goes(w, "tellFailed") /\ worker[w].pc = "fail" /\ unsure' = unsure
  <2>1. Becomes(j, "failed") /\ Legal(j, "failed") /\ Moves(w, "tellFailed", j, worker[w].batch)
    BY <1>1, <1>4, <1>7, AtWork, WorkPc, RowChanges, WorkerMoves DEF Legal
  <2>2. WorkerOK(w)'
    BY <1>2, <2>1 DEF Moves, WorkerOK, Becomes, Waiting
  <2>3. TakesAlone(w, "tellFailed", j)
    BY <1>1, <1>5 DEF TakesAlone, Alone
  <2>4. HasItsFile(j)' /\ FileHasJob(j)'
    BY <1>2, <1>7, <2>1 DEF WorkerOK, HasItsFile, FileHasJob, Becomes
  <2> QED
    BY <1>1, <1>3, <1>4, <1>7, <2>1, <2>2, <2>3, <2>4, AtWork, WorkPc, UpdateOK
<1>8. ASSUME NEW pc \in {"tellReady", "undo"}, Done(j), Goes(w, pc), worker[w].pc = "finish",
             pc = "undo" => j \in unsure'
      PROVE  Inv' /\ EndsOnce
  <2>1. Becomes(j, "done") /\ Legal(j, "done") /\ Moves(w, pc, j, worker[w].batch)
    BY <1>1, <1>4, <1>8, AtWork, WorkPc, RowChanges, WorkerMoves DEF Legal
  <2>2. WorkerOK(w)'
    BY <1>2, <1>8, <2>1, WorkPc DEF Moves, WorkerOK, Becomes, Waiting, Finished
  <2>3. TakesAlone(w, pc, j)
    BY <1>1, <1>5 DEF TakesAlone, Alone
  <2>4. HasItsFile(j)' /\ FileHasJob(j)'
    BY <1>2, <1>8, <2>1 DEF WorkerOK, HasItsFile, FileHasJob, Becomes
  <2> QED
    BY <1>1, <1>3, <1>4, <1>8, <2>1, <2>2, <2>3, <2>4, AtWork, WorkPc, UpdateOK
<1> QED
  BY <1>6, <1>7, <1>8

LEMMA EndingOK ==
  ASSUME Inv, NEW w \in Worker, Finish(w) \/ FinishFails(w) \/ StopCancelled(w) \/ Fail(w)
  PROVE  Inv' /\ EndsOnce
<1>1. worker[w].pc \in {"finish", "cancel", "fail"} /\ worker[w].pc \in Processing
  BY WorkPc DEF Finish, FinishFails, StopCancelled, Fail, At
<1>2. PICK j \in Job : j = worker[w].job
  BY <1>1, AtWork
<1>3. UNCHANGED <<store, told, astray>>
  BY DEF Finish, FinishFails, StopCancelled, Fail
<1>4. faults' \in 0..MaxFaults
  BY <1>1, AtWork, ExportAssumption DEF Finish, FinishFails, StopCancelled, Fail, Fault
<1>5. CASE UNCHANGED <<job, unsure, faults>>
  <2>1. PICK pc \in {"discard", "undo", "rest"}, i \in Job \cup {None}, B \in SUBSET Job :
          /\ Moves(w, pc, i, B)
          /\ pc # "rest" => worker[w].pc = "finish" /\ i = j
          /\ pc = "discard" => job[j].status # "processing"
          /\ pc = "rest" => worker[w].pc # "finish"
    <3>1. CASE Rests(w) /\ worker[w].pc # "finish"
      BY <1>1, <3>1, AtWork, WorkerMoves
    <3>2. ASSUME NEW pc \in {"discard", "undo"}, Goes(w, pc), worker[w].pc = "finish",
                 pc = "discard" => job[j].status # "processing"
          PROVE  \E i \in Job \cup {None}, B \in SUBSET Job :
                   Moves(w, pc, i, B) /\ i = j
      BY <1>1, <1>2, <3>2, AtWork, WorkPc, WorkerMoves
    <3>3. \/ Rests(w) /\ worker[w].pc # "finish"
          \/ \E pc \in {"discard", "undo"} : /\ Goes(w, pc) /\ worker[w].pc = "finish"
                                             /\ pc = "discard" => job[j].status # "processing"
      <4>1. CASE Finish(w)
        <5>1. job[j].status # "processing"
          BY <1>1, <1>2, <1>5, <4>1, AtWork DEF Finish, Current, Done, TypeOK, Row
        <5> QED
          BY <1>2, <4>1, <5>1 DEF Finish, Current, At
      <4>2. CASE FinishFails(w)
        BY <4>2 DEF FinishFails, At
      <4>3. CASE StopCancelled(w)
        BY <4>3 DEF StopCancelled, At
      <4>4. CASE Fail(w)
        <5>1. job[j].status # "processing"
          BY <1>1, <1>2, <1>5, <4>4, AtWork DEF Fail, Current, Sets, TypeOK, Row
        <5> QED
          BY <1>2, <4>4, <5>1 DEF Fail, Current, At
      <4> QED
        BY <4>1, <4>2, <4>3, <4>4
    <3> QED
      BY <3>1, <3>2, <3>3
  <2>2. WorkerOK(w)'
    BY <1>1, <1>2, <1>3, <1>5, <2>1, AtWork, WorkPc DEF WorkerOK, Moves, Waiting, Finished
  <2> QED
    BY <1>1, <1>2, <1>3, <1>5, <2>1, <2>2, AtWork, WorkPc, ReadingOK
<1>6. CASE ~UNCHANGED <<job, unsure, faults>>
  <2>1. job[j].status = "processing"
    BY <1>2, <1>6 DEF Finish, FinishFails, StopCancelled, Fail, Current
  <2> QED
    BY <1>1, <1>2, <1>3, <1>4, <1>6, <2>1, EndOK DEF Finish, FinishFails, StopCancelled, Fail, Current, At
<1> QED
  BY <1>5, <1>6
(* Heartbeats and time change a mark of one row, never its status *)
LEMMA MarkOK ==
  ASSUME Inv, NEW j \in Job, UNCHANGED <<store, worker, told, astray, unsure>>, faults' \in 0..MaxFaults,
         \/ job' = [job EXCEPT ![j].stale = TRUE]
         \/ job' = [job EXCEPT ![j].stale = FALSE]
         \/ job' = [job EXCEPT ![j].due = TRUE]
  PROVE  Inv' /\ EndsOnce
<1>1. job \in [Job -> Row]
  BY DEF Inv, TypeOK
<1>2. /\ job' \in [Job -> Row]
      /\ \A k \in Job : /\ job'[k].status = job[k].status /\ job'[k].fileKey = job[k].fileKey
                        /\ job[k].due => job'[k].due
  <2>1. CASE job' = [job EXCEPT ![j].due = TRUE]
    BY <1>1, <2>1 DEF Row
  <2>2. CASE job' = [job EXCEPT ![j].stale = TRUE]
    BY <1>1, <2>2 DEF Row
  <2>3. CASE job' = [job EXCEPT ![j].stale = FALSE]
    BY <1>1, <2>3 DEF Row
  <2> QED
    BY <2>1, <2>2, <2>3
<1>3. TypeOK'
  BY <1>2 DEF Inv, TypeOK
<1>4. ASSUME NEW w \in Worker PROVE WorkerOK(w)'
  <2>1. \A k \in Job : Over(k) => Over(k)'
    BY <1>2 DEF Over, Finished
  <2>2. WorkerOK(w) /\ worker[w] \in Doing
    BY DEF Inv, TypeOK
  <2>3. worker[w].batch \subseteq Job /\ (worker[w].pc \in Processing \cup {"expire", "tellLost"} => worker[w].job \in Job)
    BY DEF Inv, TypeOK, Doing
  <2>4. {"open", "write", "check", "upload", "cancel", "finish", "discard", "undo", "fail", "tellReady", "tellFailed"} \subseteq Processing
    BY DEF Processing
  <2> QED
    BY <1>2, <2>1, <2>2, <2>3, <2>4 DEF WorkerOK, Waiting, Finished
<1>5. \A k \in Job : JobOK(k)'
  BY <1>2 DEF Inv, JobOK, HasItsFile, FileHasJob, ToldRight, Waiting
<1>6. Apart'
  BY DEF Inv, Apart
<1> QED
  BY <1>2, <1>3, <1>4, <1>5, <1>6 DEF Inv, EndsOnce

LEMMA CrashOK ==
  ASSUME Inv, NEW w \in Worker, Crash(w)
  PROVE  Inv' /\ EndsOnce
<1>1. Moves(w, "rest", None, {})
  BY WorkerMoves DEF Inv, Crash
<1>2. WorkerOK(w)'
  BY <1>1, WorkPc DEF Moves, WorkerOK
<1>3. /\ astray \subseteq astray' /\ astray' \subseteq Job
      /\ worker[w].pc \in {"finish", "discard", "undo"} => worker[w].job \in astray'
  <2>1. worker[w].pc \in {"finish", "discard", "undo"} => worker[w].job \in Job
    BY AtWork, WorkPc
  <2> QED
    BY <2>1 DEF Crash, Inv, TypeOK
<1>4. UNCHANGED <<job, store, told, unsure>> /\ faults' \in 0..MaxFaults
  BY ExportAssumption DEF Crash, Fault, Inv, TypeOK
<1> QED
  BY <1>1, <1>2, <1>3, <1>4, WorkPc, ReadingOK

LEMMA NextOK == ASSUME Inv, [Next]_vars PROVE Inv' /\ (EndsOnce \/ UNCHANGED vars)
<1>1. CASE UNCHANGED vars
  BY <1>1 DEF vars, Inv, TypeOK, WorkerOK, JobOK, Apart, Waiting, Finished, Over, HasItsFile, FileHasJob, ToldRight
<1>2. ASSUME NEW j \in Job, Ask(j) \/ Insert(j) \/ Cancel(j) PROVE Inv' /\ EndsOnce
  BY <1>2, OwnerOK
<1>3. ASSUME NEW w \in Worker, Tick(w) PROVE Inv' /\ EndsOnce
  <2>1. CASE TellLost(w) \/ TellFailed(w) \/ TellReady(w)
    BY <2>1, TellOK DEF TellLost, TellFailed, TellReady
  <2> QED
    BY <1>3, <2>1, SweepOK, FailLostOK, DeleteExpiredOK, ExpireOK, ClaimWriteOK, ReadOK, UploadOK, DiscardOK, EndingOK DEF Tick
<1>4. ASSUME NEW w \in Worker, Heartbeat(w) PROVE Inv' /\ EndsOnce
  <2>1. worker[w].job \in Job /\ faults' \in 0..MaxFaults
    BY <1>4, AtWork DEF Heartbeat
  <2> QED
    BY <1>4, <2>1, MarkOK DEF Heartbeat
<1>5. ASSUME NEW j \in Job, GoStale(j) \/ FallDue(j) \/ LoseHeartbeats(j) PROVE Inv' /\ EndsOnce
  <2>1. faults' \in 0..MaxFaults
    BY <1>5, ExportAssumption DEF GoStale, FallDue, LoseHeartbeats, Fault, Inv, TypeOK
  <2> QED
    BY <1>5, <2>1, MarkOK DEF GoStale, FallDue, LoseHeartbeats
<1> QED
  BY <1>1, <1>2, <1>3, <1>4, <1>5, CrashOK DEF Next, OwnerNext, TimeNext

LEMMA Invariant == Spec => []Inv
<1>1. Inv /\ [Next]_vars => Inv'
  BY NextOK
<1> QED
  BY InitOK, <1>1, PTL DEF Spec

(* Rows, objects, workers and notifications keep their types; a row names a     *)
(* file exactly while its job is done (process, sweep).                        *)
THEOREM TypeIsInvariant == Spec => []TypeOK
<1>1. Inv => TypeOK
  BY DEF Inv
<1> QED
  BY <1>1, Invariant, PTL

(* Until its retention period is over, a job that is done has its file, unless  *)
(* the answer to the update that finished it was lost (process, sweep).         *)
THEOREM FilesAreKept == Spec => []DoneHasItsFile
<1>1. Inv => DoneHasItsFile
  BY DEF Inv, JobOK, HasItsFile, DoneHasItsFile
<1> QED
  BY <1>1, Invariant, PTL

(* No object of the store is left without a finished job or a worker that will  *)
(* see to it, unless a crash or the store's failure left it (process, sweep).   *)
THEOREM FilesAreOwned == Spec => []NoFileWithoutJob
<1>1. Inv => NoFileWithoutJob
  BY DEF Inv, TypeOK, JobOK, FileHasJob, NoFileWithoutJob
<1> QED
  BY <1>1, Invariant, PTL

(* The owner is told at most once, and what became of the job, whichever worker *)
(* reports it (fail, notifyDone).                                              *)
THEOREM OwnersAreToldOnce == Spec => []ToldOnceAndRight
<1>1. Inv => ToldOnceAndRight
  BY DEF Inv, JobOK, ToldRight, ToldOnceAndRight
<1> QED
  BY <1>1, Invariant, PTL

(* How a job ended is never overturned, by the sweep, by a worker that comes    *)
(* back or by a cancellation: the conditional updates of process and fail.      *)
THEOREM EndsAreFinal == Spec => JobsEndOnce
<1>1. Inv /\ [Next]_vars =>
        [\A j \in Job :
           job[j].status \in Ended =>
             job'[j].status = job[j].status \/ (job[j].status = "done" /\ job'[j].status = "expired")]_vars
  BY NextOK DEF EndsOnce
<1> QED
  BY <1>1, Invariant, PTL DEF Spec, JobsEndOnce
=============================================================================
