------------------------------ MODULE ExportJobs ------------------------------
(***************************************************************************)
(* Background exports (libs/core-service/services/export): the table        *)
(* export_jobs is a queue that the workers of core-jobs and app-jobs serve. *)
(*                                                                         *)
(* A worker's tick sweeps (lost jobs, expired files), claims a job and      *)
(* processes it.  Every statement is a transaction of its own, so every     *)
(* statement is an action here, and other workers and the owner may come in *)
(* between any two.  The only protection is the condition `status =         *)
(* processing' of the updates that end a job.                               *)
(***************************************************************************)
EXTENDS Naturals, FiniteSets

CONSTANTS
  Job,          \* the jobs, numbered in the order of their created_at
  Owner,        \* the user of each job
  Resource,     \* the list each job exports
  Worker,       \* worker processes
  Registry,     \* the resources each worker may export
  MaxRunning,   \* EXPORT_MAX_CONCURRENT_JOBS
  None,
  MaxFaults     \* bound: crashes, failures of the store or the database, lost heartbeats

ASSUME ExportAssumption ==
  /\ Job \subseteq Nat
  /\ None \notin Job
  /\ \A j \in Job : \E w \in Worker : Resource[j] \in Registry[w]
  /\ MaxRunning \in Nat \ {0} /\ MaxFaults \in Nat

VARIABLES
  job,      \* the rows of export_jobs, and the requests that are about to insert one
  store,    \* jobs with an object in the private store
  worker,   \* what each worker is doing
  told,     \* history: the notifications each owner got about a job
  astray,   \* history: jobs whose object a crash or the store's failure left behind
  unsure,   \* history: jobs whose last update was committed but never confirmed
  faults    \* faults so far

vars == <<job, store, worker, told, astray, unsure, faults>>

Status == {"none", "asked", "queued", "processing", "done", "failed", "cancelled", "expired"}
Ended == {"done", "failed", "cancelled", "expired"}

(* stale: no heartbeat for ten minutes; due: past expiresAt *)
Row == [status : Status, cancelRequested : BOOLEAN, fileKey : BOOLEAN,
        stale : BOOLEAN, due : BOOLEAN]

Sweeping == {"lost", "tellLost", "expired", "expire", "claim"}
Processing == {"open", "write", "check", "upload", "finish", "discard", "undo",
               "cancel", "fail", "tellFailed", "tellReady"}

(* batch: the jobs the sweep found, or those the claiming statement sees queued *)
Doing == [pc : Sweeping \cup Processing \cup {"rest"}, job : Job \cup {None}, batch : SUBSET Job]
AtRest == [pc |-> "rest", job |-> None, batch |-> {}]

(* A row names a file exactly while it is done *)
TypeOK ==
  /\ job \in [Job -> Row]
  /\ \A j \in Job : job[j].fileKey <=> job[j].status = "done"
  /\ store \subseteq Job /\ astray \subseteq Job /\ unsure \subseteq Job
  /\ worker \in [Worker -> Doing]
  /\ \A w \in Worker :
       worker[w].pc \in Processing \cup {"tellLost", "expire"} => worker[w].job \in Job
  /\ told \in [Job -> [ready : Nat, failed : Nat]]
  /\ faults \in 0..MaxFaults

Fault == faults < MaxFaults /\ faults' = faults + 1
At(w, pc) == worker[w].pc = pc
Goes(w, pc) == worker' = [worker EXCEPT ![w].pc = pc]
Takes(w, pc, j, batch) == worker' = [worker EXCEPT ![w] = [pc |-> pc, job |-> j, batch |-> batch]]
Rests(w) == worker' = [worker EXCEPT ![w] = AtRest]
Sets(j, status) == job' = [job EXCEPT ![j].status = status]
Mine(w) == { j \in Job : Resource[j] \in Registry[w] }

-----------------------------------------------------------------------------
(* The owner                                                                *)

Active(j) == job[j].status \in {"queued", "processing"}

(* prepare: no active job of the user is counted ...                         *)
Ask(j) ==
  /\ job[j].status = "none"
  /\ \A k \in Job : k < j => job[k].status # "none"
  /\ \A k \in Job : Owner[k] = Owner[j] => ~Active(k)
  /\ Sets(j, "asked")
  /\ UNCHANGED <<store, worker, told, astray, unsure, faults>>

(* ... and one is inserted, whatever was inserted in between *)
Insert(j) ==
  /\ job[j].status = "asked"
  /\ Sets(j, "queued")
  /\ UNCHANGED <<store, worker, told, astray, unsure, faults>>

(* cancelJob: a waiting job is cancelled, a running one asked to stop *)
Cancel(j) ==
  /\ \/ job[j].status = "queued" /\ Sets(j, "cancelled")
     \/ job[j].status = "processing" /\ job' = [job EXCEPT ![j].cancelRequested = TRUE]
  /\ UNCHANGED <<store, worker, told, astray, unsure, faults>>

-----------------------------------------------------------------------------
(* The sweep                                                                *)

SweepLost(w) ==
  /\ worker[w] = AtRest
  /\ Takes(w, "lost", None, { j \in Mine(w) : job[j].status = "processing" /\ job[j].stale })
  /\ UNCHANGED <<job, store, told, astray, unsure, faults>>

FailLostAlways(w) ==
  /\ At(w, "lost")
  /\ \E j \in worker[w].batch :
       /\ Sets(j, "failed")
       /\ Takes(w, "tellLost", j, worker[w].batch \ {j})
  /\ UNCHANGED <<store, told, astray, unsure, faults>>

(* fail: only a job that is still running fails, and only then is its owner told *)
FailLost(w) ==
  /\ At(w, "lost")
  /\ \E j \in worker[w].batch :
       LET left(pc) == Takes(w, pc, j, worker[w].batch \ {j})
       IN IF job[j].status = "processing"
          THEN Sets(j, "failed") /\ left("tellLost")
          ELSE left("lost") /\ UNCHANGED job
  /\ UNCHANGED <<store, told, astray, unsure, faults>>

(* notify: a notification that cannot be stored is given up *)
Tell(w, from, kind, to) ==
  /\ At(w, from)
  /\ \/ /\ told' = IF kind = "ready" THEN [told EXCEPT ![worker[w].job].ready = @ + 1]
                   ELSE [told EXCEPT ![worker[w].job].failed = @ + 1]
        /\ UNCHANGED faults
     \/ Fault /\ UNCHANGED told
  /\ IF to = "rest" THEN Rests(w) ELSE Goes(w, to)
  /\ UNCHANGED <<job, store, astray, unsure>>

TellLost(w) == Tell(w, "tellLost", "failed", "lost")

SweepExpiredEarly(w) ==
  /\ At(w, "lost") /\ worker[w].batch = {}
  /\ Takes(w, "expired", None, { j \in Mine(w) : job[j].status = "done" })
  /\ UNCHANGED <<job, store, told, astray, unsure, faults>>

SweepExpired(w) ==
  /\ At(w, "lost") /\ worker[w].batch = {}
  /\ Takes(w, "expired", None, { j \in Mine(w) : job[j].status = "done" /\ job[j].due })
  /\ UNCHANGED <<job, store, told, astray, unsure, faults>>

(* deleteObject, by a caller who goes on whether or not the store obeys *)
Deletes(j) ==
  \/ store' = store \ {j} /\ UNCHANGED <<astray, faults>>
  \/ Fault /\ astray' = astray \cup {j} /\ UNCHANGED store

ExpireAndForget(w) ==
  /\ At(w, "expired")
  /\ \E j \in worker[w].batch :
       /\ job' = [job EXCEPT ![j].status = "expired", ![j].fileKey = FALSE]
       /\ Takes(w, "expire", j, worker[w].batch \ {j})
  /\ UNCHANGED <<store, told, astray, unsure, faults>>

DeleteExpired(w) ==
  /\ At(w, "expired")
  /\ \E j \in worker[w].batch :
       /\ Deletes(j)
       /\ Takes(w, "expire", j, worker[w].batch \ {j})
  /\ UNCHANGED <<job, told, unsure>>

ExpireKeepingKey(w) ==
  /\ At(w, "expire")
  /\ Sets(worker[w].job, "expired")
  /\ Goes(w, "expired")
  /\ UNCHANGED <<store, told, astray, unsure, faults>>

Expire(w) ==
  /\ At(w, "expire")
  /\ job' = [job EXCEPT ![worker[w].job].status = "expired", ![worker[w].job].fileKey = FALSE]
  /\ Goes(w, "expired")
  /\ UNCHANGED <<store, told, astray, unsure, faults>>

-----------------------------------------------------------------------------
(* Claiming (claimNext)                                                     *)

Running(w) == { j \in Mine(w) : job[j].status = "processing" }
Claimable(w) == { j \in Mine(w) : job[j].status = "queued" /\ ~job[j].cancelRequested }

(* The statement counts the running jobs in its own snapshot, which is also   *)
(* where it sees which jobs are queued ...                                    *)
ClaimRead(w) ==
  /\ At(w, "expired") /\ worker[w].batch = {}
  /\ IF Cardinality(Running(w)) < MaxRunning
     THEN Takes(w, "claim", None, Claimable(w))
     ELSE Rests(w)
  /\ UNCHANGED <<job, store, told, astray, unsure, faults>>

(* ... and takes the oldest of them that nobody took meanwhile (skip locked)  *)
ClaimWrite(w) ==
  /\ At(w, "claim")
  /\ LET free == worker[w].batch \cap Claimable(w)
     IN \/ free = {} /\ Rests(w) /\ UNCHANGED job
        \/ \E j \in free :
             /\ \A k \in free : j <= k
             /\ job' = [job EXCEPT ![j].status = "processing", ![j].stale = FALSE]
             /\ Takes(w, "open", j, {})
  /\ UNCHANGED <<store, told, astray, unsure, faults>>

-----------------------------------------------------------------------------
(* Processing (process)                                                     *)

Current(w) == job[worker[w].job]
Stays == UNCHANGED <<job, store, told, astray, unsure, faults>>

(* The row is read: by now the sweep may have taken the worker for lost        *)
Open(w) ==
  /\ At(w, "open")
  /\ IF Current(w).status = "processing" THEN Goes(w, "write") ELSE Rests(w)
  /\ Stays

(* Between two batches of rows, or when the file is complete, a cancellation  *)
(* is noticed; the file may be completed without another look                 *)
Write(w) ==
  /\ \/ At(w, "write") /\ Goes(w, "check")
     \/ At(w, "check") /\ ~Current(w).cancelRequested /\ Goes(w, "upload")
     \/ worker[w].pc \in {"write", "check"} /\ Current(w).cancelRequested /\ Goes(w, "cancel")
  /\ Stays

(* Too long, a query that fails, a full disk ...                            *)
WriteFails(w) ==
  /\ worker[w].pc \in {"write", "check"}
  /\ Goes(w, "fail")
  /\ Stays

(* The object is stored; a failing call may have stored it all the same       *)
Upload(w) ==
  /\ At(w, "upload")
  /\ \/ store' = store \cup {worker[w].job} /\ (Goes(w, "finish") \/ Goes(w, "undo"))
     \/ UNCHANGED store /\ Goes(w, "undo")
  /\ UNCHANGED <<job, told, astray, unsure, faults>>

Done(j) == job' = [job EXCEPT ![j].status = "done", ![j].fileKey = TRUE]

FinishAlways(w) ==
  /\ At(w, "finish")
  /\ Done(worker[w].job) /\ Goes(w, "tellReady")
  /\ UNCHANGED <<store, told, astray, unsure, faults>>

(* The job is done unless it is not running any more: then the result goes    *)
Finish(w) ==
  /\ At(w, "finish")
  /\ IF Current(w).status = "processing"
     THEN Done(worker[w].job) /\ Goes(w, "tellReady")
     ELSE Goes(w, "discard") /\ UNCHANGED job
  /\ UNCHANGED <<store, told, astray, unsure, faults>>

(* The database fails, before the update or after it                          *)
FinishFails(w) ==
  /\ At(w, "finish") /\ Goes(w, "undo")
  /\ \/ UNCHANGED <<job, unsure, faults>>
     \/ /\ Fault /\ Current(w).status = "processing"
        /\ Done(worker[w].job) /\ unsure' = unsure \cup {worker[w].job}
  /\ UNCHANGED <<store, told, astray>>

DiscardNothing(w) ==
  /\ At(w, "discard") \/ At(w, "undo")
  /\ IF At(w, "undo") THEN Deletes(worker[w].job) /\ Goes(w, "fail")
     ELSE Rests(w) /\ UNCHANGED <<store, astray, faults>>
  /\ UNCHANGED <<job, told, unsure>>

Discard(w) ==
  /\ At(w, "discard") \/ At(w, "undo")
  /\ Deletes(worker[w].job)
  /\ IF At(w, "undo") THEN Goes(w, "fail") ELSE Rests(w)
  /\ UNCHANGED <<job, told, unsure>>

StopCancelled(w) ==
  /\ At(w, "cancel")
  /\ IF Current(w).status = "processing" THEN Sets(worker[w].job, "cancelled") ELSE UNCHANGED job
  /\ Rests(w)
  /\ UNCHANGED <<store, told, astray, unsure, faults>>

Fail(w) ==
  /\ At(w, "fail")
  /\ IF Current(w).status = "processing"
     THEN Sets(worker[w].job, "failed") /\ Goes(w, "tellFailed")
     ELSE Rests(w) /\ UNCHANGED job
  /\ UNCHANGED <<store, told, astray, unsure, faults>>

TellFailed(w) == Tell(w, "tellFailed", "failed", "rest")
TellReady(w) == Tell(w, "tellReady", "ready", "rest")

(* Every minute while it is processing, and with the progress it reports      *)
Heartbeat(w) ==
  /\ worker[w].pc \in Processing \ {"open"}
  /\ Current(w).status = "processing" /\ Current(w).stale
  /\ job' = [job EXCEPT ![worker[w].job].stale = FALSE]
  /\ UNCHANGED <<store, worker, told, astray, unsure, faults>>

-----------------------------------------------------------------------------
(* Time, and what fails                                                     *)

Abandoned(j) == job[j].status = "processing" /\ \A w \in Worker : worker[w].pc \in Processing => worker[w].job # j

(* Ten minutes without a heartbeat, from a worker that is gone ...             *)
GoStale(j) ==
  /\ Abandoned(j) /\ ~job[j].stale
  /\ job' = [job EXCEPT ![j].stale = TRUE]
  /\ UNCHANGED <<store, worker, told, astray, unsure, faults>>

(* ... or from one that is working but whose heartbeats do not get through     *)
LoseHeartbeats(j) ==
  /\ Fault /\ job[j].status = "processing" /\ ~job[j].stale
  /\ job' = [job EXCEPT ![j].stale = TRUE]
  /\ UNCHANGED <<store, worker, told, astray, unsure>>

(* The retention period of a file ends *)
FallDue(j) ==
  /\ job[j].status = "done" /\ ~job[j].due
  /\ job' = [job EXCEPT ![j].due = TRUE]
  /\ UNCHANGED <<store, worker, told, astray, unsure, faults>>

(* A worker dies, or the database fails it outside of process: a new tick      *)
Crash(w) ==
  /\ Fault /\ worker[w] # AtRest
  /\ astray' = IF worker[w].pc \in {"finish", "discard", "undo"} THEN astray \cup {worker[w].job} ELSE astray
  /\ Rests(w)
  /\ UNCHANGED <<job, store, told, unsure>>

-----------------------------------------------------------------------------

Init ==
  /\ job = [j \in Job |-> [status |-> "none", cancelRequested |-> FALSE, fileKey |-> FALSE,
                           stale |-> FALSE, due |-> FALSE]]
  /\ store = {} /\ astray = {} /\ unsure = {}
  /\ worker = [w \in Worker |-> AtRest]
  /\ told = [j \in Job |-> [ready |-> 0, failed |-> 0]]
  /\ faults = 0

OwnerNext == \E j \in Job : Ask(j) \/ Insert(j) \/ Cancel(j)
Tick(w) ==
  \/ SweepLost(w) \/ FailLost(w) \/ TellLost(w) \/ SweepExpired(w) \/ DeleteExpired(w) \/ Expire(w)
  \/ ClaimRead(w) \/ ClaimWrite(w)
  \/ Open(w) \/ Write(w) \/ WriteFails(w) \/ Upload(w) \/ Finish(w) \/ FinishFails(w)
  \/ Discard(w) \/ StopCancelled(w) \/ Fail(w) \/ TellFailed(w) \/ TellReady(w)
TimeNext == \E j \in Job : GoStale(j) \/ FallDue(j)

Next ==
  \/ OwnerNext
  \/ \E w \in Worker : Tick(w) \/ Heartbeat(w) \/ Crash(w)
  \/ TimeNext
  \/ \E j \in Job : LoseHeartbeats(j)

Spec == Init /\ [][Next]_vars

(* A worker ticks every ten seconds; the batches of a file are finitely many.   *)
(* Time passes.                                                                *)
FairSpec ==
  /\ Spec
  /\ \A w \in Worker : WF_vars(Tick(w))
  /\ \A j \in Job : WF_vars(GoStale(j)) /\ WF_vars(FallDue(j))

-----------------------------------------------------------------------------
(* What must hold                                                           *)

(* A job ends once: neither the sweep that takes its worker for lost, nor the   *)
(* worker that comes back, nor the owner's cancellation overturns how it ended; *)
(* only a finished job's file expires.                                          *)
JobsEndOnce ==
  [][\A j \in Job :
       job[j].status \in Ended =>
         job'[j].status = job[j].status \/ (job[j].status = "done" /\ job'[j].status = "expired")]_vars

(* A job that is done has its file until the retention period is over, unless   *)
(* the answer to its last update was lost: the worker then removes the file it   *)
(* has just handed in.                                                          *)
DoneHasItsFile ==
  \A j \in Job : job[j].status = "done" /\ ~job[j].due /\ j \notin unsure => j \in store

(* Every stored object is the file of a finished job, or in the hands of the     *)
(* worker that stored it, unless a crash or the store's own failure left it:     *)
(* a job that was failed or cancelled behind the worker's back keeps none.       *)
NoFileWithoutJob ==
  \A j \in store \ astray :
    \/ job[j].status = "done"
    \/ \E w \in Worker : worker[w].job = j /\ worker[w].pc \in {"finish", "discard", "undo"}

(* The owner is told once, and what became of the job: the sweep, several         *)
(* workers that find it lost, and its own worker do not all report on it.        *)
ToldOnceAndRight ==
  \A j \in Job :
    /\ told[j].ready + told[j].failed <= 1
    /\ told[j].ready = 1 => job[j].status \in {"done", "expired"}
    /\ told[j].failed = 1 => job[j].status = "failed"

(* Whatever workers die, a waiting job ends: it is processed, or found lost.     *)
EveryJobEnds == \A j \in Job : job[j].status = "queued" ~> job[j].status \in Ended

(* A finished job's file is removed from the store in the end, unless the store  *)
(* failed.                                                                       *)
FilesExpire == \A j \in Job : job[j].status = "done" ~> (j \notin store \/ j \in astray)

(* Nothing a job leaves in the queue or in the store stays there for ever        *)
JobsAndFilesEnd == EveryJobEnds /\ FilesExpire

(* "Several workers do not exceed the ceiling" (export-job.runner.ts:63)         *)
CeilingHolds == Cardinality({ j \in Job : job[j].status = "processing" }) <= MaxRunning
=============================================================================
