------------------------------- MODULE Previews -------------------------------
(***************************************************************************)
(* Previews of private PDF files: made by the job that gets a message about *)
(* each confirmed upload, and by a backfill for the messages that got lost, *)
(* the files of old and the tries that failed.  Both read the row, work on  *)
(* the file, and write back the columns they changed, without a lock.       *)
(***************************************************************************)
EXTENDS Naturals

CONSTANTS
  File,         \* private PDF files whose upload was confirmed
  Consumer,     \* jobs that take messages
  Cron,         \* backfills
  MaxAttempts,  \* PDF_PREVIEW_MAX_ATTEMPTS
  MaxConfirms,  \* bound: confirmations of one upload that pass the check at once
  MaxFaults,    \* bound: lost messages, jobs that die
  None          \* null

VARIABLES
  row,       \* attachments: previewStatus, previewAttempts, previewKey, deleted
  store,     \* files with a preview in the bucket
  message,   \* files with a message waiting
  confirms,  \* confirmations that set the preview to pending
  pass,      \* processing: the row as read and as changed
  faults

vars == <<row, store, message, confirms, pass, faults>>

Processor == Consumer \cup Cron
Status == {"none", "pending", "ready", "skipped", "failed"}
Preview == [status : Status, attempts : 0..(MaxAttempts + MaxConfirms), key : BOOLEAN, deleted : BOOLEAN]
Waits(f) == row[f].status = "pending" /\ ~row[f].deleted

PreviewTypeOK ==
  /\ row \in [File -> Preview] /\ store \subseteq File /\ message \subseteq File
  /\ confirms \in [File -> 0..MaxConfirms] /\ faults \in 0..MaxFaults
  /\ pass \in [Processor -> [at : {"work", "check", "flush"}, file : File,
                             read : Preview, now : Preview] \cup {None}]
  \* previews announced can be opened
  /\ \A f \in File : row[f].status = "ready" /\ ~row[f].deleted => row[f].key /\ f \in store

Fault == faults < MaxFaults /\ faults' = faults + 1

(* A file of old has no preview yet and waits for a first backfill           *)
Init ==
  /\ row = [f \in File |-> [status |-> "none", attempts |-> 0, key |-> FALSE, deleted |-> FALSE]]
  /\ store = {} /\ message = {}
  /\ confirms = [f \in File |-> 0]
  /\ pass = [p \in Processor |-> None]
  /\ faults = 0

-----------------------------------------------------------------------------
(* completeUpload sets the preview to pending and publishes a message; two   *)
(* calls may both find the upload unconfirmed, the second soon after the     *)
(* first: before the second try of the preview.                              *)
Confirm(f) ==
  /\ confirms[f] < MaxConfirms /\ row[f].attempts <= 1 /\ ~row[f].deleted
  /\ confirms' = [confirms EXCEPT ![f] = @ + 1]
  /\ row' = [row EXCEPT ![f].status = "pending"]
  /\ \/ message' = message \cup {f} /\ UNCHANGED faults
     \/ Fault /\ UNCHANGED message
  /\ UNCHANGED <<store, pass>>

(* A racing confirmation or the cleanup of uploads removes the file          *)
Delete(f) ==
  /\ ~row[f].deleted
  /\ row' = [row EXCEPT ![f].deleted = TRUE]
  /\ UNCHANGED <<store, message, confirms, pass, faults>>

(* process: anything but a pending file that is not deleted is left alone    *)
Process(p, f) ==
  pass' = IF Waits(f)
          THEN [pass EXCEPT ![p] = [at |-> "work", file |-> f, read |-> row[f], now |-> row[f]]]
          ELSE pass

Consume(p, f) ==
  /\ p \in Consumer /\ pass[p] = None /\ f \in message
  /\ message' = message \ {f}
  /\ Process(p, f)
  /\ UNCHANGED <<row, store, confirms, faults>>

(* The backfill takes the files without a status along ...                   *)
Old(f) == row[f].status = "none" /\ ~row[f].deleted
MarkOld(p) ==
  /\ p \in Cron /\ pass[p] = None
  /\ \E f \in File : Old(f)
  /\ row' = [f \in File |-> IF Old(f) THEN [row[f] EXCEPT !.status = "pending"] ELSE row[f]]
  /\ UNCHANGED <<store, message, confirms, pass, faults>>

(* ... and those whose delay, by their attempts, is over: there is one for   *)
(* each number of attempts below the maximum                                 *)
DueAtFirst(f) == Waits(f) /\ row[f].attempts = 0
Due(f) == Waits(f) /\ row[f].attempts < MaxAttempts

Backfill(p, f) ==
  /\ p \in Cron /\ pass[p] = None /\ Due(f)
  /\ Process(p, f)
  /\ UNCHANGED <<row, store, message, confirms, faults>>

Becomes(p, r) == pass' = [pass EXCEPT ![p].now = r, ![p].at = "check"]

(* An error costs an attempt, the last one ends it                           *)
Failed(r) == [r EXCEPT !.attempts = @ + 1,
                       !.status = IF r.attempts + 1 >= MaxAttempts THEN "failed" ELSE "pending"]
FailedUncounted(r) == [r EXCEPT !.status = IF r.attempts + 1 >= MaxAttempts THEN "failed" ELSE "pending"]

(* Protected or compact already, optimised and stored, or an error           *)
WorkOn(p) ==
  LET f == pass[p].file
      r == pass[p].read
  IN
  /\ pass[p] # None /\ pass[p].at = "work"
  /\ \/ Becomes(p, [r EXCEPT !.status = "skipped"]) /\ UNCHANGED store
     \/ store' = store \cup {f} /\ Becomes(p, [r EXCEPT !.status = "ready", !.key = TRUE])
     \/ store' \in {store, store \cup {f}} /\ Becomes(p, Failed(r))
  /\ UNCHANGED <<row, message, confirms, faults>>

(* The preview of a file deleted meanwhile is not kept                       *)
Check(p) ==
  LET f == pass[p].file IN
  /\ pass[p] # None /\ pass[p].at = "check"
  /\ IF row[f].deleted /\ pass[p].now.key
     THEN /\ store' = store \ {f}
          /\ pass' = [pass EXCEPT ![p].at = "flush", ![p].now.key = FALSE]
     ELSE pass' = [pass EXCEPT ![p].at = "flush"] /\ UNCHANGED store
  /\ UNCHANGED <<row, message, confirms, faults>>

(* The flush writes what differs from what was read                          *)
Merged(r, read, now) ==
  [c \in DOMAIN r |-> IF now[c] = read[c] THEN r[c] ELSE now[c]]

Flush(p) ==
  /\ pass[p] # None /\ pass[p].at = "flush"
  /\ row' = [row EXCEPT ![pass[p].file] = Merged(@, pass[p].read, pass[p].now)]
  /\ pass' = [pass EXCEPT ![p] = None]
  /\ UNCHANGED <<store, message, confirms, faults>>

(* The job dies, or the database fails: a message is dead-lettered           *)
Dies(p) ==
  /\ pass[p] # None /\ Fault
  /\ pass' = [pass EXCEPT ![p] = None]
  /\ UNCHANGED <<row, store, message, confirms>>

-----------------------------------------------------------------------------
ProcessorNext(p) ==
  (\E f \in File : Consume(p, f) \/ Backfill(p, f)) \/ MarkOld(p) \/ WorkOn(p) \/ Check(p) \/ Flush(p)

Next == (\E f \in File : Confirm(f) \/ Delete(f)) \/ \E p \in Processor : ProcessorNext(p) \/ Dies(p)

(* The jobs run on, and the backfill comes round to every file that is due:  *)
(* thirty a run, the newest first, and what it takes is not due again soon.  *)
Fair ==
  /\ \A p \in Processor : WF_vars(WorkOn(p) \/ Check(p) \/ Flush(p))
  /\ \A p \in Cron, f \in File : SF_vars(Backfill(p, f))

Spec == Init /\ [][Next]_vars /\ Fair

-----------------------------------------------------------------------------
(* Whatever happens to its message, and however often jobs die, fail or work *)
(* on one file at the same time and undercount its attempts, a file does not *)
(* wait for its preview for ever.                                            *)
PreviewsEnd == \A f \in File : Waits(f) ~> ~Waits(f)
=============================================================================
