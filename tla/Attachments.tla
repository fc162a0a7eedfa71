------------------------------ MODULE Attachments ------------------------------
(***************************************************************************)
(* Files uploaded straight to the private bucket: the link and the pending *)
(* row, the upload behind the backend's back, the confirmation that checks *)
(* what arrived and the hourly cleanup of abandoned uploads.  Rows and     *)
(* objects have no common transaction, and nothing here takes a lock on a  *)
(* row: every wait for the bucket is a step.  What the bucket or the database *)
(* is asked to do may fail, done or not.                                    *)
(***************************************************************************)
EXTENDS Naturals, FiniteSets

CONSTANTS
  File,          \* attachment rows
  Name,          \* Name[f]: its folder and file name
  Large,         \* those sent in parts
  Confirmer,     \* requests that confirm an upload
  MaxNames,      \* MAX_TRIES of a name before a random one is taken
  Absent         \* null

VARIABLES
  attachment, \* the rows
  stored,   \* the bucket: whose upload wrote the object of a key, and whether
            \* the contents are of the size and kind that was declared
  link,     \* files whose signed links still work
  parts,    \* what was sent in parts: nothing, contents not assembled yet, or
            \* "closed" once they were or the upload in parts was aborted
  old,      \* rows past PENDING_UPLOAD_MAX_AGE_MINUTES
  confirming, \* confirmations under way
  cleanup,  \* the cleanup: rows to remove, rows whose objects are gone
  taken,    \* history: pending rows a cleanup has taken
  dropped,     \* history: files one confirmation had found good and another deleted
  overwritten \* history: files written to after a confirmation found them good

attachmentVars == <<attachment, stored, link, parts, old, confirming, cleanup, taken, dropped, overwritten>>
histories == <<taken, dropped, overwritten>>

(* A name without a suffix, with one, or with a random one that is unique    *)
Key == {Name[f] : f \in File} \X ((1..MaxNames) \cup File)
Row == [status : {"pending", "ready"}, deleted : BOOLEAN, key : Key]
Rows == {f \in File : attachment[f] # Absent}
Live(f) == attachment[f] # Absent /\ ~attachment[f].deleted
Confirmation == [at : {"read", "verify", "reject", "ready", "remove"}, file : File]
Object == [of : File, good : BOOLEAN]

ASSUME AttachmentsAssumption ==
  /\ MaxNames \in Nat
  /\ Absent \notin Row \cup Confirmation

NoCleanup == [todo |-> {}, done |-> {}]

AttachmentsTypeOK ==
  /\ attachment \in [File -> Row \cup {Absent}]
  /\ DOMAIN stored \subseteq Key /\ stored \in [DOMAIN stored -> Object]
  /\ link \subseteq Rows /\ old \subseteq Rows /\ taken \cup dropped \cup overwritten \subseteq Rows
  /\ parts \in [File -> {"none", "good", "bad", "closed"}]
  /\ confirming \in [Confirmer -> Confirmation \cup {Absent}]
  /\ \A c \in Confirmer : confirming[c] # Absent => confirming[c].file \in Rows
  /\ cleanup \in [todo : SUBSET Rows, done : SUBSET Rows]

AttachmentsInit ==
  /\ attachment = [f \in File |-> Absent]
  /\ stored = [k \in {} |-> k]
  /\ link = {} /\ parts = [f \in File |-> "none"] /\ old = {}
  /\ confirming = [c \in Confirmer |-> Absent]
  /\ cleanup = NoCleanup /\ taken = {} /\ dropped = {} /\ overwritten = {}

Written(k, o) == [x \in DOMAIN stored \cup {k} |-> IF x = k THEN o ELSE stored[x]]
Without(K) == [x \in DOMAIN stored \ K |-> stored[x]]

(* A confirmation has found the file good, and may have written so           *)
FoundGood(f) ==
  \/ attachment[f].status = "ready"
  \/ \E c \in Confirmer : confirming[c] # Absent /\ confirming[c].at = "ready" /\ confirming[c].file = f

Writes(f, good) ==
  /\ stored' = Written(attachment[f].key, [of |-> f, good |-> good])
  /\ overwritten' = IF FoundGood(f) THEN overwritten \cup {f} ELSE overwritten

-----------------------------------------------------------------------------
(* Uploading                                                                *)

(* buildUniqueKey: the first name no object has; nothing reserves it         *)
buildUniqueKey(f) ==
  LET free == { i \in 1..MaxNames : <<Name[f], i>> \notin DOMAIN stored }
  IN  IF free = {} THEN <<Name[f], f>> ELSE <<Name[f], CHOOSE i \in free : \A j \in free : i <= j>>

(* presignFileUpload, createUploadUrl                                        *)
Presign(f) ==
  /\ attachment[f] = Absent
  /\ attachment' = [attachment EXCEPT ![f] = [status |-> "pending", deleted |-> FALSE, key |-> buildUniqueKey(f)]]
  /\ link' = link \cup {f}
  /\ UNCHANGED <<stored, parts, old, confirming, cleanup, histories>>

(* The browser writes the object, or its parts, whenever it likes and as     *)
(* often as it likes while the links work, with whatever contents            *)
Upload(f) ==
  /\ f \in link
  /\ \E good \in BOOLEAN :
       IF f \in Large
       THEN /\ parts[f] # "closed"
            /\ parts' = [parts EXCEPT ![f] = IF good THEN "good" ELSE "bad"]
            /\ UNCHANGED <<stored, overwritten>>
       ELSE Writes(f, good) /\ UNCHANGED parts
  /\ UNCHANGED <<attachment, link, old, confirming, cleanup, taken, dropped>>

(* Time: links live for half an hour, a pending row is old after two         *)
LinkExpires(f) ==
  /\ link' = link \ {f} /\ f \in link
  /\ UNCHANGED <<attachment, stored, parts, old, confirming, cleanup, histories>>
GrowOld(f) ==
  /\ f \in Rows \ (link \cup old)
  /\ old' = old \cup {f}
  /\ UNCHANGED <<attachment, stored, link, parts, confirming, cleanup, histories>>

-----------------------------------------------------------------------------
(* completeUpload                                                           *)

Continues(c, at) == confirming' = [confirming EXCEPT ![c].at = at]

(* The row is read; a confirmed one is returned, a deleted one refused.  The *)
(* caller says whether there are parts to assemble                           *)
ConfirmRead(c, f) ==
  /\ confirming[c] = Absent /\ Live(f) /\ attachment[f].status = "pending"
  /\ \E at \in {"read", "verify"} : confirming' = [confirming EXCEPT ![c] = [at |-> at, file |-> f]]
  /\ UNCHANGED <<attachment, stored, link, parts, old, cleanup, histories>>

(* completeMultipartUpload: assembled, or aborted and the parts are gone, if *)
(* that does not fail too; an answer may get lost when all was done           *)
Assemble(c) ==
  LET f == confirming[c].file
      sent == parts[f] \in {"good", "bad"}
  IN
  /\ confirming[c] # Absent /\ confirming[c].at = "read"
  /\ \/ /\ sent /\ Writes(f, parts[f] = "good") /\ parts' = [parts EXCEPT ![f] = "closed"]
        /\ Continues(c, "verify") \/ Continues(c, "remove")
     \/ /\ Continues(c, "remove")
        /\ \/ parts' = parts
           \/ f \in Large /\ parts' = [parts EXCEPT ![f] = "closed"]
        /\ UNCHANGED <<stored, overwritten>>
  /\ UNCHANGED <<attachment, link, old, cleanup, taken, dropped>>

(* verifyUploadedObject: no object, or no answer; good contents of the       *)
(* declared size (by chance those of somebody else's file); anything else,   *)
(* also an error while they are read, rejects the file                       *)
Missing(f) == attachment[f].key \notin DOMAIN stored
Verify(c) ==
  LET f == confirming[c].file IN
  /\ confirming[c] # Absent /\ confirming[c].at = "verify"
  /\ \/ Continues(c, "remove")
     \/ ~Missing(f) /\ stored[attachment[f].key].good /\ Continues(c, "ready")
     \/ ~Missing(f) /\ Continues(c, "reject")
  /\ UNCHANGED <<attachment, stored, link, parts, old, cleanup, histories>>

(* ... and a file that is rejected is deleted, whoever has written it, and   *)
(* whatever other confirmations have found meanwhile                         *)
Reject(c) ==
  LET f == confirming[c].file IN
  /\ confirming[c] # Absent /\ confirming[c].at = "reject"
  /\ Continues(c, "remove")
  /\ \/ stored' = Without({attachment[f].key}) /\ dropped' = (IF FoundGood(f) THEN dropped \cup {f} ELSE dropped)
     \/ UNCHANGED <<stored, dropped>>
  /\ UNCHANGED <<attachment, link, parts, old, cleanup, taken, overwritten>>

(* updateOne writes the columns it changes, whatever became of the others    *)
Ready(c) ==
  LET f == confirming[c].file IN
  /\ confirming[c] # Absent /\ confirming[c].at = "ready"
  /\ attachment' = [attachment EXCEPT ![f].status = "ready"]
  /\ confirming' = [confirming EXCEPT ![c] = Absent]
  /\ UNCHANGED <<stored, link, parts, old, cleanup, histories>>

Remove(c) ==
  /\ confirming[c] # Absent /\ confirming[c].at = "remove"
  /\ attachment' = [attachment EXCEPT ![confirming[c].file].deleted = TRUE]
  /\ confirming' = [confirming EXCEPT ![c] = Absent]
  /\ UNCHANGED <<stored, link, parts, old, cleanup, histories>>

(* The database fails, or the process dies: the row stays as it is           *)
BreaksOff(c) ==
  /\ confirming[c] # Absent
  /\ confirming' = [confirming EXCEPT ![c] = Absent]
  /\ UNCHANGED <<attachment, stored, link, parts, old, cleanup, histories>>

-----------------------------------------------------------------------------
(* The cleanup of abandoned uploads                                         *)

StaleOrConfirmed == { f \in old : Live(f) }
Stale == { f \in old : Live(f) /\ attachment[f].status = "pending" }

CleanupScan ==
  /\ cleanup = NoCleanup /\ Stale # {}
  /\ cleanup' = [NoCleanup EXCEPT !.todo = Stale]
  /\ taken' = taken \cup { f \in Stale : attachment[f].status = "pending" }
  /\ UNCHANGED <<attachment, stored, link, parts, old, confirming, dropped, overwritten>>

(* deleteAttachmentObjects, one row after the other; an error leaves the row *)
(* to the next run, with some of its objects or without                      *)
CleanupObject(f) ==
  /\ f \in cleanup.todo
  /\ \/ /\ stored' = Without({attachment[f].key})
        /\ cleanup' = [todo |-> cleanup.todo \ {f}, done |-> cleanup.done \cup {f}]
     \/ /\ stored' \in {stored, Without({attachment[f].key})}
        /\ cleanup' = [cleanup EXCEPT !.todo = @ \ {f}]
  /\ UNCHANGED <<attachment, link, parts, old, confirming, histories>>

(* ... and the rows are flushed together                                     *)
CleanupFlush ==
  /\ cleanup.todo = {} /\ cleanup # NoCleanup
  /\ attachment' = [f \in File |-> IF f \in cleanup.done THEN [attachment[f] EXCEPT !.deleted = TRUE] ELSE attachment[f]]
  /\ cleanup' = NoCleanup
  /\ UNCHANGED <<stored, link, parts, old, confirming, histories>>

CleanupDies ==
  /\ cleanup # NoCleanup
  /\ cleanup' = NoCleanup
  /\ UNCHANGED <<attachment, stored, link, parts, old, confirming, histories>>

-----------------------------------------------------------------------------
AttachmentsNext ==
  \/ \E f \in File : Presign(f) \/ Upload(f) \/ LinkExpires(f) \/ GrowOld(f) \/ CleanupObject(f)
  \/ \E c \in Confirmer, f \in File : ConfirmRead(c, f)
  \/ \E c \in Confirmer : Assemble(c) \/ Verify(c) \/ Reject(c) \/ Ready(c) \/ Remove(c) \/ BreaksOff(c)
  \/ CleanupScan \/ CleanupFlush \/ CleanupDies

AttachmentsSpec == AttachmentsInit /\ [][AttachmentsNext]_attachmentVars

-----------------------------------------------------------------------------
(* A confirmed file can be opened: its object is there, it is the one that   *)
(* was uploaded for it, and it has the size and the kind its row declares.   *)
(* What the code does not guard against is excepted: the cleanup took the    *)
(* row before it was confirmed; a name was given out twice, as nothing had   *)
(* been uploaded under it or what had been was gone; a second confirmation   *)
(* deleted what a first had found good; and, for the contents alone, the     *)
(* link was used again after the check.                                      *)
Shared(f) == \E g \in Rows \ {f} : attachment[g].key = attachment[f].key

ConfirmedFilesAreThere ==
  \A f \in Rows : Live(f) /\ attachment[f].status = "ready" /\ f \notin taken \cup dropped /\ ~Shared(f) =>
    /\ attachment[f].key \in DOMAIN stored
    /\ stored[attachment[f].key].of = f
    /\ f \notin overwritten => stored[attachment[f].key].good
=============================================================================
