---------------------------- MODULE ApprovalMail ----------------------------
(***************************************************************************)
(* From a committed decision to an email: the transactional outbox          *)
(* (libs/core/modules/outbox), the RabbitMQ queue approval.email, its       *)
(* consumer (jobs/app-jobs) and the queue rows an administrator can resend  *)
(* from (libs/core-service/services/activity-log-queue).                    *)
(*                                                                         *)
(* A relay publishes a batch inside one database transaction; a message     *)
(* handler does one small transaction after the other.  Both may crash      *)
(* between any two steps.  A handler whose channel is lost runs on while    *)
(* the broker gives its message to another one.                             *)
(***************************************************************************)
EXTENDS Naturals

CONSTANTS
  Event,          \* the events business transactions write to the outbox
  User,           \* people who get mail
  Recipients,     \* whom an event is mailed to (nobody: it has no template)
  Reachable,      \* people who exist and have an address, mail being configured
  Relay,          \* processes that relay the outbox: web instances and cron jobs
  Consumer,       \* handlers of the queue, one message each (prefetch 1)
  None,
  MaxAttempts,    \* MAX_ATTEMPTS of the outbox
  MaxSends,       \* MAX_ATTEMPTS of the consumer: sends per turn
  MaxFaults,      \* bound: crashes, lost channels and database errors
  MaxResends,     \* bound: how often rows are resent
  MaxCopies       \* bound: rows of one event for one user

ASSUME MailAssumption ==
  /\ Recipients \in [Event -> SUBSET User]
  /\ Reachable \subseteq User
  /\ MaxAttempts \in Nat \ {0} /\ MaxSends \in Nat \ {0}
  /\ MaxFaults \in Nat /\ MaxResends \in Nat /\ MaxCopies \in Nat \ {0}

VARIABLES
  outbox,    \* the outbox rows
  relay,     \* what each relay has locked, tried and seen confirmed
  queue,     \* messages of each event waiting at the broker
  dead,      \* events with a message in the dead letter queue
  rows,      \* activity_log_queue: one row per mail
  handler,   \* what each consumer is doing
  asking,    \* rows a resend was published for but whose status is not reset yet
  faults,    \* faults so far
  resends,   \* resends so far
  copies     \* history: messages of each event the broker ever received

vars == <<outbox, relay, queue, dead, rows, handler, asking, faults, resends, copies>>

(* Nothing in the database keeps an event from having two rows for a user *)
RowId == [event : Event, user : User, copy : 1..MaxCopies]
Row == [status : {"draft", "in_progress", "completed", "failed", "skipped"},
        attempts : Nat,
        again : Nat,     \* resend messages for the row waiting at the broker
        asked : BOOLEAN, \* history: an administrator asked for a resend
        sends : Nat,     \* history: mails handed to the mail service ...
        mailed : Nat]    \* ... and accepted by it

Relaying == [batch : SUBSET Event, tried : SUBSET Event, ok : SUBSET Event]
AtRest == [batch |-> {}, tried |-> {}, ok |-> {}]

(* A message that names no row is not a resend *)
ASSUME NoneIsNoRow == None \notin RowId

(* event: the message at hand; resend: the row it names, when it is a resend;  *)
(* linked: the channel it came by is still open                              *)
Handling ==
  [pc : {"lookup", "rows", "count", "send", "sent", "failed"},
   event : Event, resend : RowId \cup {None}, linked : BOOLEAN,
   todo : SUBSET User, mine : SUBSET RowId, row : RowId \cup {None},
   counted : Nat, sends : Nat]
Idle == [pc |-> "idle"]

TypeOK ==
  /\ outbox \in [Event -> [status : {"none", "pending", "published", "failed", "removed"},
                           attempts : 0..MaxAttempts]]
  /\ relay \in [Relay -> Relaying]
  /\ queue \in [Event -> Nat] /\ copies \in [Event -> Nat]
  /\ dead \subseteq Event
  /\ DOMAIN rows \subseteq RowId /\ rows \in [DOMAIN rows -> Row]
  /\ handler \in [Consumer -> Handling \cup {Idle}]
  /\ \A c \in Consumer :
       handler[c] # Idle =>
         handler[c].mine \cup {handler[c].row, handler[c].resend} \subseteq DOMAIN rows \cup {None}
  /\ asking \subseteq DOMAIN rows
  /\ faults \in 0..MaxFaults /\ resends \in 0..MaxResends

-----------------------------------------------------------------------------
(* The outbox                                                               *)

(* A business transaction commits, its event with it (add) *)
Commit(e) ==
  /\ outbox[e].status = "none"
  /\ outbox' = [outbox EXCEPT ![e].status = "pending"]
  /\ UNCHANGED <<relay, queue, dead, rows, handler, asking, faults, resends, copies>>

Pending(e) == outbox[e].status = "pending"
Locked(e) == \E r \in Relay : e \in relay[r].batch

(* relay: right after a commit its own events, from the cron job those whose *)
(* last try is a minute old; rows another relay has locked are passed over   *)
RelayTake(r) ==
  /\ relay[r] = AtRest
  /\ \E B \in SUBSET { e \in Event : Pending(e) /\ ~Locked(e) } \ {{}} :
       relay' = [relay EXCEPT ![r].batch = B]
  /\ UNCHANGED <<outbox, queue, dead, rows, handler, asking, faults, resends, copies>>

Tries(r, e) == e \in relay[r].batch \ relay[r].tried
Arrives(e) ==
  /\ queue' = [queue EXCEPT ![e] = @ + 1]
  /\ copies' = [copies EXCEPT ![e] = @ + 1]

(* publishConfirmed: the broker has the message and says so ...             *)
RelayConfirmed(r, e) ==
  /\ Tries(r, e) /\ Arrives(e)
  /\ relay' = [relay EXCEPT ![r].tried = @ \cup {e}, ![r].ok = @ \cup {e}]
  /\ UNCHANGED <<outbox, dead, rows, handler, asking, faults, resends>>

(* ... or it has it and the confirmation does not come in ten seconds, or it *)
(* never got it                                                              *)
RelayUnconfirmed(r, e) ==
  /\ Tries(r, e)
  /\ Arrives(e) \/ UNCHANGED <<queue, resends, copies>>
  /\ relay' = [relay EXCEPT ![r].tried = @ \cup {e}]
  /\ UNCHANGED <<outbox, dead, rows, handler, asking, faults, resends>>

AfterTryUncounted(event, confirmed) ==
  [status |-> IF confirmed THEN "published" ELSE "pending",
   attempts |-> IF confirmed THEN event.attempts + 1 ELSE event.attempts]

(* One more attempt; after the last one the cron job does not try again *)
AfterTry(event, confirmed) ==
  [status |-> IF confirmed THEN "published"
              ELSE IF event.attempts + 1 >= MaxAttempts THEN "failed" ELSE "pending",
   attempts |-> event.attempts + 1]

RelayCommit(r) ==
  /\ relay[r].batch # {} /\ relay[r].tried = relay[r].batch
  /\ outbox' = [e \in Event |->
       IF e \in relay[r].batch THEN AfterTry(outbox[e], e \in relay[r].ok) ELSE outbox[e]]
  /\ relay' = [relay EXCEPT ![r] = AtRest]
  /\ UNCHANGED <<queue, dead, rows, handler, asking, faults, resends, copies>>

Fault == faults < MaxFaults /\ faults' = faults + 1

(* The transaction is rolled back, what was published stays published *)
RelayCrash(r) ==
  /\ Fault /\ relay[r].batch # {}
  /\ relay' = [relay EXCEPT ![r] = AtRest]
  /\ UNCHANGED <<outbox, queue, dead, rows, handler, asking, resends, copies>>

(* cleanup, days after an event was published *)
Cleanup(e) ==
  /\ outbox[e].status = "published"
  /\ outbox' = [outbox EXCEPT ![e].status = "removed"]
  /\ UNCHANGED <<relay, queue, dead, rows, handler, asking, faults, resends, copies>>

-----------------------------------------------------------------------------
(* The consumer (handle)                                                    *)

Busy(c, pc) == handler[c] # Idle /\ handler[c].pc = pc
RowsOf(e) == { id \in DOMAIN rows : id.event = e }
Recorded(e) == { id.user : id \in RowsOf(e) }

NewHandling(pc, e, id, mine) ==
  [pc |-> pc, event |-> e, resend |-> id, linked |-> TRUE, todo |-> {}, mine |-> mine,
   row |-> None, counted |-> 0, sends |-> 0]

ReceiveEvent(c, e) ==
  /\ handler[c] = Idle /\ queue[e] > 0
  /\ queue' = [queue EXCEPT ![e] = @ - 1]
  /\ handler' = [handler EXCEPT ![c] = NewHandling("lookup", e, None, {})]
  /\ UNCHANGED <<outbox, relay, dead, rows, asking, faults, resends, copies>>

ReceiveResend(c, id) ==
  /\ handler[c] = Idle /\ rows[id].again > 0
  /\ rows' = [rows EXCEPT ![id].again = @ - 1]
  /\ handler' = [handler EXCEPT ![c] = NewHandling("rows", id.event, id, {id})]
  /\ UNCHANGED <<outbox, relay, queue, dead, asking, faults, resends, copies>>

UnrecordedAllOrNone(e) == IF Recorded(e) # {} THEN {} ELSE Recipients[e]

(* Recipients who have a row for the event already are left out *)
Unrecorded(e) == Recipients[e] \ Recorded(e)

LookUpResumes(c) ==
  /\ Busy(c, "lookup")
  /\ handler' = [handler EXCEPT ![c].todo = Unrecorded(handler[c].event), ![c].pc = "rows",
                    ![c].mine = { id \in RowsOf(handler[c].event) : rows[id].status = "draft" }]
  /\ UNCHANGED <<outbox, relay, queue, dead, rows, asking, faults, resends, copies>>

LookUp(c) ==
  /\ Busy(c, "lookup")
  /\ handler' = [handler EXCEPT ![c].todo = Unrecorded(handler[c].event), ![c].pc = "rows"]
  /\ UNCHANGED <<outbox, relay, queue, dead, rows, asking, faults, resends, copies>>

NewRow == [status |-> "draft", attempts |-> 0, again |-> 0, asked |-> FALSE, sends |-> 0, mailed |-> 0]

(* A further row gets the next copy number; each is a transaction of its own *)
CreateRow(c) ==
  /\ Busy(c, "rows")
  /\ \E u \in handler[c].todo, n \in 1..MaxCopies :
       LET id(k) == [event |-> handler[c].event, user |-> u, copy |-> k]
       IN /\ id(n) \notin DOMAIN rows /\ \A k \in 1..(n - 1) : id(k) \in DOMAIN rows
          /\ rows' = [x \in DOMAIN rows \cup {id(n)} |-> IF x = id(n) THEN NewRow ELSE rows[x]]
          /\ handler' = [handler EXCEPT ![c].todo = @ \ {u}, ![c].mine = @ \cup {id(n)}]
  /\ UNCHANGED <<outbox, relay, queue, dead, asking, faults, resends, copies>>

Delivers(c, id) == Busy(c, "rows") /\ handler[c].todo = {} /\ id \in handler[c].mine

(* deliver: nobody to send to, or nothing to send with ... *)
SkipRow(c, id) ==
  /\ Delivers(c, id) /\ id.user \notin Reachable
  /\ rows' = [rows EXCEPT ![id].status = "skipped"]
  /\ handler' = [handler EXCEPT ![c].mine = @ \ {id}]
  /\ UNCHANGED <<outbox, relay, queue, dead, asking, faults, resends, copies>>

(* ... or the attempts so far are read and the row is marked in progress *)
BeginRow(c, id) ==
  /\ Delivers(c, id) /\ id.user \in Reachable
  /\ rows' = [rows EXCEPT ![id].status = "in_progress"]
  /\ handler' = [handler EXCEPT ![c].pc = "count", ![c].row = id, ![c].mine = @ \ {id},
                                ![c].counted = rows[id].attempts, ![c].sends = 0]
  /\ UNCHANGED <<outbox, relay, queue, dead, asking, faults, resends, copies>>

(* The attempt is written before the mail is sent *)
Count(c) ==
  /\ Busy(c, "count")
  /\ rows' = [rows EXCEPT ![handler[c].row].attempts = handler[c].counted + 1]
  /\ handler' = [handler EXCEPT ![c].pc = "send", ![c].counted = @ + 1, ![c].sends = @ + 1]
  /\ UNCHANGED <<outbox, relay, queue, dead, asking, faults, resends, copies>>

(* The mail service takes the mail, or it fails: for good, for the last time, *)
(* or such that it is worth another try                                       *)
Send(c) ==
  /\ Busy(c, "send")
  /\ LET id == handler[c].row
         said(ok) == [rows EXCEPT ![id].sends = @ + 1, ![id].mailed = @ + (IF ok THEN 1 ELSE 0)]
     IN \/ /\ rows' = said(TRUE)
           /\ handler' = [handler EXCEPT ![c].pc = "sent"]
        \/ /\ rows' = said(FALSE)
           /\ handler' = [handler EXCEPT ![c].pc = "failed"]
        \/ /\ handler[c].sends < MaxSends
           /\ rows' = said(FALSE)
           /\ handler' = [handler EXCEPT ![c].pc = "count"]
  /\ UNCHANGED <<outbox, relay, queue, dead, asking, faults, resends, copies>>

(* markCompleted, markFailed: they write this turn's count once more *)
EndRow(c) ==
  /\ \E end \in {<<"sent", "completed">>, <<"failed", "failed">>} :
       /\ Busy(c, end[1])
       /\ rows' = [rows EXCEPT ![handler[c].row].status = end[2],
                              ![handler[c].row].attempts = handler[c].counted]
  /\ handler' = [handler EXCEPT ![c].pc = "rows", ![c].row = None]
  /\ UNCHANGED <<outbox, relay, queue, dead, asking, faults, resends, copies>>

Ack(c) ==
  /\ Busy(c, "rows") /\ handler[c].todo \cup handler[c].mine = {}
  /\ handler' = [handler EXCEPT ![c] = Idle]
  /\ UNCHANGED <<outbox, relay, queue, dead, rows, asking, faults, resends, copies>>

(* The broker takes back a message that was not acknowledged *)
Requeue(c) ==
  IF handler[c].resend = None
  THEN queue' = [queue EXCEPT ![handler[c].event] = @ + 1] /\ UNCHANGED rows
  ELSE rows' = [rows EXCEPT ![handler[c].resend].again = @ + 1] /\ UNCHANGED queue

(* The channel breaks: the message goes back, the handler does not notice *)
Disconnect(c) ==
  /\ Fault /\ handler[c] # Idle /\ handler[c].linked
  /\ Requeue(c)
  /\ handler' = [handler EXCEPT ![c].linked = FALSE]
  /\ UNCHANGED <<outbox, relay, dead, asking, resends, copies>>

Crash(c) ==
  /\ Fault /\ handler[c] # Idle
  /\ IF handler[c].linked THEN Requeue(c) ELSE UNCHANGED <<queue, rows>>
  /\ handler' = [handler EXCEPT ![c] = Idle]
  /\ UNCHANGED <<outbox, relay, dead, asking, resends, copies>>

(* A database call throws: the message is rejected into the dead letter queue *)
HandlerThrows(c) ==
  /\ Fault /\ handler[c] # Idle /\ handler[c].pc # "send"
  /\ dead' = IF handler[c].linked /\ handler[c].resend = None THEN dead \cup {handler[c].event} ELSE dead
  /\ handler' = [handler EXCEPT ![c] = Idle]
  /\ UNCHANGED <<outbox, relay, queue, rows, asking, resends, copies>>

-----------------------------------------------------------------------------
(* Resending a row (retry): the message is published, not confirmed, so the  *)
(* broker may not get it; only then the row's status is reset                *)

RetryPublish(id) ==
  /\ resends < MaxResends /\ resends' = resends + 1
  /\ \E arrives \in {0, 1} :
       rows' = [rows EXCEPT ![id].asked = TRUE, ![id].again = @ + arrives]
  /\ asking' = asking \cup {id}
  /\ UNCHANGED <<outbox, relay, queue, dead, handler, faults, copies>>

RetryReset(id) ==
  /\ id \in asking
  /\ rows' = [rows EXCEPT ![id].status = "draft"]
  /\ asking' = asking \ {id}
  /\ UNCHANGED <<outbox, relay, queue, dead, handler, faults, resends, copies>>

-----------------------------------------------------------------------------

Init ==
  /\ outbox = [e \in Event |-> [status |-> "none", attempts |-> 0]]
  /\ relay = [r \in Relay |-> AtRest]
  /\ queue = [e \in Event |-> 0] /\ copies = [e \in Event |-> 0]
  /\ dead = {} /\ rows = [id \in {} |-> NewRow]
  /\ handler = [c \in Consumer |-> Idle]
  /\ asking = {} /\ faults = 0 /\ resends = 0

RelayNext(r) ==
  \/ RelayTake(r) \/ RelayCommit(r)
  \/ \E e \in Event : RelayConfirmed(r, e) \/ RelayUnconfirmed(r, e)
HandlerNext(c) ==
  \/ \E e \in Event : ReceiveEvent(c, e)
  \/ LookUp(c) \/ CreateRow(c)
  \/ \E id \in DOMAIN rows : ReceiveResend(c, id) \/ SkipRow(c, id) \/ BeginRow(c, id)
  \/ Count(c) \/ Send(c) \/ EndRow(c) \/ Ack(c)
FaultNext ==
  \/ \E r \in Relay : RelayCrash(r)
  \/ \E c \in Consumer : Disconnect(c) \/ Crash(c) \/ HandlerThrows(c)

Next ==
  \/ \E e \in Event : Commit(e) \/ Cleanup(e)
  \/ \E r \in Relay : RelayNext(r)
  \/ \E c \in Consumer : HandlerNext(c)
  \/ \E id \in DOMAIN rows : RetryPublish(id) \/ RetryReset(id)
  \/ FaultNext

Spec == Init /\ [][Next]_vars

(* The relays run every 30 seconds and the consumers whenever there is a      *)
(* message; nobody has to commit, clean up or resend anything.                *)
FairSpec ==
  /\ Spec
  /\ \A r \in Relay : WF_vars(RelayNext(r))
  /\ \A c \in Consumer : WF_vars(HandlerNext(c))

-----------------------------------------------------------------------------
(* What must hold                                                           *)

InFlight(e) ==
  \E c \in Consumer : handler[c] # Idle /\ handler[c].event = e
                      /\ handler[c].resend = None /\ handler[c].linked

(* The event has a message waiting, at hand or dead-lettered, or every *)
(* recipient has a row                                                 *)
Traced(e) == queue[e] > 0 \/ InFlight(e) \/ e \in dead \/ Recipients[e] \subseteq Recorded(e)

(* An event the outbox counts as published, and may forget, is never lost      *)
(* between the broker, handlers that crash or lose their channel halfway       *)
(* through the recipients, and duplicates that skip recipients recorded before. *)
PublishedLeavesATrace ==
  \A e \in Event : outbox[e].status \in {"published", "removed"} => Traced(e)

(* The relays of several processes do not publish an event twice: it goes out *)
(* again only after a try that was not confirmed or was rolled back.          *)
ConfirmedAtOnceGoesOutOnce ==
  \A e \in Event :
    outbox[e].status = "published" /\ outbox[e].attempts = 1 /\ faults = 0 => copies[e] = 1

(* No duplicate, crash or lost channel mails a row twice: without a resend     *)
(* somebody asked for, the mail service accepted it at most once.              *)
UnaskedMailGoesOnce == \A id \in DOMAIN rows : ~rows[id].asked => rows[id].mailed <= 1

(* Both: what was not asked for again goes out once                             *)
NothingGoesOutTwice == ConfirmedAtOnceGoesOutOnce /\ UnaskedMailGoesOnce

(* Even when the job dies halfway, every mail handed to the mail service is     *)
(* counted in the row (before a resend, which may run beside the first turn).   *)
SendsAreCounted == \A id \in DOMAIN rows : ~rows[id].asked => rows[id].sends <= rows[id].attempts

(* Both: the records of outbox and mail log tell what happened                  *)
MailIsAccountedFor == PublishedLeavesATrace /\ SendsAreCounted

(* Whichever relays and consumers crash and however often the broker does not   *)
(* answer, every recipient of a committed event ends up with a row in the mail  *)
(* queue, or the event in the dead letter queue or given up after MaxAttempts:  *)
(* somewhere an administrator sees it.                                         *)
EveryRecipientIsRecorded ==
  \A e \in Event :
    Pending(e) ~> (Recipients[e] \subseteq Recorded(e) \/ e \in dead \/ outbox[e].status = "failed")

Settled(e, u) ==
  \E id \in RowsOf(e) : id.user = u /\ rows[id].status \in {"completed", "failed", "skipped"}

(* "The outbox guarantees at least once": each recipient of a published event  *)
(* is mailed, or the row says why not, unless the event is dead-lettered.      *)
EveryRecipientIsServed ==
  \A e \in Event :
    outbox[e].status = "published" ~> (e \in dead \/ \A u \in Recipients[e] : Settled(e, u))
=============================================================================
