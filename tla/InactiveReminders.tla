--------------------------- MODULE InactiveReminders ---------------------------
(***************************************************************************)
(* Reminding those who have not been here for days (jobs/core-jobs/modules/   *)
(* inactive-reminder): a job every morning, in every process that runs jobs,  *)
(* without a lock.  It fills in since when people are away, replaces their    *)
(* unread reminder and queues a mail for each, while the guard notes who is   *)
(* here and people read their notifications.                                  *)
(***************************************************************************)
EXTENDS Naturals, Sequences

CONSTANTS
  Member,          \* users with an account
  Runner,         \* processes that run the job
  Allowed,         \* people who may be mailed
  Threshold,       \* INACTIVE_DAYS_THRESHOLD
  Never,
  LastDay,         \* bound: days
  MaxRows,         \* bound: mails queued
  MaxMishaps       \* bound: crashes, and mails whose handling is repeated

Day == 0..LastDay

ASSUME RemindersAssumption ==
  /\ Threshold \in Nat \ {0}
  /\ LastDay \in Nat /\ MaxRows \in Nat /\ MaxMishaps \in Nat
  /\ Never \notin Day

VARIABLES
  now,
  lastActiveAt,    \* the column of the users, Never before anybody wrote it
  supabase,        \* what the sessions of Supabase tell
  seen,            \* history: when they were really here last
  unnoted,         \* history: people whose last visit the guard did not note
  run,             \* what each process has read and has left to do
  tidy,            \* history: today's last run met no other one and came to its end
  unread,          \* days the unread reminders of each user tell, in order
  mails,           \* activity_log_queue rows
  waiting,         \* messages of each row at the broker
  mailer,          \* what the consumer is doing
  mishaps          \* crashes and failed writes so far

reminderVars == <<now, lastActiveAt, supabase, seen, unnoted, run, tidy, unread, mails, waiting, mailer, mishaps>>
mailVars == <<mails, waiting, mailer>>

Unoccupied == [pc |-> "idle"]
Reading == [pc : {"fill"}, list : [Member -> Day \cup {Never}], found : [Member -> Day \cup {Never}],
            todo : SUBSET Member, alone : BOOLEAN]
Reminding == [pc : {"replace", "create", "row", "publish"}, due : UNION { [U -> Day] : U \in SUBSET Member },
              todo : SUBSET Member, row : 0..MaxRows, alone : BOOLEAN]
Mail == [user : Member, status : {"draft", "in_progress", "completed", "failed", "skipped"},
        attempts : Nat, sends : Nat, mailed : Nat]
Mailing == [pc : {"count", "send"}, row : 1..MaxRows, attempts : Nat]

RemindersTypeOK ==
  /\ now \in Day /\ tidy \in BOOLEAN /\ mishaps \in 0..MaxMishaps /\ unnoted \subseteq Member
  /\ {lastActiveAt, supabase} \subseteq [Member -> Day \cup {Never}] /\ seen \in [Member -> Day \cup {Never}]
  /\ run \in [Runner -> Reading \cup Reminding \cup {Unoccupied}]
  /\ unread \in [Member -> Seq(Day)]
  /\ mails \in Seq(Mail) /\ waiting \in [DOMAIN mails -> Nat]
  /\ mailer \in Mailing \cup {Unoccupied}

(* Accounts are of day 0; away counts from there for those never seen         *)
Since(day) == IF day = Never THEN 0 ELSE day
DaysAway(day) == now - Since(day)

Mishap == mishaps < MaxMishaps /\ mishaps' = mishaps + 1

-----------------------------------------------------------------------------
(* The guard and the notifications of a user                                *)

(* The key that lets refreshLastActive write but once an hour may still be     *)
(* there: of a visit noted the day before, or of one whose write then failed   *)
SyncedLately(u) ==
  \/ lastActiveAt[u] # Never /\ lastActiveAt[u] + 1 = now
  \/ u \in unnoted /\ mishaps > 0 /\ seen[u] + 1 >= now

(* refreshLastActive writes the column in the background; the write may fail    *)
Noted(u) ==
  /\ seen' = [seen EXCEPT ![u] = now]
  /\ \/ /\ lastActiveAt' = [lastActiveAt EXCEPT ![u] = now]
        /\ unnoted' = unnoted \ {u}
        /\ UNCHANGED mishaps
     \/ /\ lastActiveAt[u] # now
        /\ (SyncedLately(u) /\ UNCHANGED mishaps) \/ Mishap
        /\ unnoted' = unnoted \cup {u}
        /\ UNCHANGED lastActiveAt

(* A user is here, perhaps with a new login                                   *)
Visit(u) ==
  /\ seen[u] # now \/ lastActiveAt[u] # now
  /\ Noted(u)
  /\ supabase' \in {supabase, [supabase EXCEPT ![u] = now]}
  /\ UNCHANGED <<now, run, tidy, unread, mailVars>>

(* markAsRead and markAllAsRead are visits                                    *)
MarkAsRead(u, i) ==
  /\ i \in DOMAIN unread[u]
  /\ unread' = [unread EXCEPT ![u] = [j \in 1..(Len(@) - 1) |-> @[IF j < i THEN j ELSE j + 1]]]
  /\ Noted(u)
  /\ UNCHANGED <<now, supabase, run, tidy, mailVars>>

MarkAllAsRead(u) ==
  /\ unread[u] # <<>>
  /\ unread' = [unread EXCEPT ![u] = <<>>]
  /\ Noted(u)
  /\ UNCHANGED <<now, supabase, run, tidy, mailVars>>

NextDay ==
  /\ now < LastDay /\ \A p \in Runner : run[p] = Unoccupied
  /\ now' = now + 1 /\ tidy' = FALSE
  /\ UNCHANGED <<lastActiveAt, supabase, seen, unnoted, run, unread, mailVars, mishaps>>

-----------------------------------------------------------------------------
(* The job                                                                  *)

OtherRuns(p) == { q \in Runner \ {p} : run[q] # Unoccupied }
Goes(p, r) == run' = [run EXCEPT ![p] = r]
Done(p) == Goes(p, Unoccupied) /\ tidy' = run[p].alone

(* sendInactiveReminders: the users are read, then what Supabase knows of      *)
(* those without a mark (nothing, when it cannot be asked)                     *)
Start(p) ==
  /\ run[p] = Unoccupied
  /\ \E answers \in BOOLEAN :
       LET found == [u \in Member |-> IF lastActiveAt[u] = Never /\ answers THEN supabase[u] ELSE Never] IN
       run' = [q \in Runner |->
         IF q = p THEN [pc |-> "fill", list |-> lastActiveAt, found |-> found, todo |-> { u \in Member : found[u] # Never },
                        alone |-> OtherRuns(p) = {}]
         ELSE IF q \in OtherRuns(p) THEN [run[q] EXCEPT !.alone = FALSE] ELSE Unoccupied]
  /\ tidy' = FALSE
  /\ UNCHANGED <<now, lastActiveAt, supabase, seen, unnoted, unread, mailVars, mishaps>>

FillAnyway(p, u) == [lastActiveAt EXCEPT ![u] = run[p].found[u]]

(* backfillLastActive: never over what the guard has written meanwhile        *)
FillMissing(p, u) == [lastActiveAt EXCEPT ![u] = IF @ = Never THEN run[p].found[u] ELSE @]

Backfill(p, u) ==
  /\ run[p].pc = "fill" /\ u \in run[p].todo
  /\ lastActiveAt' = FillMissing(p, u)
  /\ Goes(p, [run[p] EXCEPT !.list[u] = run[p].found[u], !.todo = @ \ {u}])
  /\ UNCHANGED <<now, supabase, seen, unnoted, tidy, unread, mailVars, mishaps>>

(* Who is away is told by what was read; with nobody away the job is over ...  *)
Away(p) == { u \in Member : DaysAway(run[p].list[u]) >= Threshold }

FindAway(p) ==
  /\ run[p].pc = "fill" /\ run[p].todo = {}
  /\ IF Away(p) = {} THEN Done(p)
     ELSE /\ Goes(p, [pc |-> "replace", due |-> [u \in Away(p) |-> DaysAway(run[p].list[u])],
                      todo |-> {}, row |-> 0, alone |-> run[p].alone])
          /\ UNCHANGED tidy
  /\ UNCHANGED <<now, lastActiveAt, supabase, seen, unnoted, unread, mailVars, mishaps>>

(* ... createInAppNotifications: the unread reminders of the others go ...     *)
RemoveUnread(p) ==
  /\ run[p].pc = "replace"
  /\ unread' = [u \in Member |-> IF u \in DOMAIN run[p].due THEN <<>> ELSE unread[u]]
  /\ Goes(p, [run[p] EXCEPT !.pc = "create"])
  /\ UNCHANGED <<now, lastActiveAt, supabase, seen, unnoted, tidy, mailVars, mishaps>>

(* ... and new ones come                                                      *)
CreateReminders(p) ==
  /\ run[p].pc = "create"
  /\ unread' = [u \in Member |-> IF u \in DOMAIN run[p].due THEN Append(unread[u], run[p].due[u]) ELSE unread[u]]
  /\ Goes(p, [run[p] EXCEPT !.pc = "row", !.todo = DOMAIN run[p].due])
  /\ UNCHANGED <<now, lastActiveAt, supabase, seen, unnoted, tidy, mailVars, mishaps>>

(* A row for each mail ...                                                    *)
QueueRow(p, u) ==
  /\ run[p].pc = "row" /\ u \in run[p].todo /\ Len(mails) < MaxRows
  /\ mails' = Append(mails, [user |-> u, status |-> "draft", attempts |-> 0, sends |-> 0, mailed |-> 0])
  /\ waiting' = [n \in DOMAIN mails' |-> IF n \in DOMAIN mails THEN waiting[n] ELSE 0]
  /\ Goes(p, [run[p] EXCEPT !.pc = "publish", !.todo = @ \ {u}, !.row = Len(mails')])
  /\ UNCHANGED <<now, lastActiveAt, supabase, seen, unnoted, tidy, unread, mailer, mishaps>>

(* ... and its message, which is dropped while the broker is not connected     *)
Publish(p) ==
  /\ run[p].pc = "publish"
  /\ waiting' \in {waiting, [waiting EXCEPT ![run[p].row] = @ + 1]}
  /\ Goes(p, [run[p] EXCEPT !.pc = "row"])
  /\ UNCHANGED <<now, lastActiveAt, supabase, seen, unnoted, tidy, unread, mails, mailer, mishaps>>

(* All are queued, or the broker was not connected when it was looked at       *)
Finish(p) ==
  /\ run[p].pc = "row" /\ run[p].todo \in {{}, DOMAIN run[p].due}
  /\ Done(p)
  /\ UNCHANGED <<now, lastActiveAt, supabase, seen, unnoted, unread, mailVars, mishaps>>

JobDies(p) ==
  /\ run[p] # Unoccupied /\ Mishap
  /\ Goes(p, Unoccupied)
  /\ UNCHANGED <<now, lastActiveAt, supabase, seen, unnoted, tidy, unread, mailVars>>

-----------------------------------------------------------------------------
(* The consumer                                                             *)

Unchanged == UNCHANGED <<now, lastActiveAt, supabase, seen, unnoted, run, tidy, unread>>
Acked(n) == waiting' = [waiting EXCEPT ![n] = @ - 1]

(* A mail nobody may get is skipped, its attempts kept                         *)
Skip(n) ==
  /\ mailer = Unoccupied /\ n \in DOMAIN mails /\ waiting[n] > 0
  /\ mails[n].user \notin Allowed
  /\ mails' = [mails EXCEPT ![n].status = "skipped"]
  /\ Acked(n)
  /\ Unchanged /\ UNCHANGED <<mailer, mishaps>>

(* The attempts so far are read ...                                           *)
Receive(n) ==
  /\ mailer = Unoccupied /\ n \in DOMAIN mails /\ waiting[n] > 0
  /\ mails[n].user \in Allowed
  /\ mailer' = [pc |-> "count", row |-> n, attempts |-> mails[n].attempts + 1]
  /\ Unchanged /\ UNCHANGED <<mails, waiting, mishaps>>

(* ... written before the mail is sent ...                                    *)
CountAttempt ==
  /\ mailer # Unoccupied /\ mailer.pc = "count"
  /\ mails' = [mails EXCEPT ![mailer.row].status = "in_progress", ![mailer.row].attempts = mailer.attempts]
  /\ mailer' = [mailer EXCEPT !.pc = "send"]
  /\ Unchanged /\ UNCHANGED <<waiting, mishaps>>

(* ... and with how it ended                                                  *)
SendMail(ok) ==
  /\ mailer # Unoccupied /\ mailer.pc = "send"
  /\ mails' = [mails EXCEPT ![mailer.row].status = IF ok THEN "completed" ELSE "failed",
                          ![mailer.row].attempts = mailer.attempts,
                          ![mailer.row].sends = @ + 1,
                          ![mailer.row].mailed = @ + IF ok THEN 1 ELSE 0]
  /\ Acked(mailer.row)
  /\ mailer' = Unoccupied
  /\ Unchanged /\ UNCHANGED mishaps

(* The consumer dies, before the mail is sent or after: the message comes again *)
ConsumerDies ==
  /\ mailer # Unoccupied /\ Mishap
  /\ \/ UNCHANGED mails
     \/ /\ mailer.pc = "send"
        /\ mails' = [mails EXCEPT ![mailer.row].sends = @ + 1, ![mailer.row].mailed = @ + 1]
  /\ mailer' = Unoccupied
  /\ Unchanged /\ UNCHANGED waiting

-----------------------------------------------------------------------------
RemindersInit ==
  /\ now = 0 /\ tidy = FALSE /\ mishaps = 0 /\ unnoted = {}
  /\ lastActiveAt \in [Member -> {Never, 0}] /\ supabase \in [Member -> {Never, 0}]
  /\ seen = [u \in Member |-> IF lastActiveAt[u] = 0 \/ supabase[u] = 0 THEN 0 ELSE Never]
  /\ run = [p \in Runner |-> Unoccupied] /\ mailer = Unoccupied
  /\ unread = [u \in Member |-> <<>>] /\ mails = <<>> /\ waiting = <<>>

RemindersNext ==
  \/ NextDay
  \/ \E u \in Member : Visit(u) \/ MarkAllAsRead(u) \/ \E i \in DOMAIN unread[u] : MarkAsRead(u, i)
  \/ \E p \in Runner :
       Start(p) \/ FindAway(p) \/ RemoveUnread(p) \/ CreateReminders(p) \/ Publish(p) \/ Finish(p) \/ JobDies(p)
         \/ \E u \in Member : Backfill(p, u) \/ QueueRow(p, u)
  \/ \E n \in DOMAIN mails : Skip(n) \/ Receive(n)
  \/ CountAttempt \/ (\E ok \in BOOLEAN : SendMail(ok)) \/ ConsumerDies

RemindersSpec == RemindersInit /\ [][RemindersNext]_reminderVars

-----------------------------------------------------------------------------
(* What the column tells is never later than the truth, is the truth unless the *)
(* guard did not write it or only Supabase knows, and is at most a day behind    *)
(* as long as nothing fails.  When a run has met no other, everybody away whose  *)
(* last visit was noted has one unread reminder, of the days away; overlapping   *)
(* runs may leave two until the next.  A mail is counted before it is sent, goes  *)
(* to nobody who may not get it, and a completed one was sent.                  *)
RemindersAreRight ==
  /\ \A u \in Member :
       /\ lastActiveAt[u] # Never => seen[u] # Never /\ lastActiveAt[u] <= seen[u]
       /\ (lastActiveAt[u] # Never /\ u \notin unnoted /\ seen[u] > 0) => lastActiveAt[u] = seen[u]
       /\ (seen[u] # Never /\ seen[u] > 0 /\ mishaps = 0) => lastActiveAt[u] # Never /\ lastActiveAt[u] + 1 >= seen[u]
       /\ (tidy /\ u \notin unnoted /\ DaysAway(lastActiveAt[u]) >= Threshold) => unread[u] = <<DaysAway(lastActiveAt[u])>>
  /\ \A n \in DOMAIN mails :
       /\ mails[n].sends <= mails[n].attempts /\ mails[n].mailed <= 1 + mishaps
       /\ mails[n].status = "completed" => mails[n].mailed > 0
       /\ mails[n].mailed > 0 => mails[n].user \in Allowed
=============================================================================
