# Verification of backend-mikroorm

TLA+ models of the approval backend under `src/`, the TLC runs that check them
and the TLAPS proofs about them. The backend is a NestJS system (`apps/app`,
`apps/core`) with two worker processes (`jobs/app-jobs`, `jobs/core-jobs`) on
PostgreSQL (MikroORM), RabbitMQ, Redis and an object store.

    tlc -workers 2 -config engine_parallel.cfg MCApprovalEngine
    tlapm ApprovalEngineProofs.tla

Contents: 1 Inventory, 2 Modules, 3 Runs and bounds, 4 Fairness, 5 Proofs,
6 What the models say about the code, 7 Not modelled, and the plan.

## 1. Inventory

| Component | State it keeps | Operations | What is hard about it | What makes it correct | Modules |
|---|---|---|---|---|---|
| Approval engine (`approval-engine`) | status, round, current and visited steps, tasks with slots, pinned version | submit, act, cancel, reassign, repairGroupTasks, handleOverdue | clicks, SLA scan and repairs of one step; reads before the row lock; decisions taken and carried out in two transactions; people, groups and delegations change meanwhile | no task or request is stranded; no step is passed undecided or unsigned; decisions are final; late steps are decided | ApprovalEngine, RequestLifecycle |
| Views of a request (`inbox-filter`, `request-access`, `simulate`, `notify`) | none | inbox, page, preview, notices | each works out who may do what with code of its own | inbox, page, engine and notices agree; a preview comes true | RequestViews, RequestNews, RequestPreview |
| Finding approvers (`approver-resolver`) | what one search has read | resolve, escalate | reads row after row of a directory that changes | the nearest who may be asked, nobody else | Approvers |
| Workflow graphs (`validate-graph`, `graph-walker`) | none | validate, walk | drawn by people, walked with any payload | a published graph is walked to its end | WorkflowGraph |
| Workflow and form versions (`approval-workflow`, `form`) | draft, published, archived versions | saveDraft, publish, restore, updateForm | administrators at the same time, mostly unlocked | one version runs; requests follow published ones | Definitions |
| Request types and categories | a row and its versions | create, update, restore, delete | two flushes per save, a request pins in between | type and latest version agree | RequestTypes |
| Forms and payloads | fields, payload, row ids | save, send, clone | a draft nobody checked meets a changed form | what fits survives, nothing stale stays | FormPayloads |
| Documents (`request-files`, `request-pdf`, `approval-signing`) | files per round, versions, objects | edit, submit, return, clone, sign, convert | optimistic version alone; objects stored before the commit | a sent file set stands, every version opens | Documents |
| Signing certificates | certificates, keys elsewhere | enroll, approve, revoke, close | slow calls between reading and saving | one usable certificate, no key left over | SigningCertificates |
| Comments and shares | comment tree, shares | create, edit, remove, share | replies without the lock | no comment is lost, one share each | RequestTalk |
| Outbox, broker, mail | outbox rows, queues, mail rows | add, relay, consume, deliver, retry | crashes, unconfirmed publishes, redelivery, lost channels | nothing committed disappears or goes out twice | ApprovalMail |
| Exports | `export_jobs` as a queue, tickets | enqueue, claim, process, sweep, download | several workers, lost ones that return; check-then-set in Redis | a job ends once; a file neither vanishes nor stays | ExportJobs, Downloads |
| Uploads and previews | pending and ready files, previews | presign, confirm, cleanup, process | confirmation beside cleanup; two processors | a ready file has its object; no endless wait | Attachments, Previews |
| Sessions (`auth`, `login-device`) | account of a person, devices, login log | hooks, device check | hooks lost, repeated, overlapping | linked to the right account; each login noticed once | SignUps, LoginDevices |
| Directory | people, principals, groups, roles, cached rights | save, lock, remove, guard | unlocked saves; cache cleared afterwards | names and rights agree | Directory |
| Departments | tree with paths | create, move, remove, lock | two encodings of one tree | a forest; scopes agree; a workflow is found | Departments |
| Work calendar | shifts, schedules, assignments, special days | create, update, remove, copy, resolve | boundaries of ranges and days | each day has one answer | WorkCalendar |
| Reports and home page | none | aggregate histories | requests sent again, reassigned, escalated | figures add up and stay | Reports |
| List cache | cached lists | read through, invalidate | a stale list stored late | stale no longer than its TTL | ListCache |
| Inactive reminders | last activity, reminders, mails | daily job, consumer | visits and crashes during the job | one true reminder, no wrong mail | InactiveReminders |
| The rest: PIN guard, templates, activity log, settings, routes, translations, file views, adapters | single rows | CRUD, queries | little | - | - |

How they interact: a business transaction writes its state, its history and its
outbox events together (`run`, `notify`). After the commit the outbox relays the
events to RabbitMQ, and cron jobs relay what was missed. Consumers create mail
rows, convert documents and build previews. The SLA cron calls the engine. The
engine reads workflows, the directory and delegations, and calls back into
signing (`opts.sign`) inside its transaction.

`PROJECT.json` lists every component with its sources and every hazard with the
line where it bites and the properties that would catch it.

## 2. Modules

### The approval engine

`ApprovalEngine` models one request. `run` opens a transaction and `lockRequest`
locks the request row before anything is decided, so an operation is one atomic
action. Three exceptions, where the code reads before it locks or needs
a second transaction, are split at that place:

| Operation | Actions | What may be stale |
|---|---|---|
| `reassign` | `ReassignRead`, `ReassignWrite` | the task's holder and status |
| `handleOverdue` | `OverdueRead`, then `OverdueDecide`, `OverdueEscalate`, `OverdueRemind` or `OverdueMissed` | holder and status |
| an automatic decision | `OverdueDecide`, then `OverdueAct` or `OverdueActFails` | everything: it is a second transaction |

`updateRequest` takes no lock, but every edit writes the request's row, whose
`version` column is an optimistic lock: an edit of a request that was sent
meanwhile fails. So `EditDraft` is one action too.

`advance` is the operator `Advance`: the walk over skipped steps to the first
with somebody to ask (`StopsAt`), waived tasks for slots only the requester
fills, new tasks with one origin per slot, a member drawn at random for "assign"
groups, or the end. A blocked step makes the code throw and roll back, so the
action is not enabled. `act` is `Approve`, `Reject`, `Return`; all-slots parallel
steps count a click for one slot (`Mine`) plus the slots nobody else can decide
(`AlongWith`). `canActOnTask`, window and handover delegations, groups and the
requester rule are `CanAct`, `Delegates`, `HandoversOf`.

Abstractions: conditions of the graph are the function `Walk` (which waiting step
comes next under a payload), which `AcyclicAssumption` restricts as
`validateGraph` does; the end nodes are one; dates are `late` (not due, due, due
by a further whole SLA period); the approver expressions are resolved sets of
people (`ApproverConfig`); escalation follows two functions, for a first and a
second escalation; history, codes and texts are left out. A request
has at most one current step, as in `advance`.

`RequestLifecycle` is the abstract specification: what the engine promises the
requester about rounds, the pinned version, no step met twice in a round, no
cancellation over an approval, final states. `RequestLivesAsPromised` states
that `ApprovalEngine` implements it, with `settled <- visited \ {current}` and
`endorsed` computed from the round's tasks.

`RequestViews`, `RequestNews` and `RequestPreview` extend the engine by operators
only: the inbox's queries and the rights the page shows; whom a step's arrival,
a return or an end notifies; and `simulate`, which walks the workflow with
resolvers of its own. They are compared with what the engine does.

`Approvers` is one search of `approver-resolver.ts`, query by query, while
departments move and people are locked: `Enter` reads a department's row, `Test`
one candidate, `GoUp` follows the parent that was read, for `MaxLevels`
departments. `WorkflowGraph` is `validateGraph` and the walk itself, iteration by
iteration with its give-up counter; it justifies what `ApprovalEngine` assumes of
`Walk`.

### What a request is made of

`Documents`: the file set of each round, edits guarded by the version column, the
copies of a return and of a clone, signing and background conversion, which store
objects before they commit, and what page, viewer and archive read. The
conversion is split wherever it waits for Redis, the converter or the database.
`FormPayloads`: field rules, saving, checking, normalising and migrating a
payload; a value is its JSON shape and content, bounds of a field are the contents
they let through, numbers are hundredths. Bounds of "today" are read when a payload
is checked, and days pass (`NextDay`); ids of rows keep the spaces the check trims;
a reference may lack its id or name, which a migration does not look at. `RequestTypes`: each flush of a save is
a step, and `createRequest` reads and pins at two. `Definitions`: publishing
locks the workflow row (`PublishRead`, `PublishCommit`); `saveDraft` and
`updateForm` are split at every statement; `GiveUp` is a unique key's refusal or
a crash. `RequestTalk`: shares under the lock, comments without it.
`SigningCertificates`: read, call the signing service, save, each on its own; what
`enroll` reads is any one of the open rows.

### Delivery and background work

`ApprovalMail`: the outbox row of each event, relays that lock a batch
(`SKIP LOCKED`), publish with a confirmation that may be late or lost, and
commit; the broker with redelivery and a dead letter queue; handlers that look up
recorded recipients, create a row per new one and send with bounded attempts,
each write a step; resends, which publish first and reset the row afterwards.
`Crash`, `Disconnect` (the handler runs on while its message is redelivered),
`HandlerThrows` and `RelayCrash` may happen between any two steps.

`ExportJobs`: every statement of the runner is a transaction and an action;
`claimNext` sees the queue in its own snapshot, so it is `ClaimRead` and
`ClaimWrite`. A worker may die at any statement, the store may refuse a removal,
an update's answer may be lost, heartbeats may not get through. `Downloads` is
the instant download: ticket and lock are each read and written by two calls to
Redis, and a call that fails passes for one that found nothing or did it. In
`Attachments` whatever the bucket or the database is asked may fail, done or not,
and the links write for as long as they work. `Attachments`, `Previews`, `ListCache` and `InactiveReminders` split
their operations where they wait for the bucket, the database, Redis or RabbitMQ.

### People and places

`Directory`: users with their principals, groups, one role, and what the guard
caches; a save writes the columns that differ from what it read and clears the
cache by a later call. `Departments`: parents and paths, requests split in read,
check and write, and everything that reads the tree: `loadTree`, calendars,
report scopes, and the choice of unit and workflow when a request is sent.
`LoginDevices`, `SignUps`: the parallel first requests of a session and the two
hooks Supabase calls. `WorkCalendar` takes its requests one at a time; its point
is the arithmetic of ranges and cycles over long sequences of edits. `Reports`
reduces the engine to the rows it leaves and checks the aggregations over them.

### Composition

`MCRecords`, `MCServices`, `MCBackground` and `MCDocuments` host components that
share no state in one run each: they extend a component, or make an INSTANCE of it
on variables of its own; a behaviour belongs to one `part`, and the others stay as
they start. `Services` gathers what uploads, downloads, devices and sign-ups
promise. Engine, views, news, preview and lifecycle compose really, on the same
variables. A hosted component's theorem is about the component's own
specification, of which each part of the composed one is a copy, sometimes with
a bound more.

## 3. Runs and bounds

Deadlock is not checked: an approved request, a drained queue and exhausted
version numbers are legitimate ends. Every property of a passing run has a
mutant in `PROJECT.json`: a plausible bug of a mapped definition that TLC finds
violating it.

| Run | Properties | Bounds and why they are enough |
|---|---|---|
| `engine_parallel` | `PendingOnlyAtCurrentStep`, `WaitsForAnOpenTask`, `StepsArePassedRightly` (decided and signed), `VerdictsStand` (final, one click one slot), `PeopleSeeWhatIsTheirs` | three people (one the requester), one group, an all-slots step and a signed step, both kinds of delegation, one round: two people hold two slots in every combination, a group shrinks to one or none |
| `engine_rounds` | `TypeOK`, `RequestLivesAsPromised`, `PreviewIsFollowed` | two rounds, two published versions, a returned step with a deadline and escalation, an "any" step with an assigned group, a reassignment |
| `live` | `SentFilesStand`, `ConversionEnds`; `OverdueIsDecided`, `EmptyGroupIsDropped` | two requests (one may be archived) with one office document, one editor, a cron and an event worker, three object keys per document, round and kind, one fault at any point; beside them the engine with three steps (one approved, one rejected by the system, one of a group) and two payloads |
| `records` | `MailIsAccountedFor`, `NothingGoesOutTwice`, `PayloadsSurvive`, `TheRightOnesAreAsked`, `TalkIsKept`, `DirectoryAgrees`, `OneCertificateInUse`, `ReportsAreTrue` | see the parts below |
| `exports` | `TypeOK`, `DoneHasItsFile`, `NoFileWithoutJob`, `ToldOnceAndRight`, `JobsEndOnce`, `JobsAndFilesEnd` | two jobs of two owners, two workers, a ceiling of one, one fault: a worker taken for lost meets the one that comes back, and a job waits for another |
| `services` | `OneVersionRuns`, `FormVersionsDiffer`, `SentRequestsFollowPublished`, `VersionsAgeOneWay`, `FilesAreServedRightly`, `DepartmentsFormATree`, `LoginsAreRight`, `CalendarIsRight`, `PublishedGraphsAreWalked`, `TypesAreVersioned` | see the parts below |
| `background` | `EveryRecipientIsRecorded`, `PreviewsEnd`, `StaleListsExpire`, `RemindersAreRight` | see the parts below |
| `engine_stale_reassign`, `engine_head_or_deputy`, `mail_lost`, `definitions_edited`, `exports_ceiling` | one each, violated | section 6 |

Calls that differ only in who makes them are taken for one (`SYMMETRY`) in
`records` (relays and handlers) and `services` (the two calls), which check
invariants and action properties only; the counts of states in section 5 are
of runs without it.

Parts of `records`:

* mail: one event, two people (one without an address), two relays, two handlers,
  one send per turn, and one disturbance of any kind (fault or resend,
  `OneDisturbance`). Two sends per turn, and a fault together with a resend, are
  in `background` with one relay and one consumer: the product of both was too
  large, and each race needs one of the two.
* payloads: five forms of up to three fields (texts, numbers, options, days up to
  and from today, references, a table with a formula), drafts nobody checked with
  up to two rows of six kinds (ids with spaces, too long or missing), three days.
* approvers: two departments in a line or a cycle, three people in various posts, one
  change during the search, three levels.
* talk: three comments, two shares, replies of depth two, two rounds, one
  requester, one colleague, one group; a request may be cancelled as a draft, while
  it is pending and once it is returned. `OneTopic`: shares and comments are varied
  in turns, for they meet only in who may write.
* people: one person, one group, one role, two names, two sets of rights, two
  calls at a time and two saves: any pair of operations in any interleaving.
* signing: three certificates, two calls: one in use that expires, one enrolled
  after it and one beside both. Nothing more once two calls have crossed, and no
  third certificate after something was cut short (`FewCertificates`).
* reports: one request of up to three rounds and tasks, and another of the same
  requester with one remark (`FewRemarks`: four remarks in two days or three in
  three); a group with one member. Limits of 50 and 500 rows are two and one.

Parts of `services`:

* definitions: two administrators, one request, three versions: one archived, one
  that runs, one to edit.
* files: two files of one name, two confirmations, one cleanup. `FewMishaps`: one
  file at a time has a link that works or is being confirmed, perhaps twice at
  once; a cleanup takes a row or a link is used after the check, not both; nothing
  follows what the property excepts anyway. Downloads: two tickets of one user,
  two requests at a time, three in all.
* tree: three departments and two administrators, or two departments with a
  person (`staff`). Nothing is begun once two moves have overlapped (they are
  excepted anyway), and the tree is looked at when no request is under way.
* logins: two fresh sessions in one browser, two requests; sign-ups: two
  accounts of one address, one login, three tries.
* calendar: a user and the company, one shift, two schedules, three rows up to
  day 2, a year of one day and a week of two (the code's 365 and 7): at most
  three of special days, assignments and passed days together, and one assignment
  of the company (`FewDays`). This reaches cutting, splitting and swallowing of
  ranges, special days of several days at once and copies of a year.
* graph: the graphs over four nodes that `Drawn` lists (every type of node,
  loops, dead ends, missing nodes, conditions with and without a default).
* types: two administrators, one request, two forms, three configurations, three
  versions, three saves.

Parts of `background`: mail as above with two sends, one fault and one resend;
previews with three attempts, two confirmations, one consumer, one backfill, one
fault; lists with a TTL of two ticks, two readers and one writer; reminders over
three days with a threshold of one, two processes, two rows, one mailing
(`OneMailing`), one fault. In reminders a run takes less than a day, one handler
has a message, and what Supabase or the old Redis key know is one date.

## 4. Fairness

* Mail: relays (after each commit and by cron) and consumers take their steps;
  commits, resends and faults owe nothing.
* Engine (`live`): time passes (`Tick`), and the SLA cron, every 15 minutes,
  starts its scans, carries each through whatever becomes of single tasks (it
  catches every error) and repairs group tasks. People owe nothing.
* Documents: workers start their scans and go on working, due times and lock
  expiries arrive. Messages may all be lost; the event worker is not needed.
* Exports: a worker ticks every ten seconds and carries its tick through, and
  time passes. Neither heartbeats nor owners are fair.
* Previews: a pass goes on; the backfill is strongly fair for a file, which is
  due again and again between passes (thirty files a run, and what was taken is
  not due soon again).
* Lists: time alone.

## 5. Proofs

Theorems hold for every value of the constants; TLC checked each inductive
invariant on a run's instance before it was proved.

**`ApprovalEngineProofs`**: `TypeCorrect`, `OpenTasksAreCurrent`
(`PendingOnlyAtCurrentStep`), `NeverStranded` (`WaitsForAnOpenTask`). Invariant:
`TypeOK /\ RequestOK`; `RequestOK` gathers the request's types, `RoundBegun` (a
request that was never sent has no tasks) and the two properties, which lean on
each other: that `Arrive` meets no task that exists already needs every pending
task to be at the current step, and that a click finds something to decide needs
an open task. Each action changes the request in one of a few shapes, each shape
preserves the invariant once; `Grown` (rows are never deleted) carries what
`reassign` and the scan remember across everybody else's steps. Assumption:
`ConstantsAssumption`, which types the configuration.

In the same module `StepsPassedRightly`, `VerdictsDoStand` and
`EngineImplementsLifecycle` (the refinement, for the initial state and every
step). Here `AcyclicAssumption` is needed: from a depth that falls along `Walk`
(`LeastElement`, `GreatestElement`, from the well-foundedness of the naturals)
`WalksDown` shows that a walk meets only steps it has not met in the round, so
the rows it creates are new and no verdict is written over. `StepKinds` then sorts
every step into six kinds. Invariant `DecisionInv`: the one above, with
`RowsOK` (what rows of closed and waived tasks look like), `WalkOK` (visited
steps lie above the current one), `StepOK` and `SignaturesOK`, and `ScanOK` (the
scan never carries an approval that needs a signature). TLC checked it on
515 056 states of `engine_parallel` and 887 716 of `engine_rounds`.

**`RequestViewsProofs`**: `EverybodySeesWhatIsTheirs` (`PeopleSeeWhatIsTheirs`).
The views are operators on the engine's state, so the argument is what that state
must be like for separate queries to give one answer: `ViewInv` is `DecisionInv`
with `RowsRead` (an open row has no actor yet, a group's row has no handovers) and
`ReadOfAPerson` (a task whose holder was read as a person is a person's still:
only closed rows can change otherwise). The notices are proved step by step, by
the kinds of steps above. TLC: `ViewInv` on the same two runs and on 17 756 states
of `live`.

In the same module `PreviewsComeTrue` (`PreviewIsFollowed`): two walks written apart
agree. `PlacesFollow`: since depths fall along `Walk`, the places `simulate` goes
through come to an end within its guard. `PlacesAreTheWalk`: up to the first of them
the engine does not skip they are the steps it skips, each once, and that first one
is where it stops. `PreviewAsksTheSame`: a step neither finds blocked asks the same
principals, whether the requester is taken out slot by slot or as a whole; where
only the preview is blocked, a group is empty (`BlockedOnlyForAGroup`). That the
walk starts where the preview does, below every step met so far, is `DecisionInv`.

**`DocumentsProofs`**: `DocumentsInvariant`, `SentFilesStandAlways`
(`SentFilesStand`), `VersionsAreKeptAlways`. Whatever is done to a row is one of five
things (a new row of the round that is composed, a schedule, a failed attempt, a
conversion, a signature), and each keeps the chain of versions. Nothing of a sent
round is written by the requester, for the tab whose copy of the request is current
has seen the round that is composed now. The invariant has a conjunct for each:
`RowsAreSound`, `RoundsInTurn`, `OpenCopies`, `WorkersMakePdfs`, and
`CleaningSpares`: an object that a failed worker is about to remove is named by no
row. TLC: 118 961 states of `live`, 1 839 487 with two editors.

**`ApprovalMailProofs`**: `TypeIsInvariant`, `MailIsAlwaysAccountedFor`,
`NothingEverGoesOutTwice`. Batches of relays are apart (`BatchesAreApart`), so a
first try that was confirmed was the only one (`EventOK`). An event that left a
trace keeps one: whatever takes a message holds it until each recipient has a row,
gives it back or dead-letters it (`HandlerOK`). A row nobody asked to resend is
in the hands of the one handler that created it, whose count it carries (`RowOK`).

`AwayPeopleAreReminded` (`RemindersAreRight`), of `InactiveReminders`: the column
`lastActiveAt` is never later than the truth; a run that met no other knows the
column of everybody who was not here since it was read; it empties what is unread
and then appends, so one row is left; a row is published once, and what was mailed
and what still waits are together at most one more than the mishaps. That the column
is at most a day behind while nothing fails (`AtMostADayBehind`) is an invariant of
its own: only a visit could break it. TLC: 166 735 states.

**`DefinitionsProofs`**: `TypeCorrect`, `OneVersionRunsAlways`,
`FormVersionsAlwaysDiffer`, `SentRequestsNeverFollowDrafts`,
`VersionsAlwaysAgeOneWay`. Who is about to publish holds the lock and its version
is a draft still (`LockedDrafts`), numbers have no gaps
(`NumberedWithoutGaps`), what is about to be inserted follows an existing
version, which for a form differs from it (`Successors`).

There too, `TypesStayVersioned` (`TypesAreVersioned`). A save that has been alone from
its beginning has read what the row still is (`AloneOK`), so writing the columns
it changes makes the row what was asked for; unless something is torn every save
is alone (`TornOK`), and between two of them row and latest version agree
(`Settled`). A number once taken stays taken, so a request keeps what it pinned.
TLC: 61 562 states.

And `PublishedGraphsAreAlwaysWalked`. What can be reached is
closed under edges (`ReachableIsClosed`), so an edge back would close a loop that
validation found (`OnItsWay`), and every iteration leaves one node fewer unseen
(`Counted`): the walk's counter is never used up.

And `WhatWasFilledInSurvives` (`PayloadsSurvive`). `PayloadInv`: both versions of the
form are valid, rows of a table have ids of their own whatever the client saved
(`RowsNumbered`), and what was sent is what parsing makes of it and was accepted on
some day that has come. A later day refuses nothing else than days that had to be
of today or later (`FitsLater`). Parsing is complete
(`OnceParsed`) because trimming is and because a computed cell is no operand
(`ComputedOnce`); trimming changes neither whether a value fits nor what it is unique
by (`TrimmingKeeps`). Every value a migration lets through has a shape its new field
takes, and none that fits is dropped (`ValueMigrated`). `FormsAssumption` asks of
trimming that it does nothing the second time and nothing to the folded text, of
forms and drafts that they have the types of the schema and of JSON, and that a row
a client saves has no id or one of the client's. TLC: 12 655 states.

**`PeopleProofs`**, certificates: `OneCertificateIsInUse`. As long as every row is
saved as it was read, each save finds what its call had checked: an approval closes
exactly the others that are active, an enrolment follows only expired
certificates or is marked as one beside another row, what is pending and not so
marked is younger than what it replaces. A key is made for
one row and never again, so a row closed after its key was destroyed stays
without it. TLC: 222 189 states.

Directory: `PeopleAreWhatTheirPrincipalsSay` (`DirectoryAgrees`). A save that did not
touch the principal has not changed the name it read; an account is made before
its row and by one request alone, so nothing is cached of a person whose row is
still to come; and every save that changes what the guard would load leaves
a request that will drop the entry, or excuses it. TLC: 89 264 states with one
person, 3 636 501 with two.

Shares and comments: `TalkIsAlwaysKept` (`TalkIsKept`). A reply names an earlier
comment, whose depth and round never change, so what was checked when the reply
was begun still holds when it is stored. Depths exist because replies point
backwards (a finite induction over a set, `FromZero`); nothing hangs deeper than
the page reads, and what is kept for something below it is found in time. Shares
are written under the request's lock. A draft that was cancelled stays so, so its
comments stay of no round. TLC: 374 876 states.

Approvers: `TheRightOnesAreFound` (`TheRightOnesAreAsked`). What was read was so
since the question (`Remembered`). Of a directory at rest, the departments passed
had nobody who may be asked, those still to be tried in this one are all who may
be, the first choice first (`Entering`, `Inside`, `Trying`); and a chain of command
that comes back to a department goes on as before (`ChainsRepeat`), so the kinds
of questions that keep no set of visited departments are right on a cycle too.
Assumption: a question for somebody above a colleague, or above for a deputy,
excepts that colleague (`ApproversAssumption`; the callers always put the
requester or approver they ask about among those to except). TLC: 152 875 states.

**`ServicesProofs`**: `UploadsAndDownloads` (`FilesAreServedRightly`) and
`LoginsAndSignUps` (`LoginsAreRight`), each of two components with an invariant of
its own. Uploads: whoever wrote the object of a key has a row of that key, so what
a confirmation has verified is its own file's unless a name is shared, nobody
but a cleanup that took the row or a confirmation that rejects it removes it, and
nobody but its link changes it. Downloads: a ticket never read twice
at once and always taken away has one reader and is gone before that one is served;
without a crossing one request is inside, and the lock is there while it streams. Devices: one the
user did not have before is named by a session the cache knows and noticed when it
is recorded. Sign-ups: one that did not overlap has read what the row still is, but
for what administrators changed since. TLC: 133 051 and 16 209 states, 2 617
and 14 885.

Departments: `TheTreeHolds` (`DepartmentsFormATree`, each part of it at all times
and not only when no request is under way). `ReachedIs` and `ChainIs` are about the
two loops: what is gathered level by level is the least set that is closed, for as
long as it is not closed each level holds a department more; a way up repeats no
department and so is over after as many steps. Going up and going down agree
because what is not below a department is closed upwards (`AboveIsBelow`), and
paths agree with parents where they fit because they get shorter upwards
(`PathsLeadBelow`). These hold of any departments. What needs the invariant
`TreeInv` is that there is no circle and one top as long as nothing has raced:
a checked move that is still to be written knows a set that is closed upwards, holds
the new parent and does not hold what is moved (`StillFits`), and removals only
make what has to be closed smaller. Assumption: finitely many departments and
integer priorities (`DepartmentsAssumption`). TLC: 440 810 states.

**`ExportJobsProofs`**: `TypeIsInvariant`, `FilesAreKept`, `FilesAreOwned`,
`OwnersAreToldOnce`, `EndsAreFinal`. `WorkerOK` says what a worker may rely on at
each statement, `Apart` that no two workers process or tell about one job, `JobOK`
that a job that waits or runs was not told about. Four shapes of steps preserve
them.

Only model-checked:

* Liveness, and what needs ENABLED: the prover has no rule for fairness here.
  (`ConversionEnds`, `OverdueIsDecided`, `EmptyGroupIsDropped`, `JobsAndFilesEnd`,
  `EveryRecipientIsRecorded`, `PreviewsEnd`, `StaleListsExpire`.)
* What is built by recursion over data, for which the library's induction theorems
  cannot be instantiated: `CalendarIsRight` and `ReportsAreTrue` (sums over ranges
  of days and over histories).

## 6. What the models say about the code

The violation runs each end in a disagreement of code and text:

* `engine_stale_reassign`: `reassign` tests that the task is pending before it
  locks the request; a task decided in between gets a new holder.
* `engine_head_or_deputy`: the slots approved along with a click are not cleaned
  up, so the colleague of a head-or-deputy slot is still asked.
* `mail_lost`: a handler that dies after creating a recipient's row and before
  mailing it leaves a draft row; the redelivered message skips the recipient.
* `definitions_edited`: `saveDraft` finds a draft, the draft is published, and
  `saveDraft` then writes its definition.
* `exports_ceiling`: `claimNext` locks only the row it takes and counts the running
  jobs in the statement's own snapshot, so two workers that claim different jobs
  at once both find room.

What the passing properties except, each a limit of the code a reader should
know; the ghost variable that records the exception is in brackets:

* Departments: overlapping moves, each checked on its own, may close a cycle
  (`raced`). A removal finds what is below by paths, which are stale below a
  department that was moved: sub-departments may be left behind
  (`SubDepartmentsGoToo` is violated), and a report's scope, by path, differs
  from a calendar's, by parent. A person may be moved into a department while it
  is removed.
* Directory: overlapping saves of one row (`overlapped`); a change of a group
  clears no cached rights, so they live until their TTL (`excused`).
* Certificates: rows saved over a change (`crossed`): two concurrent enrolments
  leave two pending certificates, where
  `signing-certificate.entity.ts:16` says at most one. So does a single one after
  the certificate in use has expired: `enroll` looks at one of the open rows
  (`signing-certificate.service.ts:72`) and goes on if that one has expired, a
  pending row beside it or not (`beside`). A lock of a person that is
  cut between the save and `revokeAllForUser` is not taken up by a second
  `updateActive` (`cut`).
* Request types: after overlapping saves or a crash the type and its latest
  version differ until the next save made alone (`torn`); `createRequest` may pin
  a type version and a form version that do not belong together, against
  `request-type-version.entity.ts:13` and `:41` (`calm` excludes it). The code of
  a deleted type cannot be used again.
* Uploads: a confirmation after the cleanup took the row (`taken`); nothing but
  the gap between the age of a row and the life of its link prevents it. Any error
  while an upload is checked deletes its object or its row
  (`upload.service.ts:317`, `:338`, `attachment.service.ts:65`), so of two
  confirmations of one upload the second may delete what the first has found good
  (`dropped`). The link goes on writing for what is left of its half hour: a
  confirmed file may get contents nobody checked (`overwritten`). A name is free as
  long as nothing is stored under it, so two rows may have one key (`Shared`). The
  reads of one check are a step of the model.
* Downloads: "a ticket works once and a person downloads one file at a time"
  (`export.service.ts:156`) holds without overlap only: ticket and lock are read
  and written by two calls each (`shared`, `crossed`). A refused download has used
  up its ticket, and a lock may expire under a long download. `RedisService` logs an
  error and goes on (`redis.service.ts:47`): a ticket that could not be deleted is
  good for another download afterwards (`undeleted`), and without an answer about
  the lock two downloads run at once.
* Exports: when the answer to the finishing update is lost, the worker removes
  the file of a job that is done (`unsure`).
* Sign-ups: overlapping sign-ups of one address may link the row to the account
  that lost, whose logins are then not logged (`overlapped`). Devices: the login
  whose check crashed is not checked again (`lost`).
* Reminders: two overlapping daily runs leave two unread reminders, where
  `inactive-user-reminder.service.ts:142` says one (`tidy`). A message dropped
  while the broker is away leaves its mail row a draft for ever. Who comes back
  while the job runs is reminded once more. The guard writes once an hour, so a visit
  soon after midnight may count as one of the day before, and one after a failed
  write as none (`unnoted`).
* Previews of a request: an empty group blocks a preview
  (`approval-engine.service.ts:677`), while `advance` drops the slot (`:821`),
  against the comment at `:745`. A returned request keeps its pinned version, its
  preview walks the one that is published now. Fixed recipients of a notify node
  may be told of a request they cannot open (excluded from
  `NewsReachesThoseConcerned`).
* Documents: a request cancelled while it was a draft shows no files on its page
  and has none in its archive: the page looks in round 0, the files are in round
  1 (`approval-request.service.ts:700`, comment at `:900`).
* Comments: the code allows three levels of replies
  (`MAX_COMMENT_DEPTH`), `approval-comment.entity.ts:20` says one. A request that
  was cancelled as a draft can be written on, in round 0: `addComment` refuses
  drafts only (`approval-engine.service.ts:410`).
* Forms: a field that asks for today or later refuses what it took yesterday, so a
  returned request may have to be changed before it is sent again (`NotPast`). A
  clone may hold a reference without id or name (`hasShape` takes any object) and
  row ids that differ by spaces only or are too long: the check refuses them,
  nothing mends them. `Math.round` rounds negative halves up.
* Departments' workflows: `getCreatableRequestTypes` ignores departments when it
  asks whether a type has a workflow, so a type with another department's
  workflow alone is offered and cannot be sent.
* Reports: reassigning and repairing a group leave no `escalate` row, so waits of
  tasks that changed hands that way count from the task's creation; the home page
  measures from creation where reports measure from the last escalation;
  `same_approver` tasks count as handled and as automatic, against the comment at
  `approval-report.service.ts:152`. Of the approvers the 50 with the longest
  average wait are listed (`:267`): who has decided nothing yet comes last, however
  much is waiting for them. The recent activity is that of the 500 newest tasks and
  the 500 newest requests of a person (`approval-task.service.ts:29`), which need
  not be those with the newest history. The properties claim no more than that
  (`IsBefore`, `LeftOut`).

## 7. Not modelled, and the plan

Not modelled, for good: rendering of texts, mails and PDF content, adapters of
external services, wording of errors and history, the definitions of export
columns, settings, routes, translations. `PinGuard`'s counter is two calls to
Redis nothing else depends on. A condition that `jsonLogic` cannot evaluate (an
unknown operator, which `validateGraph` does not look for) makes the walk throw;
`WorkflowGraph` has only conditions that hold or do not. The limits of the shorter
lists of the reports (types, departments, steps, what is waiting) cut nothing in
`Reports`.

What could be added to the proofs: sums over a calendar's ranges and over the
histories of a report, for which a theory of sums comes first.
