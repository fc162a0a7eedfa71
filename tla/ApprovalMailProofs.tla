------------------------- MODULE ApprovalMailProofs -------------------------
(***************************************************************************)
(* What holds of the two mailings.  First ApprovalMail, for any number of     *)
(* events, people, relays and consumers, and any number of faults and resends. *)
(*                                                                         *)
(* A relay has its batch to itself, so a first try that is confirmed was the *)
(* only one.  A trace of an event, once there, never goes: whatever takes a  *)
(* message from the broker holds it until each recipient has a row, gives it *)
(* back or dead-letters it.  And a row nobody asked to resend is in the      *)
(* hands of the one handler that created it.                                *)
(*                                                                         *)
(* Then InactiveReminders, for any number of people, days, processes and     *)
(* mishaps.  A run that is alone knows the column of everybody who was not    *)
(* here since it was read, so it reminds all who are away; a row is published *)
(* once, and only a consumer that dies sends its mail again.                *)
(***************************************************************************)
EXTENDS ApprovalMail, InactiveReminders, TLAPS

(* A relay: its batch is locked, and what was confirmed can be found *)
RelayOK(r) ==
  /\ relay[r].ok \subseteq relay[r].tried /\ relay[r].tried \subseteq relay[r].batch
  /\ \A e \in relay[r].batch : Pending(e)
  /\ \A e \in relay[r].ok : Traced(e)

BatchesAreApart == \A r, q \in Relay : r # q => relay[r].batch \cap relay[q].batch = {}

(* An event in the outbox, and how often it went out at its first try *)
Untried(e) == outbox[e].status \in {"none", "pending"} /\ outbox[e].attempts = 0
EventOK(e) ==
  /\ outbox[e].status \in {"none", "pending"} => outbox[e].attempts < MaxAttempts
  /\ outbox[e].status \in {"published", "removed"} => Traced(e)
  /\ faults = 0 =>
       /\ Untried(e) /\ (\A r \in Relay : e \notin relay[r].tried) => copies[e] = 0
       /\ Untried(e) /\ (\E r \in Relay : e \in relay[r].ok) => copies[e] = 1
       /\ outbox[e].status = "published" /\ outbox[e].attempts = 1 => copies[e] = 1

(* A handler: each recipient is recorded or still to do, its rows are there *)
Turn == {"count", "send", "sent", "failed"}
HandlerOK(c) ==
  handler[c] # Idle =>
    LET h == handler[c]
    IN /\ h.mine \subseteq DOMAIN rows
       /\ h.pc = "lookup" => h.mine = {}
       /\ h.pc \in Turn => h.row \in DOMAIN rows \ h.mine
       /\ h.resend # None => h.resend \in DOMAIN rows /\ rows[h.resend].asked
       /\ h.resend = None /\ h.pc # "lookup" => Recipients[h.event] \subseteq Recorded(h.event) \cup h.todo

(* Who is at a row, and what is written in it meanwhile *)
Keeps(c, id) == handler[c] # Idle /\ id \in handler[c].mine
Turns(c, id) == handler[c] # Idle /\ handler[c].pc \in Turn /\ handler[c].row = id
Unsent(row) == row.attempts = 0 /\ row.sends = 0 /\ row.mailed = 0
RowOK(id) ==
  ~rows[id].asked =>
    /\ rows[id].again = 0
    /\ rows[id].sends <= rows[id].attempts /\ rows[id].mailed <= 1
    /\ \A c \in Consumer :
         /\ Keeps(c, id) => Unsent(rows[id])
         /\ Turns(c, id) =>
              /\ rows[id].attempts = handler[c].counted
              /\ handler[c].pc # "sent" => rows[id].mailed = 0
              /\ handler[c].pc = "send" => rows[id].sends < handler[c].counted
    /\ \A c, d \in Consumer : c # d => ~((Keeps(c, id) \/ Turns(c, id)) /\ (Keeps(d, id) \/ Turns(d, id)))

Inv ==
  /\ TypeOK
  /\ \A r \in Relay : RelayOK(r)
  /\ BatchesAreApart
  /\ \A e \in Event : EventOK(e)
  /\ \A c \in Consumer : HandlerOK(c)
  /\ \A id \in DOMAIN rows : RowOK(id)

-----------------------------------------------------------------------------

LEMMA HandlingIsNotIdle == \A h \in Handling : h # Idle /\ h.pc # "idle"
BY DEF Handling, Idle

LEMMA InitOK == ASSUME Init PROVE Inv
<1>1. TypeOK
  BY MailAssumption DEF Init, TypeOK, Relaying, AtRest, Row
<1>2. \A r \in Relay : RelayOK(r)
  BY DEF Init, RelayOK, AtRest
<1>3. BatchesAreApart
  BY DEF Init, BatchesAreApart, AtRest
<1>4. \A e \in Event : EventOK(e)
  <2>1. \A r \in Relay : relay[r].ok = {}
    BY DEF Init, AtRest
  <2>2. \A e \in Event : outbox[e].status = "none" /\ outbox[e].attempts = 0 /\ copies[e] = 0
    BY DEF Init
  <2>3. MaxAttempts > 0
    BY MailAssumption
  <2> QED
    BY <2>1, <2>2, <2>3 DEF EventOK, Untried
<1>5. \A c \in Consumer : HandlerOK(c)
  BY DEF Init, HandlerOK
<1>6. \A id \in DOMAIN rows : RowOK(id)
  BY DEF Init
<1> QED
  BY <1>1, <1>2, <1>3, <1>4, <1>5, <1>6 DEF Inv

(* The outbox side: nothing about rows and handlers changes                  *)
LEMMA RowSideKept ==
  ASSUME Inv, UNCHANGED <<rows, handler>>
  PROVE  /\ \A c \in Consumer : HandlerOK(c)'
         /\ \A id \in DOMAIN rows' : RowOK(id)'
<1>1. \A c \in Consumer : HandlerOK(c)'
  BY DEF Inv, HandlerOK, Recorded, RowsOf
<1>2. \A id \in DOMAIN rows' : RowOK(id)'
  BY DEF Inv, RowOK, Keeps, Turns
<1> QED
  BY <1>1, <1>2

(* A trace of an event stays when messages only arrive *)
LEMMA TraceStaysWithRows ==
  ASSUME Inv, UNCHANGED <<rows, handler, dead>>, queue' \in [Event -> Nat],
         \A e \in Event : queue'[e] >= queue[e]
  PROVE  \A e \in Event : Traced(e) => Traced(e)'
<1>1. queue \in [Event -> Nat]
  BY DEF Inv, TypeOK
<1> QED
  BY <1>1 DEF Traced, InFlight, Recorded, RowsOf

LEMMA OutboxOK ==
  ASSUME Inv, NEW e \in Event, Commit(e) \/ Cleanup(e)
  PROVE  Inv'
<1>1. TypeOK
  BY DEF Inv
<1>2. /\ UNCHANGED <<relay, queue, dead, rows, handler, asking, faults, resends, copies>>
      /\ \A d \in Event \ {e} : outbox'[d] = outbox[d]
      /\ outbox'[e].attempts = outbox[e].attempts
      /\ \/ outbox[e].status = "none" /\ outbox'[e].status = "pending"
         \/ outbox[e].status = "published" /\ outbox'[e].status = "removed"
      /\ outbox' \in [Event -> [status : {"none", "pending", "published", "failed", "removed"},
                               attempts : 0..MaxAttempts]]
  BY <1>1 DEF Commit, Cleanup, TypeOK
<1>3. \A d \in Event : Traced(d) => Traced(d)'
  BY <1>2 DEF Traced, InFlight, Recorded, RowsOf
<1>4. TypeOK'
  BY <1>1, <1>2 DEF TypeOK
<1>5. \A r \in Relay : RelayOK(r)'
  <2>1. TAKE r \in Relay
  <2>2. \A d \in relay[r].batch : d \in Event
    BY <1>1 DEF TypeOK, Relaying
  <2> QED
    BY <1>2, <1>3, <2>2 DEF Inv, RelayOK, Pending
<1>6. BatchesAreApart'
  BY <1>2 DEF Inv, BatchesAreApart
<1>7. \A d \in Event : EventOK(d)'
  BY <1>2, <1>3 DEF Inv, EventOK, Untried
<1>8. (\A c \in Consumer : HandlerOK(c)') /\ (\A id \in DOMAIN rows' : RowOK(id)')
  BY <1>2, RowSideKept
<1> QED
  BY <1>4, <1>5, <1>6, <1>7, <1>8 DEF Inv

(* What a relay's own state becomes; the others' stay *)
LEMMA RelayStepOK ==
  ASSUME Inv, NEW r \in Relay, RelayTake(r) \/ RelayCrash(r)
  PROVE  Inv'
<1>1. TypeOK /\ relay \in [Relay -> Relaying]
  BY DEF Inv, TypeOK
<1>2. /\ UNCHANGED <<outbox, queue, dead, rows, handler, asking, resends, copies>>
      /\ relay' \in [Relay -> Relaying]
      /\ \A q \in Relay \ {r} : relay'[q] = relay[q]
      /\ relay'[r].tried = {} /\ relay'[r].ok = {}
      /\ \A e \in relay'[r].batch : Pending(e) /\ ~Locked(e)
      /\ \/ faults' = faults /\ relay[r].tried = {} /\ relay[r].ok = {}
         \/ faults' = faults + 1 /\ faults < MaxFaults
  <2>1. CASE RelayTake(r)
    <3>1. PICK B \in SUBSET { e \in Event : Pending(e) /\ ~Locked(e) } \ {{}} :
            relay' = [relay EXCEPT ![r].batch = B]
      BY <2>1 DEF RelayTake
    <3> QED
      BY <1>1, <2>1, <3>1 DEF RelayTake, Relaying, AtRest
  <2>2. CASE RelayCrash(r)
    BY <1>1, <2>2 DEF RelayCrash, Fault, Relaying, AtRest
  <2> QED
    BY <2>1, <2>2
<1>3. \A e \in Event : Traced(e) => Traced(e)'
  BY <1>2 DEF Traced, InFlight, Recorded, RowsOf
<1>4. TypeOK'
  BY <1>1, <1>2, MailAssumption DEF TypeOK
<1>5. \A q \in Relay : RelayOK(q)'
  BY <1>1, <1>2, <1>3 DEF Inv, RelayOK, Pending, Relaying
<1>6. BatchesAreApart'
  BY <1>2 DEF Inv, BatchesAreApart, Locked
<1>7. \A e \in Event : EventOK(e)'
  <2>1. TAKE e \in Event
  <2>2. CASE faults' = faults
    <3>0. faults \in Nat
      BY <1>1, MailAssumption DEF TypeOK
    <3>1. \A q \in Relay : relay'[q].tried = relay[q].tried /\ relay'[q].ok = relay[q].ok
      <4>1. faults + 1 # faults
        BY <3>0
      <4>2. relay[r].tried = {} /\ relay[r].ok = {}
        BY <1>2, <2>2, <4>1, Zenon
      <4> QED
        BY <1>2, <4>2, Zenon
    <3>2. EventOK(e) /\ UNCHANGED <<outbox, copies>>
      BY <1>2 DEF Inv
    <3> QED
      BY <1>3, <2>2, <3>1, <3>2 DEF EventOK, Untried
  <2>3. CASE faults' # 0
    BY <1>2, <1>3, <2>3 DEF Inv, EventOK
  <2> QED
    BY <1>1, <1>2, <2>2, <2>3, MailAssumption DEF TypeOK
<1>8. (\A c \in Consumer : HandlerOK(c)') /\ (\A id \in DOMAIN rows' : RowOK(id)')
  BY <1>2, RowSideKept
<1> QED
  BY <1>4, <1>5, <1>6, <1>7, <1>8 DEF Inv

LEMMA PublishOK ==
  ASSUME Inv, NEW r \in Relay, NEW e \in Event, RelayConfirmed(r, e) \/ RelayUnconfirmed(r, e)
  PROVE  Inv'
<1>1. TypeOK /\ relay \in [Relay -> Relaying]
  BY DEF Inv, TypeOK
<1>2. /\ UNCHANGED <<outbox, dead, rows, handler, asking, faults, resends>>
      /\ relay' \in [Relay -> Relaying]
      /\ \A q \in Relay \ {r} : relay'[q] = relay[q]
      /\ e \in relay[r].batch /\ e \notin relay[r].tried
      /\ relay'[r].batch = relay[r].batch /\ relay'[r].tried = relay[r].tried \cup {e}
      /\ \/ relay'[r].ok = relay[r].ok /\ (Arrives(e) \/ UNCHANGED <<queue, copies>>)
         \/ relay'[r].ok = relay[r].ok \cup {e} /\ Arrives(e)
  BY <1>1 DEF RelayConfirmed, RelayUnconfirmed, Tries, Relaying
<1>3. /\ queue' \in [Event -> Nat] /\ \A d \in Event : queue'[d] >= queue[d]
      /\ copies' \in [Event -> Nat] /\ \A d \in Event \ {e} : copies'[d] = copies[d]
      /\ Arrives(e) => queue'[e] > 0 /\ copies'[e] = copies[e] + 1
  BY <1>1, <1>2 DEF Arrives, TypeOK
<1>4. \A d \in Event : Traced(d) => Traced(d)'
  BY <1>2, <1>3, TraceStaysWithRows
<1>5. TypeOK'
  BY <1>1, <1>2, <1>3 DEF TypeOK
<1>6. \A q \in Relay : RelayOK(q)'
  <2>1. \A q \in Relay : relay[q].ok \subseteq Event /\ relay[q].batch \subseteq Event
    BY <1>1 DEF Relaying
  <2>2. \A q \in Relay \ {r} : RelayOK(q)'
    BY <1>2, <1>4, <2>1 DEF Inv, RelayOK, Pending
  <2>3. \A d \in relay'[r].ok : Traced(d)'
    <3>1. Arrives(e) => Traced(e)'
      BY <1>3 DEF Traced
    <3> QED
      BY <1>2, <1>4, <2>1, <3>1 DEF Inv, RelayOK
  <2>4. RelayOK(r)'
    BY <1>2, <2>1, <2>3 DEF Inv, RelayOK, Pending
  <2> QED
    BY <2>2, <2>4
<1>7. BatchesAreApart'
  BY <1>2 DEF Inv, BatchesAreApart
<1>8. \A d \in Event : EventOK(d)'
  <2>1. TAKE d \in Event
  <2>2. CASE d # e
    <3>1. \A q \in Relay : (d \in relay'[q].tried <=> d \in relay[q].tried) /\ (d \in relay'[q].ok <=> d \in relay[q].ok)
      BY <1>2, <2>2
    <3> QED
      BY <1>2, <1>3, <1>4, <2>2, <3>1 DEF Inv, EventOK, Untried
  <2>3. CASE d = e
    (* nobody tried the event before: the others' batches are apart from this one *)
    <3>1. \A q \in Relay : e \notin relay[q].tried
      BY <1>2 DEF Inv, BatchesAreApart, RelayOK
    <3>2. \A q \in Relay : e \in relay'[q].ok => q = r /\ Arrives(e)
      BY <1>2, <3>1 DEF Inv, RelayOK
    <3>3. Pending(e) /\ e \in relay'[r].tried
      BY <1>2 DEF Inv, RelayOK
    <3>4. outbox'[e].status = "pending" /\ outbox'[e].attempts < MaxAttempts /\ (Untried(e)' <=> Untried(e))
      BY <1>2, <3>3 DEF Pending, Inv, EventOK, Untried
    <3>5. faults = 0 /\ Untried(e) => copies[e] = 0
      BY <3>1 DEF Inv, EventOK
    <3> QED
      BY <1>2, <1>3, <2>3, <3>2, <3>3, <3>4, <3>5 DEF EventOK
  <2> QED
    BY <2>2, <2>3
<1>9. (\A c \in Consumer : HandlerOK(c)') /\ (\A id \in DOMAIN rows' : RowOK(id)')
  BY <1>2, RowSideKept
<1> QED
  BY <1>5, <1>6, <1>7, <1>8, <1>9 DEF Inv

LEMMA RelayCommitOK ==
  ASSUME Inv, NEW r \in Relay, RelayCommit(r)
  PROVE  Inv'
<1>1. TypeOK /\ relay \in [Relay -> Relaying]
  BY DEF Inv, TypeOK
<1>2. /\ UNCHANGED <<queue, dead, rows, handler, asking, faults, resends, copies>>
      /\ relay' \in [Relay -> Relaying]
      /\ \A q \in Relay \ {r} : relay'[q] = relay[q]
      /\ relay'[r] = AtRest
      /\ relay[r].tried = relay[r].batch /\ relay[r].batch \subseteq Event
  BY <1>1 DEF RelayCommit, Relaying, AtRest
<1>3. /\ \A e \in Event \ relay[r].batch : outbox'[e] = outbox[e]
      /\ \A e \in relay[r].batch :
           /\ outbox[e].status = "pending" /\ outbox[e].attempts < MaxAttempts
           /\ outbox'[e] = AfterTry(outbox[e], e \in relay[r].ok)
      /\ outbox' = [e \in Event |-> outbox'[e]]
  BY <1>1, <1>2 DEF RelayCommit, Inv, RelayOK, Pending, EventOK
<1>4. \A e \in relay[r].batch :
        /\ outbox'[e].attempts = outbox[e].attempts + 1
        /\ outbox'[e].status \in {"published", "failed", "pending"}
        /\ outbox'[e].status = "published" <=> e \in relay[r].ok
        /\ outbox'[e].status = "pending" => outbox'[e].attempts < MaxAttempts
        /\ outbox'[e] \in [status : {"none", "pending", "published", "failed", "removed"}, attempts : 0..MaxAttempts]
  <2>1. TAKE e \in relay[r].batch
  <2>2. outbox[e].attempts \in 0..MaxAttempts /\ MaxAttempts \in Nat
    BY <1>1, <1>2, MailAssumption DEF TypeOK
  <2>3. CASE e \in relay[r].ok
    <3>1. outbox'[e] = AfterTry(outbox[e], TRUE)
      BY <1>3, <2>3, Zenon
    <3> QED
      BY <1>3, <2>2, <2>3, <3>1 DEF AfterTry
  <2>4. CASE e \notin relay[r].ok
    <3>0. (e \in relay[r].ok) = FALSE
      BY <2>4
    <3>1. outbox'[e] = AfterTry(outbox[e], FALSE)
      BY <1>3, <3>0, Zenon
    <3> QED
      BY <1>3, <2>2, <2>4, <3>1 DEF AfterTry
  <2> QED
    BY <2>3, <2>4
<1>5. \A e \in Event : Traced(e) => Traced(e)'
  BY <1>2 DEF Traced, InFlight, Recorded, RowsOf
<1>6. TypeOK'
  BY <1>1, <1>2, <1>3, <1>4 DEF TypeOK
<1>7. \A q \in Relay : RelayOK(q)'
  <2>1. RelayOK(r)'
    BY <1>2 DEF RelayOK, AtRest
  <2>2. ASSUME NEW q \in Relay \ {r} PROVE RelayOK(q)'
    <3>1. \A e \in relay[q].batch : e \in Event \ relay[r].batch
      BY <1>1 DEF Inv, BatchesAreApart, Relaying
    <3>2. relay[q].ok \subseteq relay[q].batch
      BY DEF Inv, RelayOK
    <3> QED
      BY <1>2, <1>3, <1>5, <3>1, <3>2 DEF Inv, RelayOK, Pending
  <2> QED
    BY <2>1, <2>2
<1>8. BatchesAreApart'
  BY <1>2 DEF Inv, BatchesAreApart, AtRest
<1>9. \A e \in Event : EventOK(e)'
  <2>1. TAKE e \in Event
  <2>2. CASE e \in relay[r].batch
    <3>1. e \in relay[r].ok => Traced(e)'
      BY <1>5 DEF Inv, RelayOK
    <3>2. outbox[e].attempts \in Nat
      BY <1>1, MailAssumption DEF TypeOK
    <3>3. faults = 0 /\ outbox[e].attempts = 0 /\ e \in relay[r].ok => copies[e] = 1
      BY <1>3, <2>2 DEF Inv, EventOK, Untried
    <3> QED
      BY <1>2, <1>4, <2>2, <3>1, <3>2, <3>3 DEF EventOK, Untried
  <2>3. CASE e \notin relay[r].batch
    <3>1. \A q \in Relay : (e \in relay'[q].tried <=> e \in relay[q].tried) /\ (e \in relay'[q].ok <=> e \in relay[q].ok)
      BY <1>2, <2>3 DEF Inv, RelayOK, AtRest
    <3> QED
      BY <1>2, <1>3, <1>5, <2>3, <3>1 DEF Inv, EventOK, Untried
  <2> QED
    BY <2>2, <2>3
<1>10. (\A c \in Consumer : HandlerOK(c)') /\ (\A id \in DOMAIN rows' : RowOK(id)')
  BY <1>2, RowSideKept
<1> QED
  BY <1>6, <1>7, <1>8, <1>9, <1>10 DEF Inv

-----------------------------------------------------------------------------
(* The handlers' side: what a step of consumer c leaves of everything else   *)

Others(c) == \A d \in Consumer \ {c} : handler'[d] = handler[d]
RowsGrow ==
  /\ DOMAIN rows \subseteq DOMAIN rows'
  /\ \A id \in DOMAIN rows : rows[id].asked => rows'[id].asked
HeldBy(c, e) ==
  handler[c] # Idle /\ handler[c].event = e /\ handler[c].resend = None /\ handler[c].linked

LEMMA OutboxSideKept ==
  ASSUME Inv, UNCHANGED <<outbox, relay, copies>>, faults' = faults \/ faults' # 0,
         \A e \in Event : Traced(e) => Traced(e)'
  PROVE  /\ \A r \in Relay : RelayOK(r)'
         /\ BatchesAreApart'
         /\ \A e \in Event : EventOK(e)'
<1>1. \A r \in Relay : relay[r].ok \subseteq Event
  BY DEF Inv, TypeOK, Relaying
<1>2. \A r \in Relay : RelayOK(r)'
  BY <1>1 DEF Inv, RelayOK, Pending
<1>3. BatchesAreApart'
  BY DEF Inv, BatchesAreApart
<1>4. \A e \in Event : EventOK(e)'
  <2>1. TAKE e \in Event
  <2>2. EventOK(e)
    BY DEF Inv
  <2>3. CASE faults' = faults
    BY <2>2, <2>3 DEF EventOK, Untried
  <2>4. CASE faults' # 0
    BY <2>2, <2>4 DEF EventOK
  <2> QED
    BY <2>3, <2>4
<1> QED
  BY <1>2, <1>3, <1>4

LEMMA RecordsStay == ASSUME RowsGrow, NEW e \in Event PROVE Recorded(e) \subseteq Recorded(e)'
BY DEF RowsGrow, Recorded, RowsOf

LEMMA OtherHandlersOK ==
  ASSUME Inv, NEW c \in Consumer, RowsGrow, Others(c)
  PROVE  \A d \in Consumer \ {c} : HandlerOK(d)'
<1>1. TAKE d \in Consumer \ {c}
<1>2. HandlerOK(d) /\ handler'[d] = handler[d] /\ (handler[d] # Idle => handler[d] \in Handling)
  BY DEF Inv, TypeOK, Others
<1>3. handler[d] # Idle => Recorded(handler[d].event) \subseteq Recorded(handler[d].event)'
  BY <1>2, RecordsStay DEF Handling
<1> QED
  BY <1>2, <1>3 DEF HandlerOK, RowsGrow

LEMMA TraceStays ==
  ASSUME Inv, NEW c \in Consumer, RowsGrow, Others(c), dead \subseteq dead', queue' \in [Event -> Nat],
         \A e \in Event : queue'[e] < queue[e] \/ HeldBy(c, e) => Traced(e)'
  PROVE  \A e \in Event : Traced(e) => Traced(e)'
<1>1. SUFFICES ASSUME NEW e \in Event, Traced(e), ~HeldBy(c, e), ~(queue'[e] < queue[e]) PROVE Traced(e)'
  OBVIOUS
<1>2. queue[e] \in Nat /\ queue'[e] \in Nat
  BY DEF Inv, TypeOK
<1>3. CASE queue[e] > 0
  BY <1>1, <1>2, <1>3 DEF Traced
<1>4. CASE InFlight(e)
  <2>1. PICK d \in Consumer : HeldBy(d, e)
    BY <1>4 DEF InFlight, HeldBy
  <2>2. handler'[d] = handler[d]
    BY <1>1, <2>1 DEF Others
  <2> QED
    BY <2>1, <2>2 DEF Traced, InFlight, HeldBy
<1>5. CASE e \in dead
  BY <1>5 DEF Traced
<1>6. CASE Recipients[e] \subseteq Recorded(e)
  BY <1>6, RecordsStay DEF Traced
<1> QED
  BY <1>1, <1>3, <1>4, <1>5, <1>6 DEF Traced

(* A row's own record, but for its status, and c's claim on it stay or end *)
SameCounts(id) ==
  /\ id \in DOMAIN rows
  /\ (rows'[id].asked <=> rows[id].asked) /\ rows'[id].again = rows[id].again
  /\ rows'[id].attempts = rows[id].attempts
  /\ rows'[id].sends = rows[id].sends /\ rows'[id].mailed = rows[id].mailed
ClaimsNoMore(c, id) ==
  /\ Keeps(c, id)' => Keeps(c, id)
  /\ Turns(c, id)' => Turns(c, id) /\ handler'[c].pc = handler[c].pc /\ handler'[c].counted = handler[c].counted

LEMMA RowKept ==
  ASSUME Inv, NEW c \in Consumer, Others(c), NEW id \in RowId, SameCounts(id), ClaimsNoMore(c, id)
  PROVE  RowOK(id)'
<1>1. RowOK(id)
  BY DEF Inv, SameCounts
<1>2. \A d \in Consumer :
        /\ Keeps(d, id)' => Keeps(d, id)
        /\ Turns(d, id)' => Turns(d, id) /\ handler'[d].pc = handler[d].pc /\ handler'[d].counted = handler[d].counted
  BY DEF Others, ClaimsNoMore, Keeps, Turns
<1>3. SUFFICES ASSUME ~rows'[id].asked PROVE RowOK(id)'
  BY DEF RowOK
<1>4. ~rows[id].asked
  BY <1>3 DEF SameCounts
<1>5. \A d \in Consumer :
        /\ Keeps(d, id)' => Unsent(rows[id])'
        /\ Turns(d, id)' =>
             /\ rows'[id].attempts = handler'[d].counted
             /\ handler'[d].pc # "sent" => rows'[id].mailed = 0
             /\ handler'[d].pc = "send" => rows'[id].sends < handler'[d].counted
  BY <1>1, <1>2, <1>4 DEF RowOK, SameCounts, Unsent
<1>6. \A d, f \in Consumer : d # f =>
        ~((Keeps(d, id) \/ Turns(d, id))' /\ (Keeps(f, id) \/ Turns(f, id))')
  BY <1>1, <1>2, <1>4 DEF RowOK
<1> QED
  BY <1>1, <1>4, <1>5, <1>6 DEF RowOK, SameCounts

(* A handler works on: the message stays with it *)
WorksOn(c) ==
  /\ Others(c) /\ handler' \in [Consumer -> Handling \cup {Idle}]
  /\ handler[c] \in Handling /\ handler'[c] \in Handling
  /\ handler'[c].event = handler[c].event /\ handler'[c].resend = handler[c].resend
  /\ handler'[c].linked = handler[c].linked
  /\ UNCHANGED <<outbox, relay, queue, dead, asking, faults, resends, copies>>

RowsTyped == DOMAIN rows' \subseteq RowId /\ rows' \in [DOMAIN rows' -> Row]

LEMMA WorkOK ==
  ASSUME Inv, NEW c \in Consumer, RowsGrow, RowsTyped, WorksOn(c),
         handler'[c].mine \cup {handler'[c].row} \subseteq DOMAIN rows' \cup {None},
         HandlerOK(c)', \A id \in DOMAIN rows' : RowOK(id)'
  PROVE  Inv'
<1>1. TypeOK /\ queue' = queue /\ queue \in [Event -> Nat]
  BY DEF Inv, TypeOK, WorksOn
<1>2. \A e \in Event : HeldBy(c, e) => Traced(e)'
  BY HandlingIsNotIdle DEF WorksOn, HeldBy, Traced, InFlight
<1>3. \A e \in Event : Traced(e) => Traced(e)'
  BY <1>1, <1>2, TraceStays DEF WorksOn
<1>4. /\ \A r \in Relay : RelayOK(r)'
      /\ BatchesAreApart'
      /\ \A e \in Event : EventOK(e)'
      /\ \A d \in Consumer : HandlerOK(d)'
  BY <1>3, OutboxSideKept, OtherHandlersOK DEF WorksOn
<1>5. TypeOK'
  <2>1. \A d \in Consumer : handler'[d] # Idle =>
          handler'[d].mine \cup {handler'[d].row, handler'[d].resend} \subseteq DOMAIN rows' \cup {None}
    <3>1. TAKE d \in Consumer
    <3>2. CASE d = c
      <4>1. handler[c].resend \in DOMAIN rows \cup {None}
        BY <1>1, HandlingIsNotIdle DEF TypeOK, WorksOn
      <4> QED
        BY <3>2, <4>1 DEF WorksOn, RowsGrow
    <3>3. CASE d # c
      BY <1>1, <3>3 DEF TypeOK, WorksOn, Others, RowsGrow
    <3> QED
      BY <3>2, <3>3
  <2> QED
    BY <1>1, <2>1 DEF TypeOK, WorksOn, RowsTyped, RowsGrow
<1> QED
  BY <1>4, <1>5 DEF Inv

(* The rows as they are, and as they become when one of them is written *)
LEMMA RowsAre ==
  ASSUME Inv
  PROVE  /\ DOMAIN rows \subseteq RowId /\ rows = [id \in DOMAIN rows |-> rows[id]]
         /\ \A id \in DOMAIN rows : rows[id] \in Row
BY DEF Inv, TypeOK

LEMMA LookUpOK ==
  ASSUME Inv, NEW c \in Consumer, LookUp(c)
  PROVE  Inv'
<1>1. /\ handler \in [Consumer -> Handling \cup {Idle}]
      /\ handler[c] \in Handling /\ handler[c].pc = "lookup" /\ Recipients[handler[c].event] \subseteq User
  BY MailAssumption DEF LookUp, Busy, Inv, TypeOK, Handling
<1>2. /\ WorksOn(c) /\ rows' = rows
      /\ handler'[c].pc = "rows" /\ handler'[c].mine = handler[c].mine /\ handler'[c].row = handler[c].row
      /\ handler'[c].todo = Recipients[handler[c].event] \ Recorded(handler[c].event)
  <2>1. Unrecorded(handler[c].event) \in SUBSET User
    BY <1>1 DEF Unrecorded
  <2> QED
    BY <1>1, <2>1 DEF LookUp, WorksOn, Others, Handling, Unrecorded
<1>3. RowsGrow /\ RowsTyped
  BY <1>2, RowsAre DEF RowsGrow, RowsTyped
<1>4. HandlerOK(c) /\ handler[c] # Idle
  BY <1>1, HandlingIsNotIdle DEF Inv
<1>5. HandlerOK(c)'
  <2>1. Recorded(handler[c].event)' = Recorded(handler'[c].event)
    BY <1>2 DEF Recorded, RowsOf
  <2> QED
    BY <1>1, <1>2, <1>4, <2>1 DEF HandlerOK, WorksOn, Turn
<1>6. handler'[c].mine \cup {handler'[c].row} \subseteq DOMAIN rows' \cup {None}
  BY <1>2, <1>4 DEF Inv, TypeOK
<1>7. \A id \in DOMAIN rows' : RowOK(id)'
  <2>1. TAKE id \in DOMAIN rows'
  <2>2. SameCounts(id) /\ ClaimsNoMore(c, id) /\ id \in RowId
    BY <1>2, <1>4, RowsAre DEF SameCounts, ClaimsNoMore, Keeps, Turns, Turn
  <2> QED
    BY <1>2, <2>2, RowKept DEF WorksOn
<1> QED
  BY <1>2, <1>3, <1>5, <1>6, <1>7, WorkOK

LEMMA CreateRowOK ==
  ASSUME Inv, NEW c \in Consumer, CreateRow(c)
  PROVE  Inv'
<1>1. /\ handler \in [Consumer -> Handling \cup {Idle}] /\ HandlerOK(c)
      /\ handler[c] \in Handling /\ handler[c].pc = "rows" /\ handler[c] # Idle
  BY DEF CreateRow, Busy, Inv, TypeOK
<1>2. PICK u \in handler[c].todo, new \in RowId :
        /\ new.event = handler[c].event /\ new.user = u /\ new \notin DOMAIN rows
        /\ rows' = [x \in DOMAIN rows \cup {new} |-> IF x = new THEN NewRow ELSE rows[x]]
        /\ handler' = [handler EXCEPT ![c].todo = @ \ {u}, ![c].mine = @ \cup {new}]
  <2>1. PICK u \in handler[c].todo, n \in 1..MaxCopies :
          LET id == [event |-> handler[c].event, user |-> u, copy |-> n]
          IN /\ id \notin DOMAIN rows
             /\ rows' = [x \in DOMAIN rows \cup {id} |-> IF x = id THEN NewRow ELSE rows[x]]
             /\ handler' = [handler EXCEPT ![c].todo = @ \ {u}, ![c].mine = @ \cup {id}]
    BY DEF CreateRow
  <2>2. [event |-> handler[c].event, user |-> u, copy |-> n] \in RowId
    BY <1>1, <2>1 DEF RowId, Handling
  <2> QED
    BY <2>1, <2>2
<1>3. /\ DOMAIN rows' = DOMAIN rows \cup {new}
      /\ rows'[new] = NewRow /\ \A id \in DOMAIN rows : rows'[id] = rows[id]
      /\ rows' = [id \in DOMAIN rows' |-> rows'[id]]
  BY <1>2
<1>4. RowsGrow /\ RowsTyped
  <2>1. NewRow \in Row
    BY DEF NewRow, Row
  <2>2. \A id \in DOMAIN rows' : rows'[id] \in Row /\ id \in RowId
    BY <1>2, <1>3, <2>1, RowsAre
  <2> QED
    BY <1>3, <2>2 DEF RowsGrow, RowsTyped
<1>5. /\ WorksOn(c) /\ handler'[c].pc = "rows" /\ handler'[c].row = handler[c].row
      /\ handler'[c].mine = handler[c].mine \cup {new} /\ handler'[c].todo = handler[c].todo \ {u}
  <2>1. UNCHANGED <<outbox, relay, queue, dead, asking, faults, resends, copies>>
    BY DEF CreateRow
  <2>2. handler'[c] = [handler[c] EXCEPT !.todo = @ \ {u}, !.mine = @ \cup {new}]
    BY <1>1, <1>2
  <2>3. Others(c) /\ handler' \in [Consumer -> Handling \cup {Idle}]
    <3>1. handler'[c] \in Handling
      BY <1>1, <1>2, <2>2 DEF Handling
    <3> QED
      BY <1>1, <1>2, <3>1 DEF Others
  <2> QED
    BY <1>1, <1>2, <2>1, <2>2, <2>3 DEF WorksOn, Handling
<1>6. HandlerOK(c)'
  <2>1. Recorded(handler[c].event) \cup {u} \subseteq Recorded(handler[c].event)'
    BY <1>2, <1>3, <1>5 DEF Recorded, RowsOf, WorksOn
  <2> QED
    BY <1>1, <1>3, <1>4, <1>5, <2>1 DEF HandlerOK, WorksOn, Turn, RowsGrow
<1>7. handler'[c].mine \cup {handler'[c].row} \subseteq DOMAIN rows' \cup {None}
  BY <1>1, <1>3, <1>5 DEF Inv, TypeOK
<1>8. \A id \in DOMAIN rows' : RowOK(id)'
  <2>1. ASSUME NEW id \in DOMAIN rows PROVE RowOK(id)'
    <3>1. SameCounts(id) /\ ClaimsNoMore(c, id) /\ id \in RowId
      BY <1>1, <1>2, <1>3, <1>5, RowsAre DEF SameCounts, ClaimsNoMore, Keeps, Turns, Turn
    <3> QED
      BY <1>5, <3>1, RowKept DEF WorksOn
  <2>2. RowOK(new)'
    (* nobody had a claim on a row that was not there *)
    <3>1. \A d \in Consumer \ {c} : ~Keeps(d, new)' /\ ~Turns(d, new)'
      BY <1>2, <1>3, <1>5 DEF Inv, HandlerOK, Keeps, Turns, WorksOn, Others
    <3>2. ~Turns(c, new)'
      BY <1>5 DEF Turns, Turn
    <3>3. rows'[new].again = 0 /\ rows'[new].attempts = 0 /\ rows'[new].sends = 0 /\ rows'[new].mailed = 0
      BY <1>3 DEF NewRow
    <3> QED
      BY <3>1, <3>2, <3>3 DEF RowOK, Unsent
  <2> QED
    BY <1>3, <2>1, <2>2
<1> QED
  BY <1>4, <1>5, <1>6, <1>7, <1>8, WorkOK

(* One row is written: the others, and that somebody asked for it, stay *)
Written(id) ==
  /\ id \in DOMAIN rows /\ DOMAIN rows' = DOMAIN rows
  /\ rows' = [x \in DOMAIN rows' |-> rows'[x]]
  /\ \A x \in DOMAIN rows \ {id} : rows'[x] = rows[x]
  /\ rows'[id] \in Row /\ (rows'[id].asked <=> rows[id].asked)

LEMMA WrittenRows ==
  ASSUME Inv, NEW id \in RowId, Written(id)
  PROVE  RowsGrow /\ RowsTyped /\ \A e \in Event : Recorded(e)' = Recorded(e)
<1>1. \A x \in DOMAIN rows' : rows'[x] \in Row /\ x \in RowId
  BY RowsAre DEF Written
<1> QED
  BY <1>1 DEF Written, RowsGrow, RowsTyped, Recorded, RowsOf

(* c writes the row at hand; it has no other claim on a row than before *)
LEMMA OtherRowsOK ==
  ASSUME Inv, NEW c \in Consumer, Others(c), NEW id \in RowId, Written(id),
         \A x \in DOMAIN rows \ {id} : ClaimsNoMore(c, x)
  PROVE  \A x \in DOMAIN rows' \ {id} : RowOK(x)'
<1>1. TAKE x \in DOMAIN rows' \ {id}
<1>2. SameCounts(x) /\ ClaimsNoMore(c, x) /\ x \in RowId
  BY RowsAre DEF Written, SameCounts
<1> QED
  BY <1>2, RowKept

LEMMA SkipRowOK ==
  ASSUME Inv, NEW c \in Consumer, NEW id \in DOMAIN rows, SkipRow(c, id)
  PROVE  Inv'
<1>1. /\ handler \in [Consumer -> Handling \cup {Idle}] /\ HandlerOK(c) /\ id \in RowId
      /\ handler[c] \in Handling /\ handler[c].pc = "rows" /\ handler[c] # Idle
  BY RowsAre DEF SkipRow, Delivers, Busy, Inv, TypeOK
<1>2. /\ Written(id) /\ SameCounts(id)
      /\ rows'[id].attempts = rows[id].attempts
  BY RowsAre DEF SkipRow, Written, SameCounts, Row
<1>3. /\ WorksOn(c) /\ handler'[c].pc = "rows" /\ handler'[c].row = handler[c].row
      /\ handler'[c].mine = handler[c].mine \ {id} /\ handler'[c].todo = handler[c].todo
  BY <1>1 DEF SkipRow, WorksOn, Others, Handling
<1>4. RowsGrow /\ RowsTyped /\ handler[c].event \in Event /\ Recorded(handler[c].event)' = Recorded(handler[c].event)
  BY <1>1, <1>2, <1>3, WrittenRows DEF Handling, WorksOn
<1>5. HandlerOK(c)'
  BY <1>1, <1>2, <1>3, <1>4 DEF HandlerOK, WorksOn, Turn, Written
<1>6. handler'[c].mine \cup {handler'[c].row} \subseteq DOMAIN rows' \cup {None}
  BY <1>1, <1>2, <1>3 DEF Inv, TypeOK, Written
<1>7. \A x \in DOMAIN rows' : RowOK(x)'
  <2>1. \A x \in DOMAIN rows : ClaimsNoMore(c, x)
    BY <1>1, <1>3 DEF ClaimsNoMore, Keeps, Turns, Turn
  <2>2. RowOK(id)'
    BY <1>1, <1>2, <1>3, <2>1, RowKept DEF WorksOn
  <2>3. \A x \in DOMAIN rows' \ {id} : RowOK(x)'
    BY <1>1, <1>2, <1>3, <2>1, OtherRowsOK DEF WorksOn
  <2> QED
    BY <2>2, <2>3
<1> QED
  BY <1>3, <1>4, <1>5, <1>6, <1>7, WorkOK

LEMMA BeginRowOK ==
  ASSUME Inv, NEW c \in Consumer, NEW id \in DOMAIN rows, BeginRow(c, id)
  PROVE  Inv'
<1>1. /\ handler \in [Consumer -> Handling \cup {Idle}] /\ HandlerOK(c) /\ id \in RowId
      /\ handler[c] \in Handling /\ handler[c].pc = "rows" /\ handler[c] # Idle /\ id \in handler[c].mine
  BY RowsAre DEF BeginRow, Delivers, Busy, Inv, TypeOK
<1>2. /\ Written(id) /\ SameCounts(id) /\ rows[id].attempts \in Nat
  BY RowsAre DEF BeginRow, Written, SameCounts, Row
<1>3. /\ WorksOn(c) /\ handler'[c].pc = "count" /\ handler'[c].row = id
      /\ handler'[c].mine = handler[c].mine \ {id} /\ handler'[c].todo = handler[c].todo
      /\ handler'[c].counted = rows[id].attempts
  <2>1. handler'[c] = [pc |-> "count", event |-> handler[c].event, resend |-> handler[c].resend,
                       linked |-> handler[c].linked, todo |-> handler[c].todo, mine |-> handler[c].mine \ {id},
                       row |-> id, counted |-> rows[id].attempts, sends |-> 0]
    BY <1>1 DEF BeginRow, Handling
  <2>2. handler'[c] \in Handling
    BY <1>1, <1>2, <2>1 DEF Handling
  <2>3. Others(c) /\ handler' \in [Consumer -> Handling \cup {Idle}]
    BY <1>1, <2>2 DEF BeginRow, Others
  <2>4. UNCHANGED <<outbox, relay, queue, dead, asking, faults, resends, copies>>
    BY DEF BeginRow
  <2>5. /\ handler'[c].pc = "count" /\ handler'[c].row = id
        /\ handler'[c].mine = handler[c].mine \ {id} /\ handler'[c].todo = handler[c].todo
        /\ handler'[c].counted = rows[id].attempts
        /\ handler'[c].event = handler[c].event /\ handler'[c].resend = handler[c].resend
        /\ handler'[c].linked = handler[c].linked
    BY <1>1, <2>1 DEF Handling
  <2> QED
    BY <1>1, <2>2, <2>3, <2>4, <2>5 DEF WorksOn
<1>4. RowsGrow /\ RowsTyped /\ handler[c].event \in Event /\ Recorded(handler[c].event)' = Recorded(handler[c].event)
  BY <1>1, <1>2, <1>3, WrittenRows DEF Handling, WorksOn
<1>5. HandlerOK(c)'
  BY <1>1, <1>2, <1>3, <1>4 DEF HandlerOK, WorksOn, Turn, Written
<1>6. handler'[c].mine \cup {handler'[c].row} \subseteq DOMAIN rows' \cup {None}
  BY <1>1, <1>2, <1>3 DEF Inv, TypeOK, Written
<1>7. \A x \in DOMAIN rows' : RowOK(x)'
  <2>1. \A x \in DOMAIN rows \ {id} : ClaimsNoMore(c, x)
    BY <1>1, <1>3 DEF ClaimsNoMore, Keeps, Turns, Turn
  <2>2. RowOK(id)'
    (* the claim on the row stays c's: it was to deliver it and is at it now *)
    <3>1. RowOK(id) /\ Keeps(c, id)
      BY <1>1 DEF Inv, Keeps
    <3>2. ~Keeps(c, id)'
      BY <1>3 DEF Keeps
    <3>3. \A d \in Consumer \ {c} : (Keeps(d, id)' <=> Keeps(d, id)) /\ (Turns(d, id)' <=> Turns(d, id))
      BY <1>3 DEF Keeps, Turns, WorksOn, Others
    <3>4. ~rows[id].asked => \A d \in Consumer \ {c} : ~Keeps(d, id)' /\ ~Turns(d, id)'
      BY <3>1, <3>3 DEF RowOK
    <3>5. ~rows[id].asked => Unsent(rows[id])
      BY <3>1 DEF RowOK
    <3>6. SUFFICES ASSUME ~rows[id].asked PROVE RowOK(id)'
      BY <1>2 DEF RowOK, SameCounts
    <3> QED
      BY <1>2, <1>3, <3>1, <3>2, <3>4, <3>5, <3>6 DEF RowOK, SameCounts, Unsent
  <2>3. \A x \in DOMAIN rows' \ {id} : RowOK(x)'
    BY <1>1, <1>2, <1>3, <2>1, OtherRowsOK DEF WorksOn
  <2> QED
    BY <2>2, <2>3
<1> QED
  BY <1>3, <1>4, <1>5, <1>6, <1>7, WorkOK

(* The turn of one row: what a row nobody asked for must say after a step *)
Tells(row, h) ==
  /\ row.sends <= row.attempts /\ row.mailed <= 1
  /\ h.pc \in Turn =>
       /\ row.attempts = h.counted
       /\ h.pc # "sent" => row.mailed = 0
       /\ h.pc = "send" => row.sends < h.counted

LEMMA AtTheRow ==
  ASSUME Inv, NEW c \in Consumer, handler[c] # Idle, handler[c].pc \in Turn
  PROVE  /\ handler \in [Consumer -> Handling \cup {Idle}] /\ handler[c] \in Handling /\ HandlerOK(c)
         /\ handler[c].row \in DOMAIN rows /\ handler[c].row \in RowId /\ rows[handler[c].row] \in Row
         /\ RowOK(handler[c].row)
         /\ ~rows[handler[c].row].asked => Tells(rows[handler[c].row], handler[c])
<1>1. /\ handler \in [Consumer -> Handling \cup {Idle}] /\ HandlerOK(c) /\ handler[c] \in Handling
      /\ handler[c].row \in DOMAIN rows
  BY DEF Inv, TypeOK, HandlerOK
<1>2. handler[c].row \in RowId /\ RowOK(handler[c].row) /\ rows[handler[c].row] \in Row
  BY <1>1, RowsAre DEF Inv
<1>3. Turns(c, handler[c].row)
  BY DEF Turns
<1>4. ~rows[handler[c].row].asked => Tells(rows[handler[c].row], handler[c])
  BY <1>2, <1>3 DEF RowOK, Tells
<1> QED
  BY <1>1, <1>2, <1>4

LEMMA TurnOK ==
  ASSUME Inv, NEW c \in Consumer, handler[c] # Idle, handler[c].pc \in Turn,
         NEW id \in RowId, id = handler[c].row, Written(id), rows'[id].again = rows[id].again, WorksOn(c),
         handler'[c].mine = handler[c].mine, handler'[c].todo = handler[c].todo, handler'[c].pc # "lookup",
         handler'[c].row \in {id, None}, handler'[c].pc \in Turn => handler'[c].row = id,
         ~rows[id].asked => Tells(rows'[id], handler'[c])
  PROVE  Inv'
<1>1. HandlerOK(c) /\ handler[c] \in Handling /\ RowOK(id)
  BY AtTheRow
<1>2. RowsGrow /\ RowsTyped /\ handler[c].event \in Event /\ Recorded(handler[c].event)' = Recorded(handler[c].event)
  BY <1>1, WrittenRows DEF Handling, WorksOn
<1>3. HandlerOK(c)'
  BY <1>1, <1>2 DEF HandlerOK, WorksOn, Turn, Written
<1>4. handler'[c].mine \cup {handler'[c].row} \subseteq DOMAIN rows' \cup {None}
  BY <1>1 DEF HandlerOK, Written
<1>5. \A x \in DOMAIN rows \ {id} : ClaimsNoMore(c, x)
  BY <1>1 DEF ClaimsNoMore, Keeps, Turns
<1>6. RowOK(id)'
  <2>1. SUFFICES ASSUME ~rows[id].asked PROVE RowOK(id)'
    BY DEF RowOK, Written
  <2>2. Turns(c, id) /\ ~Keeps(c, id)
    BY <1>1 DEF Turns, Keeps, HandlerOK
  <2>3. \A d \in Consumer \ {c} : ~Keeps(d, id) /\ ~Turns(d, id)
    BY <1>1, <2>1, <2>2 DEF RowOK
  <2>4. \A d \in Consumer \ {c} : ~Keeps(d, id)' /\ ~Turns(d, id)'
    BY <2>3 DEF Keeps, Turns, WorksOn, Others
  <2>5. ~Keeps(c, id)'
    BY <1>1, <2>2 DEF Keeps
  <2>6. rows'[id].again = 0 /\ Tells(rows'[id], handler'[c])
    BY <1>1, <2>1 DEF RowOK
  <2> QED
    BY <2>4, <2>5, <2>6 DEF RowOK, Tells, Turns
<1>7. \A x \in DOMAIN rows' \ {id} : RowOK(x)'
  BY <1>5, OtherRowsOK DEF WorksOn
<1> QED
  BY <1>2, <1>3, <1>4, <1>6, <1>7, WorkOK

LEMMA CountOK ==
  ASSUME Inv, NEW c \in Consumer, Count(c)
  PROVE  Inv'
<1>1. handler[c] # Idle /\ handler[c].pc = "count" /\ handler[c].pc \in Turn
  BY DEF Count, Busy, Turn
<1>2. PICK id \in RowId :
        /\ id = handler[c].row /\ id \in DOMAIN rows /\ rows[id] \in Row
        /\ handler \in [Consumer -> Handling \cup {Idle}] /\ handler[c] \in Handling
        /\ ~rows[id].asked => Tells(rows[id], handler[c])
  BY <1>1, AtTheRow
<1>3. handler[c].counted \in Nat /\ handler[c].sends \in Nat
  BY <1>2 DEF Handling
<1>4. /\ Written(id) /\ rows'[id].again = rows[id].again /\ rows'[id].attempts = handler[c].counted + 1
      /\ rows'[id].sends = rows[id].sends /\ rows'[id].mailed = rows[id].mailed
  <2>1. /\ DOMAIN rows' = DOMAIN rows /\ \A x \in DOMAIN rows \ {id} : rows'[x] = rows[x]
        /\ rows' = [x \in DOMAIN rows' |-> rows'[x]]
        /\ rows'[id] = [rows[id] EXCEPT !.attempts = handler[c].counted + 1]
    BY <1>2, RowsAre DEF Count
  <2> QED
    BY <1>2, <1>3, <2>1 DEF Written, Row
<1>5. handler'[c] = [pc |-> "send", event |-> handler[c].event, resend |-> handler[c].resend,
                     linked |-> handler[c].linked, todo |-> handler[c].todo, mine |-> handler[c].mine,
                     row |-> id, counted |-> handler[c].counted + 1, sends |-> handler[c].sends + 1]
  BY <1>2 DEF Count, Handling
<1>6. WorksOn(c)
  <2>1. handler'[c] \in Handling
    BY <1>2, <1>3, <1>5 DEF Handling
  <2>2. Others(c) /\ handler' \in [Consumer -> Handling \cup {Idle}]
    BY <1>2, <2>1 DEF Count, Others
  <2> QED
    BY <1>2, <1>5, <2>1, <2>2 DEF Count, WorksOn
<1>7. ~rows[id].asked => Tells(rows'[id], handler'[c])
  <2>1. rows[id].sends \in Nat /\ rows[id].attempts \in Nat
    BY <1>2 DEF Row
  <2> QED
    BY <1>1, <1>2, <1>3, <1>4, <1>5, <2>1 DEF Tells, Turn
<1> QED
  BY <1>1, <1>2, <1>4, <1>5, <1>6, <1>7, TurnOK

LEMMA SendOK ==
  ASSUME Inv, NEW c \in Consumer, Send(c)
  PROVE  Inv'
<1>1. handler[c] # Idle /\ handler[c].pc = "send" /\ handler[c].pc \in Turn
  BY DEF Send, Busy, Turn
<1>2. PICK id \in RowId :
        /\ id = handler[c].row /\ id \in DOMAIN rows /\ rows[id] \in Row
        /\ handler \in [Consumer -> Handling \cup {Idle}] /\ handler[c] \in Handling
        /\ ~rows[id].asked => Tells(rows[id], handler[c])
  BY <1>1, AtTheRow
<1>3. PICK pc \in {"sent", "failed", "count"}, k \in {0, 1} :
        /\ pc # "sent" => k = 0
        /\ rows' = [rows EXCEPT ![id].sends = @ + 1, ![id].mailed = @ + k]
        /\ handler' = [handler EXCEPT ![c].pc = pc]
  BY <1>2 DEF Send
<1>4. /\ Written(id) /\ rows'[id].again = rows[id].again /\ rows'[id].attempts = rows[id].attempts
      /\ rows'[id].sends = rows[id].sends + 1 /\ rows'[id].mailed = rows[id].mailed + k
  <2>1. /\ DOMAIN rows' = DOMAIN rows /\ \A x \in DOMAIN rows \ {id} : rows'[x] = rows[x]
        /\ rows' = [x \in DOMAIN rows' |-> rows'[x]]
        /\ rows'[id] = [rows[id] EXCEPT !.sends = @ + 1, !.mailed = @ + k]
    BY <1>2, <1>3, RowsAre
  <2>2. rows[id].sends + 1 \in Nat /\ rows[id].mailed + k \in Nat
    BY <1>2, <1>3 DEF Row
  <2> QED
    BY <1>2, <2>1, <2>2 DEF Written, Row
<1>5. WorksOn(c) /\ handler'[c] = [handler[c] EXCEPT !.pc = pc]
  <2>1. handler'[c] = [handler[c] EXCEPT !.pc = pc]
    BY <1>2, <1>3
  <2>2. handler'[c] \in Handling
    BY <1>2, <2>1 DEF Handling
  <2>3. Others(c) /\ handler' \in [Consumer -> Handling \cup {Idle}]
    BY <1>2, <1>3, <2>2 DEF Others
  <2> QED
    BY <1>2, <2>1, <2>2, <2>3 DEF Send, WorksOn, Handling
<1>6. ~rows[id].asked => Tells(rows'[id], handler'[c])
  <2>1. /\ rows[id].sends \in Nat /\ rows[id].mailed \in Nat /\ rows[id].attempts \in Nat
        /\ handler[c].counted \in Nat
        /\ handler'[c].pc = pc /\ handler'[c].counted = handler[c].counted
    BY <1>2, <1>5 DEF Row, Handling
  <2> QED
    BY <1>1, <1>2, <1>3, <1>4, <2>1 DEF Tells, Turn
<1>7. /\ handler'[c].pc = pc /\ handler'[c].mine = handler[c].mine /\ handler'[c].todo = handler[c].todo
      /\ handler'[c].row = id
  BY <1>2, <1>5 DEF Handling
<1> QED
  BY <1>1, <1>2, <1>4, <1>5, <1>6, <1>7, TurnOK

LEMMA EndRowOK ==
  ASSUME Inv, NEW c \in Consumer, EndRow(c)
  PROVE  Inv'
<1>1. handler[c] # Idle /\ handler[c].pc \in {"sent", "failed"} /\ handler[c].pc \in Turn
  BY DEF EndRow, Busy, Turn
<1>2. PICK id \in RowId :
        /\ id = handler[c].row /\ id \in DOMAIN rows /\ rows[id] \in Row
        /\ handler \in [Consumer -> Handling \cup {Idle}] /\ handler[c] \in Handling
        /\ ~rows[id].asked => Tells(rows[id], handler[c])
  BY <1>1, AtTheRow
<1>3. PICK status \in {"completed", "failed"} :
        rows' = [rows EXCEPT ![id].status = status, ![id].attempts = handler[c].counted]
  <2>1. PICK end \in {<<"sent", "completed">>, <<"failed", "failed">>} :
          rows' = [rows EXCEPT ![id].status = end[2], ![id].attempts = handler[c].counted]
    BY <1>2 DEF EndRow
  <2>2. end[2] \in {"completed", "failed"}
    BY <2>1
  <2> QED
    BY <2>1, <2>2
<1>4. /\ Written(id) /\ rows'[id].again = rows[id].again /\ rows'[id].attempts = handler[c].counted
      /\ rows'[id].sends = rows[id].sends /\ rows'[id].mailed = rows[id].mailed
  <2>1. /\ DOMAIN rows' = DOMAIN rows /\ \A x \in DOMAIN rows \ {id} : rows'[x] = rows[x]
        /\ rows' = [x \in DOMAIN rows' |-> rows'[x]]
        /\ rows'[id] = [rows[id] EXCEPT !.status = status, !.attempts = handler[c].counted]
    BY <1>2, <1>3, RowsAre
  <2>2. handler[c].counted \in Nat
    BY <1>2 DEF Handling
  <2> QED
    BY <1>2, <2>1, <2>2 DEF Written, Row
<1>5. /\ handler'[c].pc = "rows" /\ handler'[c].row = None
      /\ handler'[c].mine = handler[c].mine /\ handler'[c].todo = handler[c].todo
      /\ WorksOn(c)
  <2>1. handler'[c] = [handler[c] EXCEPT !.pc = "rows", !.row = None]
    BY <1>2 DEF EndRow
  <2>2. handler'[c] \in Handling
    BY <1>2, <2>1 DEF Handling
  <2>3. Others(c) /\ handler' \in [Consumer -> Handling \cup {Idle}]
    BY <1>2, <2>2 DEF EndRow, Others
  <2> QED
    BY <1>2, <2>1, <2>2, <2>3 DEF EndRow, WorksOn, Handling
<1>6. ~rows[id].asked => Tells(rows'[id], handler'[c])
  BY <1>1, <1>2, <1>4, <1>5 DEF Tells, Turn
<1> QED
  BY <1>1, <1>2, <1>4, <1>5, <1>6, TurnOK DEF Turn

-----------------------------------------------------------------------------
(* A consumer takes a message, or lets go of it: rows are only counted as     *)
(* having one more or one fewer resend on the way, and those were asked for   *)
MessageMoves(c) ==
  /\ Others(c) /\ handler' \in [Consumer -> Handling \cup {Idle}]
  /\ UNCHANGED <<outbox, relay, asking, resends, copies>>
  /\ faults' = faults \/ (faults' = faults + 1 /\ faults < MaxFaults)
  /\ queue' \in [Event -> Nat] /\ dead \subseteq dead' /\ dead' \subseteq Event
OnlyAskedChange(c) ==
  /\ DOMAIN rows' = DOMAIN rows
  /\ \A id \in DOMAIN rows :
       \/ rows'[id] = rows[id] /\ ClaimsNoMore(c, id)
       \/ rows[id].asked /\ rows'[id].asked

LEMMA MessageOK ==
  ASSUME Inv, NEW c \in Consumer, MessageMoves(c), RowsTyped, OnlyAskedChange(c), HandlerOK(c)',
         handler'[c] # Idle =>
           handler'[c].mine \cup {handler'[c].row, handler'[c].resend} \subseteq DOMAIN rows \cup {None},
         \A e \in Event : queue'[e] < queue[e] \/ HeldBy(c, e) => Traced(e)'
  PROVE  Inv'
<1>1. TypeOK /\ RowsGrow /\ faults \in Nat
  BY MailAssumption DEF Inv, TypeOK, RowsGrow, OnlyAskedChange
<1>2. \A e \in Event : Traced(e) => Traced(e)'
  BY <1>1, TraceStays DEF MessageMoves
<1>3. /\ \A r \in Relay : RelayOK(r)'
      /\ BatchesAreApart'
      /\ \A e \in Event : EventOK(e)'
  BY <1>1, <1>2, OutboxSideKept DEF MessageMoves
<1>4. \A d \in Consumer : HandlerOK(d)'
  BY <1>1, OtherHandlersOK DEF MessageMoves
<1>5. \A id \in DOMAIN rows' : RowOK(id)'
  <2>1. TAKE id \in DOMAIN rows'
  <2>2. CASE rows'[id].asked
    BY <2>2 DEF RowOK
  <2>3. CASE ~rows'[id].asked
    <3>1. SameCounts(id) /\ ClaimsNoMore(c, id) /\ id \in RowId
      BY <2>3, RowsAre DEF OnlyAskedChange, SameCounts
    <3> QED
      BY <3>1, RowKept DEF MessageMoves
  <2> QED
    BY <2>2, <2>3
<1>6. TypeOK'
  <2>1. \A d \in Consumer : handler'[d] # Idle =>
          handler'[d].mine \cup {handler'[d].row, handler'[d].resend} \subseteq DOMAIN rows' \cup {None}
    BY <1>1 DEF TypeOK, MessageMoves, Others, OnlyAskedChange
  <2>2. faults' \in 0..MaxFaults
    BY <1>1, MailAssumption DEF TypeOK, MessageMoves
  <2> QED
    BY <1>1, <2>1, <2>2 DEF TypeOK, MessageMoves, RowsTyped, OnlyAskedChange
<1> QED
  BY <1>3, <1>4, <1>5, <1>6 DEF Inv

LEMMA AckOK ==
  ASSUME Inv, NEW c \in Consumer, Ack(c)
  PROVE  Inv'
<1>1. /\ TypeOK /\ HandlerOK(c) /\ handler[c] # Idle /\ handler[c] \in Handling
      /\ handler[c].pc = "rows" /\ handler[c].todo = {}
      /\ handler'[c] = Idle /\ queue' = queue /\ rows' = rows
  BY DEF Ack, Busy, Inv, TypeOK
<1>2. MessageMoves(c) /\ RowsTyped /\ OnlyAskedChange(c) /\ HandlerOK(c)'
  <2>1. MessageMoves(c)
    BY <1>1 DEF Ack, MessageMoves, Others, TypeOK
  <2>2. \A id \in DOMAIN rows : ClaimsNoMore(c, id)
    BY <1>1 DEF ClaimsNoMore, Keeps, Turns
  <2>3. RowsTyped /\ OnlyAskedChange(c)
    BY <1>1, <2>2, RowsAre DEF RowsTyped, OnlyAskedChange
  <2>4. HandlerOK(c)'
    BY <1>1 DEF HandlerOK
  <2> QED
    BY <2>1, <2>3, <2>4
(* the message may go: every recipient is recorded *)
<1>3. \A e \in Event : HeldBy(c, e) => Traced(e)'
  BY <1>1 DEF HeldBy, HandlerOK, Traced, Recorded, RowsOf
<1>4. \A e \in Event : ~(queue'[e] < queue[e])
  BY <1>1 DEF TypeOK
<1> QED
  BY <1>1, <1>2, <1>3, <1>4, MessageOK

LEMMA NewHandlingIs ==
  ASSUME NEW pc \in {"lookup", "rows"}, NEW e \in Event, NEW id \in RowId \cup {None}, NEW mine \in SUBSET RowId
  PROVE  /\ NewHandling(pc, e, id, mine) \in Handling /\ NewHandling(pc, e, id, mine) # Idle
         /\ NewHandling(pc, e, id, mine).pc = pc /\ NewHandling(pc, e, id, mine).event = e
         /\ NewHandling(pc, e, id, mine).resend = id /\ NewHandling(pc, e, id, mine).linked
         /\ NewHandling(pc, e, id, mine).mine = mine /\ NewHandling(pc, e, id, mine).row = None
BY DEF NewHandling, Handling, Idle

LEMMA ReceiveEventOK ==
  ASSUME Inv, NEW c \in Consumer, NEW e \in Event, ReceiveEvent(c, e)
  PROVE  Inv'
<1>1. /\ TypeOK /\ handler[c] = Idle /\ rows' = rows /\ queue \in [Event -> Nat]
      /\ handler'[c] = NewHandling("lookup", e, None, {})
      /\ queue' \in [Event -> Nat] /\ \A d \in Event \ {e} : queue'[d] = queue[d]
  BY DEF ReceiveEvent, Inv, TypeOK
<1>2. /\ handler'[c] \in Handling /\ handler'[c] # Idle /\ handler'[c].pc = "lookup" /\ handler'[c].event = e
      /\ handler'[c].resend = None /\ handler'[c].linked /\ handler'[c].mine = {} /\ handler'[c].row = None
  BY <1>1, NewHandlingIs
<1>3. MessageMoves(c)
  BY <1>1, <1>2 DEF ReceiveEvent, MessageMoves, Others, TypeOK
<1>4. RowsTyped /\ OnlyAskedChange(c)
  <2>1. \A id \in DOMAIN rows : ClaimsNoMore(c, id)
    BY <1>2 DEF ClaimsNoMore, Keeps, Turns, Turn
  <2> QED
    BY <1>1, <2>1, RowsAre DEF RowsTyped, OnlyAskedChange
<1>5. HandlerOK(c)'
  BY <1>2 DEF HandlerOK, Turn
(* the message is at hand now *)
<1>6. \A d \in Event : queue'[d] < queue[d] \/ HeldBy(c, d) => Traced(d)'
  <2>1. Traced(e)'
    BY <1>2 DEF Traced, InFlight
  <2>2. \A d \in Event \ {e} : ~(queue'[d] < queue[d])
    BY <1>1
  <2> QED
    BY <1>1, <2>1, <2>2 DEF HeldBy
<1> QED
  BY <1>2, <1>3, <1>4, <1>5, <1>6, MessageOK

LEMMA ReceiveResendOK ==
  ASSUME Inv, NEW c \in Consumer, NEW id \in DOMAIN rows, ReceiveResend(c, id)
  PROVE  Inv'
<1>1. /\ TypeOK /\ handler[c] = Idle /\ queue' = queue /\ queue \in [Event -> Nat]
      /\ handler'[c] = NewHandling("rows", id.event, id, {id})
      /\ id \in RowId /\ id.event \in Event /\ rows[id].again > 0 /\ rows[id] \in Row
  BY RowsAre DEF ReceiveResend, Inv, TypeOK, RowId
<1>2. /\ handler'[c] \in Handling /\ handler'[c] # Idle /\ handler'[c].pc = "rows" /\ handler'[c].event = id.event
      /\ handler'[c].resend = id /\ handler'[c].mine = {id} /\ handler'[c].row = None /\ id # None
  BY <1>1, NewHandlingIs, NoneIsNoRow
<1>3. rows[id].asked
  BY <1>1 DEF Inv, RowOK
<1>4. /\ DOMAIN rows' = DOMAIN rows /\ \A x \in DOMAIN rows \ {id} : rows'[x] = rows[x]
      /\ rows' = [x \in DOMAIN rows' |-> rows'[x]] /\ rows'[id] \in Row /\ rows'[id].asked
  <2>1. /\ DOMAIN rows' = DOMAIN rows /\ \A x \in DOMAIN rows \ {id} : rows'[x] = rows[x]
        /\ rows' = [x \in DOMAIN rows' |-> rows'[x]]
        /\ rows'[id] = [rows[id] EXCEPT !.again = @ - 1]
    BY RowsAre DEF ReceiveResend
  <2>2. rows[id].again - 1 \in Nat
    BY <1>1 DEF Row
  <2> QED
    BY <1>1, <1>3, <2>1, <2>2 DEF Row
<1>5. MessageMoves(c)
  BY <1>1, <1>2 DEF ReceiveResend, MessageMoves, Others, TypeOK
<1>6. RowsTyped
  <2>1. \A x \in DOMAIN rows' : rows'[x] \in Row
    BY <1>4, RowsAre
  <2> QED
    BY <1>4, <2>1, RowsAre DEF RowsTyped
<1>7. OnlyAskedChange(c)
  <2>1. \A x \in DOMAIN rows \ {id} : ClaimsNoMore(c, x)
    BY <1>2 DEF ClaimsNoMore, Keeps, Turns, Turn
  <2> QED
    BY <1>3, <1>4, <2>1 DEF OnlyAskedChange
<1>8. HandlerOK(c)'
  BY <1>2, <1>4 DEF HandlerOK, Turn
<1>9. \A d \in Event : ~(queue'[d] < queue[d]) /\ ~HeldBy(c, d)
  BY <1>1 DEF HeldBy
<1> QED
  BY <1>2, <1>5, <1>6, <1>7, <1>8, <1>9, MessageOK

(* What the broker takes back waits there again *)
LEMMA RequeueIs ==
  ASSUME Inv, NEW c \in Consumer, handler[c] # Idle, Requeue(c)
  PROVE  /\ queue' \in [Event -> Nat] /\ \A e \in Event : queue'[e] >= queue[e]
         /\ handler[c].resend = None => queue'[handler[c].event] > 0
         /\ RowsTyped /\ DOMAIN rows' = DOMAIN rows
         /\ \A id \in DOMAIN rows : rows'[id] = rows[id] \/ (rows[id].asked /\ rows'[id].asked)
<1>1. queue \in [Event -> Nat] /\ handler[c] \in Handling /\ HandlerOK(c) /\ handler[c].event \in Event
  BY DEF Inv, TypeOK, Handling
<1>2. CASE handler[c].resend = None
  <2>1. queue' = [queue EXCEPT ![handler[c].event] = @ + 1] /\ rows' = rows
    BY <1>2 DEF Requeue
  <2> QED
    BY <1>1, <2>1, RowsAre DEF RowsTyped
<1>3. CASE handler[c].resend # None
  <2>1. PICK id \in DOMAIN rows : id = handler[c].resend /\ rows[id].asked
    BY <1>1, <1>3 DEF HandlerOK
  <2>2. queue' = queue /\ rows' = [rows EXCEPT ![id].again = @ + 1]
    BY <1>3, <2>1 DEF Requeue
  <2>3. /\ DOMAIN rows' = DOMAIN rows /\ \A x \in DOMAIN rows \ {id} : rows'[x] = rows[x]
        /\ rows' = [x \in DOMAIN rows' |-> rows'[x]]
        /\ rows'[id] = [rows[id] EXCEPT !.again = @ + 1]
    BY <2>2, RowsAre
  <2>4. rows[id] \in Row /\ rows[id].again + 1 \in Nat
    BY RowsAre DEF Row
  <2>5. rows'[id] \in Row /\ rows'[id].asked
    BY <2>1, <2>3, <2>4 DEF Row
  <2>6. \A x \in DOMAIN rows' : rows'[x] \in Row
    BY <2>3, <2>5, RowsAre
  <2>7. RowsTyped
    BY <2>3, <2>6, RowsAre DEF RowsTyped
  <2> QED
    BY <1>1, <1>3, <2>1, <2>2, <2>3, <2>5, <2>7
<1> QED
  BY <1>2, <1>3

LEMMA DisconnectOK ==
  ASSUME Inv, NEW c \in Consumer, Disconnect(c)
  PROVE  Inv'
<1>1. /\ TypeOK /\ HandlerOK(c) /\ handler[c] # Idle /\ handler[c] \in Handling /\ handler[c].linked
      /\ Requeue(c)
  BY DEF Disconnect, Inv, TypeOK
<1>2. handler'[c] = [handler[c] EXCEPT !.linked = FALSE]
  BY <1>1 DEF Disconnect, TypeOK
<1>3. /\ handler'[c] \in Handling /\ handler'[c].pc = handler[c].pc /\ handler'[c].event = handler[c].event
      /\ handler'[c].resend = handler[c].resend /\ handler'[c].mine = handler[c].mine
      /\ handler'[c].row = handler[c].row /\ handler'[c].todo = handler[c].todo
      /\ handler'[c].counted = handler[c].counted /\ handler'[c] # Idle
  BY <1>1, <1>2, HandlingIsNotIdle DEF Handling
<1>4. MessageMoves(c)
  BY <1>1, <1>3, RequeueIs DEF Disconnect, Fault, MessageMoves, Others, TypeOK
<1>5. RowsTyped /\ OnlyAskedChange(c)
  <2>1. \A id \in DOMAIN rows : ClaimsNoMore(c, id)
    BY <1>1, <1>3 DEF ClaimsNoMore, Keeps, Turns
  <2> QED
    BY <1>1, <2>1, RequeueIs DEF OnlyAskedChange
<1>6. HandlerOK(c)'
  <2>1. DOMAIN rows' = DOMAIN rows /\ \A id \in DOMAIN rows : rows[id].asked => rows'[id].asked
    BY <1>1, RequeueIs
  <2>2. Recorded(handler[c].event)' = Recorded(handler[c].event)
    BY <1>3, <2>1 DEF Recorded, RowsOf
  <2> QED
    BY <1>1, <1>3, <2>1, <2>2 DEF HandlerOK
<1>7. \A e \in Event : queue'[e] < queue[e] \/ HeldBy(c, e) => Traced(e)'
  <2>1. \A e \in Event : queue[e] \in Nat /\ queue'[e] \in Nat /\ queue'[e] >= queue[e]
    BY <1>1, RequeueIs DEF TypeOK
  <2> QED
    BY <1>1, <2>1, RequeueIs DEF HeldBy, Traced
<1>8. handler'[c].mine \cup {handler'[c].row, handler'[c].resend} \subseteq DOMAIN rows \cup {None}
  BY <1>1, <1>3 DEF TypeOK
<1> QED
  BY <1>4, <1>5, <1>6, <1>7, <1>8, MessageOK

LEMMA LostOK ==
  ASSUME Inv, NEW c \in Consumer, Crash(c) \/ HandlerThrows(c)
  PROVE  Inv'
<1>1. /\ TypeOK /\ handler[c] # Idle /\ handler[c] \in Handling /\ handler[c].event \in Event
      /\ handler'[c] = Idle /\ queue \in [Event -> Nat]
  BY DEF Crash, HandlerThrows, Inv, TypeOK, Handling
<1>2. /\ queue' \in [Event -> Nat] /\ \A e \in Event : queue'[e] >= queue[e]
      /\ RowsTyped /\ DOMAIN rows' = DOMAIN rows
      /\ \A id \in DOMAIN rows : rows'[id] = rows[id] \/ (rows[id].asked /\ rows'[id].asked)
      /\ dead \subseteq dead' /\ dead' \subseteq Event
      /\ handler[c].linked /\ handler[c].resend = None => queue'[handler[c].event] > 0 \/ handler[c].event \in dead'
  <2>1. UNCHANGED rows => RowsTyped
    BY RowsAre DEF RowsTyped
  <2>2. CASE Crash(c)
    <3>1. CASE handler[c].linked
      BY <1>1, <2>2, <3>1, RequeueIs DEF Crash, TypeOK
    <3>2. CASE ~handler[c].linked
      BY <1>1, <2>1, <2>2, <3>2 DEF Crash, TypeOK
    <3> QED
      BY <3>1, <3>2
  <2>3. CASE HandlerThrows(c)
    BY <1>1, <2>1, <2>3 DEF HandlerThrows, TypeOK
  <2> QED
    BY <2>2, <2>3
<1>3. MessageMoves(c)
  BY <1>1, <1>2 DEF Crash, HandlerThrows, Fault, MessageMoves, Others, TypeOK
<1>4. OnlyAskedChange(c)
  <2>1. \A id \in DOMAIN rows : ClaimsNoMore(c, id)
    BY <1>1 DEF ClaimsNoMore, Keeps, Turns
  <2> QED
    BY <1>2, <2>1 DEF OnlyAskedChange
<1>5. HandlerOK(c)'
  BY <1>1 DEF HandlerOK
<1>6. \A e \in Event : queue'[e] < queue[e] \/ HeldBy(c, e) => Traced(e)'
  <2>1. \A e \in Event : queue[e] \in Nat /\ queue'[e] \in Nat /\ queue'[e] >= queue[e]
    BY <1>1, <1>2
  <2> QED
    BY <1>2, <2>1 DEF HeldBy, Traced
<1> QED
  BY <1>1, <1>2, <1>3, <1>4, <1>5, <1>6, MessageOK

-----------------------------------------------------------------------------
(* Resending touches one row, and either marks it as asked for or leaves its  *)
(* counts alone                                                              *)
LEMMA RetryOK ==
  ASSUME Inv, NEW id \in DOMAIN rows, RetryPublish(id) \/ RetryReset(id)
  PROVE  Inv'
<1>1. /\ TypeOK /\ id \in RowId /\ rows[id] \in Row
      /\ UNCHANGED <<outbox, relay, queue, dead, handler, faults, copies>>
  BY RowsAre DEF RetryPublish, RetryReset, Inv
<1>2. /\ DOMAIN rows' = DOMAIN rows /\ \A x \in DOMAIN rows \ {id} : rows'[x] = rows[x]
      /\ rows' = [x \in DOMAIN rows' |-> rows'[x]]
      /\ rows'[id] \in Row /\ (rows'[id].asked \/ SameCounts(id)) /\ (rows[id].asked => rows'[id].asked)
  <2>1. CASE RetryPublish(id)
    <3>1. PICK arrives \in {0, 1} : rows' = [rows EXCEPT ![id].asked = TRUE, ![id].again = @ + arrives]
      BY <2>1 DEF RetryPublish
    <3>2. /\ DOMAIN rows' = DOMAIN rows /\ \A x \in DOMAIN rows \ {id} : rows'[x] = rows[x]
          /\ rows' = [x \in DOMAIN rows' |-> rows'[x]]
          /\ rows'[id] = [rows[id] EXCEPT !.asked = TRUE, !.again = @ + arrives]
      BY <3>1, RowsAre
    <3>3. rows[id].again + arrives \in Nat
      BY <1>1 DEF Row
    <3> QED
      BY <1>1, <3>2, <3>3 DEF Row
  <2>2. CASE RetryReset(id)
    <3>1. /\ DOMAIN rows' = DOMAIN rows /\ \A x \in DOMAIN rows \ {id} : rows'[x] = rows[x]
          /\ rows' = [x \in DOMAIN rows' |-> rows'[x]]
          /\ rows'[id] = [rows[id] EXCEPT !.status = "draft"]
      BY <2>2, RowsAre DEF RetryReset
    <3> QED
      BY <1>1, <3>1 DEF Row, SameCounts
  <2> QED
    BY <2>1, <2>2
<1>3. RowsGrow /\ \A x \in DOMAIN rows' : rows'[x] \in Row
  BY <1>2, RowsAre DEF RowsGrow
<1>4. \A e \in Event : Recorded(e)' = Recorded(e)
  BY <1>2 DEF Recorded, RowsOf
<1>5. /\ \A r \in Relay : RelayOK(r)'
      /\ BatchesAreApart'
      /\ \A e \in Event : EventOK(e)'
  <2>1. \A e \in Event : Traced(e) => Traced(e)'
    BY <1>1, <1>4 DEF Traced, InFlight
  <2> QED
    BY <1>1, <2>1, OutboxSideKept
<1>6. \A c \in Consumer : HandlerOK(c)'
  <2>1. TAKE c \in Consumer
  <2>2. HandlerOK(c) /\ (handler[c] # Idle => handler[c].event \in Event)
    BY <1>1 DEF Inv, TypeOK, Handling
  <2>3. handler[c] # Idle => Recorded(handler[c].event)' = Recorded(handler[c].event)
    BY <1>1, <1>2 DEF Recorded, RowsOf
  <2> QED
    BY <1>1, <1>2, <1>3, <2>2, <2>3 DEF HandlerOK, RowsGrow
<1>7. \A x \in DOMAIN rows' : RowOK(x)'
  <2>1. TAKE x \in DOMAIN rows'
  <2>2. SameCounts(x) \/ rows'[x].asked
    BY <1>2 DEF SameCounts
  <2>3. RowOK(x)
    BY <1>2 DEF Inv
  <2>4. \A c \in Consumer : (Keeps(c, x)' <=> Keeps(c, x)) /\ (Turns(c, x)' <=> Turns(c, x))
    BY <1>1 DEF Keeps, Turns
  <2>5. CASE rows'[x].asked
    BY <2>5 DEF RowOK
  <2>6. CASE SameCounts(x)
    BY <1>1, <2>3, <2>4, <2>6 DEF RowOK, SameCounts, Unsent
  <2> QED
    BY <2>2, <2>5, <2>6
<1>8. TypeOK'
  <2>1. asking' \subseteq DOMAIN rows' /\ resends' \in 0..MaxResends
    BY <1>1, <1>2, MailAssumption DEF TypeOK, RetryPublish, RetryReset
  <2> QED
    BY <1>1, <1>2, <1>3, <2>1 DEF TypeOK
<1> QED
  BY <1>5, <1>6, <1>7, <1>8 DEF Inv

-----------------------------------------------------------------------------

LEMMA StutterOK == ASSUME Inv, UNCHANGED vars PROVE Inv'
<1> USE DEF vars
<1>1. TypeOK'
  BY DEF Inv, TypeOK
<1>2. \A e \in Event : Traced(e) => Traced(e)'
  BY DEF Traced, InFlight, Recorded, RowsOf
<1>3. /\ \A r \in Relay : RelayOK(r)'
      /\ BatchesAreApart'
      /\ \A e \in Event : EventOK(e)'
  BY <1>2, OutboxSideKept
<1>4. (\A c \in Consumer : HandlerOK(c)') /\ (\A id \in DOMAIN rows' : RowOK(id)')
  BY RowSideKept
<1> QED
  BY <1>1, <1>3, <1>4 DEF Inv

LEMMA NextOK == ASSUME Inv, [Next]_vars PROVE Inv'
<1>1. ASSUME NEW e \in Event, Commit(e) \/ Cleanup(e) PROVE Inv'
  BY <1>1, OutboxOK
<1>2. ASSUME NEW r \in Relay, RelayNext(r) \/ RelayCrash(r) PROVE Inv'
  BY <1>2, RelayStepOK, PublishOK, RelayCommitOK DEF RelayNext
<1>3. ASSUME NEW c \in Consumer, HandlerNext(c) PROVE Inv'
  BY <1>3, ReceiveEventOK, LookUpOK, CreateRowOK, ReceiveResendOK, SkipRowOK, BeginRowOK, CountOK, SendOK,
     EndRowOK, AckOK DEF HandlerNext
<1>4. ASSUME NEW c \in Consumer, Disconnect(c) \/ Crash(c) \/ HandlerThrows(c) PROVE Inv'
  BY <1>4, DisconnectOK, LostOK
<1>5. ASSUME NEW id \in DOMAIN rows, RetryPublish(id) \/ RetryReset(id) PROVE Inv'
  BY <1>5, RetryOK
<1> QED
  BY <1>1, <1>2, <1>3, <1>4, <1>5, StutterOK DEF Next, FaultNext

LEMMA InvHolds == Spec => []Inv
<1>1. Init => Inv
  BY InitOK
<1>2. Inv /\ [Next]_vars => Inv'
  BY NextOK
<1> QED
  BY <1>1, <1>2, PTL DEF Spec

(* Every variable stays in its type: the outbox never counts more attempts    *)
(* than MaxAttempts, and a handler has hold only of rows that exist.          *)
THEOREM TypeIsInvariant == Spec => []TypeOK
<1>1. Inv => TypeOK
  BY DEF Inv
<1> QED
  BY <1>1, InvHolds, PTL

(* With any number of relays, consumers, crashes, lost channels and resends:  *)
(* an event the outbox counts as published, or has forgotten, is waiting, at  *)
(* hand or dead-lettered, or each of its recipients has a row; and a row      *)
(* nobody asked to resend counts at least the mails that were sent for it.    *)
THEOREM MailIsAlwaysAccountedFor == Spec => []MailIsAccountedFor
<1>1. Inv => MailIsAccountedFor
  BY DEF Inv, EventOK, RowOK, MailIsAccountedFor, PublishedLeavesATrace, SendsAreCounted
<1> QED
  BY <1>1, InvHolds, PTL

(* Relays of any number of processes publish an event they confirm at once    *)
(* exactly once, and duplicates, crashes and lost channels never mail a row   *)
(* twice unless somebody asked for it.                                       *)
THEOREM NothingEverGoesOutTwice == Spec => []NothingGoesOutTwice
<1>1. Inv => NothingGoesOutTwice
  BY DEF Inv, EventOK, RowOK, NothingGoesOutTwice, ConfirmedAtOnceGoesOutOnce, UnaskedMailGoesOnce
<1> QED
  BY <1>1, InvHolds, PTL

-----------------------------------------------------------------------------
(* Reminders: the inductive invariant                                        *)

VisitsAreKnown ==
  \A u \in Member :
    /\ seen[u] # Never => seen[u] <= now
    /\ supabase[u] # Never => seen[u] # Never /\ supabase[u] <= seen[u]
    /\ lastActiveAt[u] # Never => seen[u] # Never /\ lastActiveAt[u] <= seen[u]
    /\ seen[u] # Never /\ seen[u] > 0 /\ u \notin unnoted => lastActiveAt[u] = seen[u]

(* Those whose column is empty are filled in from what was found             *)
FoundIsRight(r) ==
  r.pc = "fill" => \A u \in Member :
    /\ r.found[u] # Never => seen[u] # Never /\ r.found[u] <= seen[u]
    /\ u \in r.todo => r.found[u] # Never /\ r.list[u] = Never

FoundWasSeen == \A p \in Runner : FoundIsRight(run[p])

Alone(p) == run[p] # Unoccupied /\ run[p].alone

AloneMeansAlone ==
  /\ \A p, q \in Runner : Alone(p) /\ q # p => run[q] = Unoccupied
  /\ tidy => \A p \in Runner : run[p] = Unoccupied

(* A run that is alone knows of everybody who was not here since             *)
NotHereSince(u) == u \notin unnoted /\ lastActiveAt[u] # now
IsAway(u) == DaysAway(lastActiveAt[u]) >= Threshold

Knows(r) ==
  \A u \in Member :
    /\ r.pc = "fill" /\ NotHereSince(u) => r.list[u] = lastActiveAt[u]
    /\ r.pc # "fill" /\ NotHereSince(u) =>
         (u \in DOMAIN r.due <=> IsAway(u)) /\ (IsAway(u) => r.due[u] = DaysAway(lastActiveAt[u]))
    /\ r.pc = "create" /\ u \in DOMAIN r.due => unread[u] = <<>>
    /\ r.pc \in {"row", "publish"} /\ NotHereSince(u) /\ u \in DOMAIN r.due => unread[u] = <<r.due[u]>>

AloneRunsKnow == \A p \in Runner : Alone(p) => Knows(run[p])

TidyMeansReminded ==
  tidy => \A u \in Member : u \notin unnoted /\ IsAway(u) => unread[u] = <<DaysAway(lastActiveAt[u])>>

MailsAreCounted ==
  \A n \in DOMAIN mails :
    /\ mails[n].sends <= mails[n].attempts
    /\ mails[n].mailed + waiting[n] <= 1 + mishaps
    /\ mails[n].status = "completed" => mails[n].mailed > 0
    /\ mails[n].mailed > 0 => mails[n].user \in Allowed

MailerHasItsMail ==
  mailer # Unoccupied =>
    LET n == mailer.row IN
    /\ n \in DOMAIN mails /\ waiting[n] > 0 /\ mails[n].user \in Allowed
    /\ mailer.pc = "count" => mailer.attempts = mails[n].attempts + 1
    /\ mailer.pc = "send" => mailer.attempts = mails[n].attempts /\ mails[n].sends < mails[n].attempts

MailsAreFew == Len(mails) <= MaxRows

QueuedOnce ==
  \A p \in Runner : run[p].pc = "publish" =>
    /\ run[p].row \in DOMAIN mails /\ waiting[run[p].row] = 0 /\ mails[run[p].row].mailed = 0
    /\ \A q \in Runner \ {p} : run[q].pc = "publish" => run[q].row # run[p].row

RemindersInv ==
  /\ RemindersTypeOK
  /\ VisitsAreKnown
  /\ FoundWasSeen
  /\ AloneMeansAlone
  /\ AloneRunsKnow
  /\ TidyMeansReminded
  /\ MailsAreFew
  /\ MailsAreCounted
  /\ MailerHasItsMail
  /\ QueuedOnce

LEMMA RunsByPc ==
  ASSUME RemindersTypeOK, NEW p \in Runner
  PROVE  /\ run[p].pc = "fill" => run[p] \in Reading
         /\ run[p].pc \in {"replace", "create", "row", "publish"} => run[p] \in Reminding
         /\ run[p] # Unoccupied => run[p].pc # "idle" /\ run[p].alone \in BOOLEAN
         /\ run[p].pc = "idle" => run[p] = Unoccupied
  BY DEF RemindersTypeOK, Reading, Reminding, Unoccupied

LEMMA DueIsAFunction ==
  ASSUME NEW due \in UNION { [U -> Day] : U \in SUBSET Member }
  PROVE  DOMAIN due \subseteq Member /\ due \in [DOMAIN due -> Day]
<1>1. PICK U \in SUBSET Member : due \in [U -> Day]
  OBVIOUS
<1> QED
  BY <1>1

LEMMA DaysAwayIsADay ==
  ASSUME now \in Day, NEW d \in Day \cup {Never}, DaysAway(d) >= Threshold
  PROVE  DaysAway(d) \in Day /\ d # now
  BY RemindersAssumption DEF DaysAway, Since, Day

LEMMA NobodyIsAwayToday ==
  ASSUME now \in Day PROVE ~(DaysAway(now) >= Threshold)
  BY RemindersAssumption DEF DaysAway, Since, Day

LEMMA MailsByNumber ==
  ASSUME RemindersTypeOK, NEW n \in DOMAIN mails
  PROVE  /\ n \in Nat /\ mails[n] \in Mail /\ waiting[n] \in Nat
         /\ mails[n].sends \in Nat /\ mails[n].attempts \in Nat /\ mails[n].mailed \in Nat
<1>1. mails \in Seq(Mail) /\ waiting \in [DOMAIN mails -> Nat]
  BY DEF RemindersTypeOK
<1>2. n \in Nat /\ mails[n] \in Mail /\ waiting[n] \in Nat
  BY <1>1
<1> QED
  BY <1>2 DEF Mail

LEMMA RemindersInitOK == ASSUME RemindersInit PROVE RemindersInv
<1>1. RemindersTypeOK
  <2>2. 0 \in Day /\ 0 \in 0..MaxMishaps
    BY RemindersAssumption DEF Day
  <2>1. now \in Day /\ tidy \in BOOLEAN /\ mishaps \in 0..MaxMishaps /\ unnoted \subseteq Member
    BY <2>2 DEF RemindersInit
  <2>3. {lastActiveAt, supabase} \subseteq [Member -> Day \cup {Never}] /\ seen \in [Member -> Day \cup {Never}]
    BY <2>2 DEF RemindersInit
  <2>4. run \in [Runner -> Reading \cup Reminding \cup {Unoccupied}] /\ mailer \in Mailing \cup {Unoccupied}
    BY DEF RemindersInit
  <2>5. unread \in [Member -> Seq(Day)] /\ mails \in Seq(Mail) /\ waiting \in [DOMAIN mails -> Nat]
    BY DEF RemindersInit
  <2> QED
    BY <2>1, <2>3, <2>4, <2>5 DEF RemindersTypeOK
<1>2. VisitsAreKnown
  BY RemindersAssumption DEF RemindersInit, VisitsAreKnown, Day
<1>3. \A p \in Runner : run[p] = Unoccupied
  BY DEF RemindersInit
<1>4. FoundWasSeen /\ AloneMeansAlone /\ AloneRunsKnow /\ TidyMeansReminded
  BY <1>3 DEF RemindersInit, FoundWasSeen, FoundIsRight, AloneMeansAlone, AloneRunsKnow, TidyMeansReminded, Alone, Unoccupied
<1>5. MailsAreFew /\ MailsAreCounted /\ MailerHasItsMail /\ QueuedOnce
  BY <1>3, RemindersAssumption
     DEF RemindersInit, MailsAreFew, MailsAreCounted, MailerHasItsMail, QueuedOnce, Unoccupied
<1> QED
  BY <1>1, <1>2, <1>4, <1>5 DEF RemindersInv

(* Somebody is here: of nobody else anything changes                         *)
LEMMA NotedOK ==
  ASSUME RemindersInv, NEW u \in Member, Noted(u),
         now' = now, run' = run, tidy' = tidy, mails' = mails, waiting' = waiting, mailer' = mailer,
         supabase' \in {supabase, [supabase EXCEPT ![u] = now]},
         unread' \in [Member -> Seq(Day)], \A v \in Member \ {u} : unread'[v] = unread[v],
         unread[u] = <<>> => unread'[u] = <<>>
  PROVE  RemindersInv'
<1>1. now \in Day /\ now \in Nat /\ mishaps' \in 0..MaxMishaps /\ mishaps' >= mishaps /\ mishaps \in Nat
  BY RemindersAssumption DEF RemindersInv, RemindersTypeOK, Noted, Mishap, Day
<1>2. /\ seen \in [Member -> Day \cup {Never}] /\ seen' = [seen EXCEPT ![u] = now]
      /\ supabase \in [Member -> Day \cup {Never}] /\ lastActiveAt \in [Member -> Day \cup {Never}]
  BY DEF RemindersInv, RemindersTypeOK, Noted
<1>3. \/ lastActiveAt' = [lastActiveAt EXCEPT ![u] = now] /\ unnoted' = unnoted \ {u}
      \/ lastActiveAt' = lastActiveAt /\ unnoted' = unnoted \cup {u}
  BY DEF Noted
<1>4. RemindersTypeOK'
  <2>1. now' \in Day /\ tidy' \in BOOLEAN /\ mishaps' \in 0..MaxMishaps /\ unnoted' \subseteq Member
    BY <1>1, <1>3 DEF RemindersInv, RemindersTypeOK
  <2> DEFINE day == Day \cup {Never}
  <2>a. now \in day /\ {seen, supabase, lastActiveAt} \subseteq [Member -> day]
    BY <1>1, <1>2
  <2> HIDE DEF day
  <2>b. seen' \in [Member -> day]
    BY <1>2, <2>a
  <2>c. supabase' \in [Member -> day]
    BY <2>a
  <2>d. lastActiveAt' \in [Member -> day]
    BY <1>3, <2>a
  <2>2. {lastActiveAt', supabase'} \subseteq [Member -> Day \cup {Never}] /\ seen' \in [Member -> Day \cup {Never}]
    BY <2>b, <2>c, <2>d DEF day
  <2>3. /\ run \in [Runner -> Reading \cup Reminding \cup {Unoccupied}]
        /\ mails \in Seq(Mail) /\ waiting \in [DOMAIN mails -> Nat] /\ mailer \in Mailing \cup {Unoccupied}
    BY DEF RemindersInv, RemindersTypeOK
  <2>4. /\ run' \in [Runner -> Reading \cup Reminding \cup {Unoccupied}]
        /\ mails' \in Seq(Mail) /\ waiting' \in [DOMAIN mails' -> Nat] /\ mailer' \in Mailing \cup {Unoccupied}
    BY <2>3
  <2> QED
    BY <2>1, <2>2, <2>4 DEF RemindersTypeOK
<1>5. /\ seen'[u] = now /\ supabase'[u] \in {supabase[u], now}
      /\ \A v \in Member \ {u} : seen'[v] = seen[v] /\ supabase'[v] = supabase[v] /\ lastActiveAt'[v] = lastActiveAt[v]
                                  /\ (v \in unnoted' <=> v \in unnoted)
  BY <1>2, <1>3
<1>6. \/ lastActiveAt'[u] = now /\ u \notin unnoted'
      \/ lastActiveAt'[u] = lastActiveAt[u] /\ u \in unnoted'
  BY <1>2, <1>3
<1>7. ~NotHereSince(u)'
  BY <1>6 DEF NotHereSince
<1>8. \A v \in Member \ {u} : (NotHereSince(v)' <=> NotHereSince(v)) /\ (IsAway(v)' <=> IsAway(v))
                              /\ DaysAway(lastActiveAt[v])' = DaysAway(lastActiveAt[v])
  BY <1>5 DEF NotHereSince, IsAway, DaysAway, Since
<1>9. now # Never
  BY <1>1, RemindersAssumption
<1>10. seen[u] # Never => seen[u] <= now
  BY DEF RemindersInv, VisitsAreKnown
<1>11. VisitsAreKnown'
  <2>1. \A v \in Member \ {u} :
          /\ seen'[v] # Never => seen'[v] <= now'
          /\ supabase'[v] # Never => seen'[v] # Never /\ supabase'[v] <= seen'[v]
          /\ lastActiveAt'[v] # Never => seen'[v] # Never /\ lastActiveAt'[v] <= seen'[v]
          /\ seen'[v] # Never /\ seen'[v] > 0 /\ v \notin unnoted' => lastActiveAt'[v] = seen'[v]
    BY <1>5 DEF RemindersInv, VisitsAreKnown
  <2>2. supabase[u] # Never => seen[u] # Never /\ supabase[u] <= seen[u]
    BY DEF RemindersInv, VisitsAreKnown
  <2>3. lastActiveAt[u] # Never => seen[u] # Never /\ lastActiveAt[u] <= seen[u]
    BY DEF RemindersInv, VisitsAreKnown
  <2>4. supabase'[u] # Never => supabase'[u] <= now
    BY <1>1, <1>2, <1>5, <1>10, <2>2 DEF Day
  <2>5. lastActiveAt'[u] # Never => lastActiveAt'[u] <= now
    BY <1>1, <1>2, <1>6, <1>10, <2>3 DEF Day
  <2>6. /\ seen'[u] # Never => seen'[u] <= now'
        /\ supabase'[u] # Never => seen'[u] # Never /\ supabase'[u] <= seen'[u]
        /\ lastActiveAt'[u] # Never => seen'[u] # Never /\ lastActiveAt'[u] <= seen'[u]
        /\ seen'[u] # Never /\ seen'[u] > 0 /\ u \notin unnoted' => lastActiveAt'[u] = seen'[u]
    BY <1>1, <1>5, <1>6, <1>9, <2>4, <2>5
  <2> QED
    BY <2>1, <2>6 DEF VisitsAreKnown
<1>12. FoundWasSeen'
  <2> SUFFICES ASSUME NEW p \in Runner, run[p].pc = "fill", NEW v \in Member
               PROVE  /\ run[p].found[v] # Never => seen'[v] # Never /\ run[p].found[v] <= seen'[v]
                      /\ v \in run[p].todo => run[p].found[v] # Never /\ run[p].list[v] = Never
    BY DEF FoundWasSeen, FoundIsRight
  <2>1. /\ run[p].found[v] # Never => seen[v] # Never /\ run[p].found[v] <= seen[v]
        /\ v \in run[p].todo => run[p].found[v] # Never /\ run[p].list[v] = Never
    BY DEF RemindersInv, FoundWasSeen, FoundIsRight
  <2>2. run[p].found[v] \in Day \cup {Never}
    BY RunsByPc DEF RemindersInv, Reading
  <2> QED
    BY <1>1, <1>2, <1>5, <1>9, <1>10, <2>1, <2>2 DEF Day
<1>13. AloneMeansAlone'
  BY DEF RemindersInv, AloneMeansAlone, Alone
<1>14. AloneRunsKnow'
  <2> SUFFICES ASSUME NEW p \in Runner, Alone(p), NEW v \in Member
               PROVE  /\ run[p].pc = "fill" /\ NotHereSince(v)' => run[p].list[v] = lastActiveAt'[v]
                      /\ run[p].pc # "fill" /\ NotHereSince(v)' =>
                           (v \in DOMAIN run[p].due <=> IsAway(v)')
                           /\ (IsAway(v)' => run[p].due[v] = DaysAway(lastActiveAt[v])')
                      /\ run[p].pc = "create" /\ v \in DOMAIN run[p].due => unread'[v] = <<>>
                      /\ run[p].pc \in {"row", "publish"} /\ NotHereSince(v)' /\ v \in DOMAIN run[p].due =>
                           unread'[v] = <<run[p].due[v]>>
    BY DEF AloneRunsKnow, Knows, Alone
  <2>1. /\ run[p].pc = "fill" /\ NotHereSince(v) => run[p].list[v] = lastActiveAt[v]
        /\ run[p].pc # "fill" /\ NotHereSince(v) =>
             (v \in DOMAIN run[p].due <=> IsAway(v)) /\ (IsAway(v) => run[p].due[v] = DaysAway(lastActiveAt[v]))
        /\ run[p].pc = "create" /\ v \in DOMAIN run[p].due => unread[v] = <<>>
        /\ run[p].pc \in {"row", "publish"} /\ NotHereSince(v) /\ v \in DOMAIN run[p].due =>
             unread[v] = <<run[p].due[v]>>
    BY DEF RemindersInv, AloneRunsKnow, Knows
  <2>2. CASE v = u
    BY <1>7, <2>1, <2>2
  <2>3. CASE v # u
    BY <1>5, <1>8, <2>1, <2>3
  <2> QED
    BY <2>2, <2>3
<1>15. TidyMeansReminded'
  <2> SUFFICES ASSUME tidy, NEW v \in Member, v \notin unnoted', IsAway(v)'
               PROVE  unread'[v] = <<DaysAway(lastActiveAt[v])>>'
    BY DEF TidyMeansReminded
  <2>1. v # u
    <3> SUFFICES ASSUME v = u PROVE FALSE
      OBVIOUS
    <3>1. lastActiveAt'[u] = now
      BY <1>6
    <3> QED
      BY <1>1, <3>1, NobodyIsAwayToday DEF IsAway, DaysAway
  <2> QED
    BY <1>5, <1>8, <2>1 DEF RemindersInv, TidyMeansReminded
<1>16. MailsAreFew' /\ MailerHasItsMail' /\ QueuedOnce'
  BY DEF RemindersInv, MailsAreFew, MailerHasItsMail, QueuedOnce
<1>17. MailsAreCounted'
  <2> SUFFICES ASSUME NEW n \in DOMAIN mails PROVE mails[n].mailed + waiting[n] <= 1 + mishaps'
    BY DEF RemindersInv, MailsAreCounted
  <2>1. mails[n].mailed \in Nat /\ waiting[n] \in Nat
    BY MailsByNumber DEF RemindersInv
  <2> QED
    BY <1>1, <2>1 DEF RemindersInv, MailsAreCounted
<1> QED
  BY <1>4, <1>11, <1>12, <1>13, <1>14, <1>15, <1>16, <1>17 DEF RemindersInv

LEMMA VisitOK == ASSUME RemindersInv, NEW u \in Member, Visit(u) PROVE RemindersInv'
<1>1. unread \in [Member -> Seq(Day)]
  BY DEF RemindersInv, RemindersTypeOK
<1> QED
  BY <1>1, NotedOK DEF Visit, mailVars

LEMMA MarkAllAsReadOK == ASSUME RemindersInv, NEW u \in Member, MarkAllAsRead(u) PROVE RemindersInv'
<1>1. unread \in [Member -> Seq(Day)]
  BY DEF RemindersInv, RemindersTypeOK
<1>2. unread' \in [Member -> Seq(Day)] /\ \A v \in Member \ {u} : unread'[v] = unread[v]
  BY <1>1 DEF MarkAllAsRead
<1>3. unread'[u] = <<>>
  BY <1>1 DEF MarkAllAsRead
<1> QED
  BY <1>2, <1>3, NotedOK DEF MarkAllAsRead, mailVars

LEMMA MarkAsReadOK ==
  ASSUME RemindersInv, NEW u \in Member, NEW i \in DOMAIN unread[u], MarkAsRead(u, i)
  PROVE  RemindersInv'
<1> DEFINE rest == [j \in 1..(Len(unread[u]) - 1) |-> unread[u][IF j < i THEN j ELSE j + 1]]
<1>1. unread \in [Member -> Seq(Day)] /\ unread[u] \in Seq(Day)
  BY DEF RemindersInv, RemindersTypeOK
<1>2. Len(unread[u]) \in Nat /\ i \in 1..Len(unread[u])
  BY <1>1
<1>3. rest \in Seq(Day)
  <2>1. \A j \in 1..(Len(unread[u]) - 1) : (IF j < i THEN j ELSE j + 1) \in 1..Len(unread[u])
    BY <1>2
  <2>2. \A j \in 1..(Len(unread[u]) - 1) : unread[u][IF j < i THEN j ELSE j + 1] \in Day
    BY <1>1, <2>1
  <2>3. Len(unread[u]) - 1 \in Nat
    BY <1>2
  <2> QED
    BY <2>2, <2>3
<1>4. unread' = [unread EXCEPT ![u] = rest]
  BY DEF MarkAsRead
<1> HIDE DEF rest
<1>5. unread' \in [Member -> Seq(Day)] /\ \A v \in Member \ {u} : unread'[v] = unread[v]
  BY <1>1, <1>3, <1>4
<1>6. unread[u] # <<>>
  BY <1>2
<1> QED
  BY <1>5, <1>6, NotedOK DEF MarkAsRead, mailVars

LEMMA MailsStay ==
  ASSUME RemindersInv, UNCHANGED <<mails, waiting, mailer>>, mishaps' >= mishaps, mishaps' \in Nat,
         \A p \in Runner : run'[p].pc = "publish" => run'[p] = run[p]
  PROVE  MailsAreFew' /\ MailsAreCounted' /\ MailerHasItsMail' /\ QueuedOnce'
<1>1. mails' = mails /\ waiting' = waiting /\ mailer' = mailer /\ mishaps \in Nat
  BY RemindersAssumption DEF RemindersInv, RemindersTypeOK
<1>2. MailsAreFew' /\ MailerHasItsMail' /\ QueuedOnce'
  BY <1>1 DEF RemindersInv, MailsAreFew, MailerHasItsMail, QueuedOnce
<1>3. MailsAreCounted'
  <2> SUFFICES ASSUME NEW n \in DOMAIN mails PROVE mails[n].mailed + waiting[n] <= 1 + mishaps'
    BY <1>1 DEF RemindersInv, MailsAreCounted
  <2>1. mails[n].mailed \in Nat /\ waiting[n] \in Nat
    BY MailsByNumber DEF RemindersInv
  <2> QED
    BY <1>1, <2>1 DEF RemindersInv, MailsAreCounted
<1> QED
  BY <1>2, <1>3

LEMMA NextDayOK == ASSUME RemindersInv, NextDay PROVE RemindersInv'
<1>1. now \in Nat /\ LastDay \in Nat /\ now' = now + 1 /\ now' \in Day
  BY RemindersAssumption DEF RemindersInv, RemindersTypeOK, NextDay, Day
<1>2. /\ \A p \in Runner : run'[p] = Unoccupied
      /\ UNCHANGED <<lastActiveAt, supabase, seen, unnoted, run, unread, mails, waiting, mailer, mishaps>>
      /\ tidy' = FALSE
  BY DEF NextDay, mailVars
<1>3. RemindersTypeOK'
  <2>1. /\ tidy' \in BOOLEAN /\ mishaps' \in 0..MaxMishaps /\ unnoted' \subseteq Member
        /\ {lastActiveAt', supabase'} \subseteq [Member -> Day \cup {Never}] /\ seen' \in [Member -> Day \cup {Never}]
        /\ unread' \in [Member -> Seq(Day)]
    BY <1>2 DEF RemindersInv, RemindersTypeOK
  <2>2. /\ run' \in [Runner -> Reading \cup Reminding \cup {Unoccupied}]
        /\ mails' \in Seq(Mail) /\ mailer' \in Mailing \cup {Unoccupied}
    BY <1>2 DEF RemindersInv, RemindersTypeOK
  <2>3. waiting \in [DOMAIN mails -> Nat]
    BY DEF RemindersInv, RemindersTypeOK
  <2>4. waiting' \in [DOMAIN mails' -> Nat]
    BY <1>2, <2>3
  <2> QED
    BY <1>1, <2>1, <2>2, <2>4 DEF RemindersTypeOK
<1>4. VisitsAreKnown'
  <2> SUFFICES ASSUME NEW u \in Member, seen[u] # Never PROVE seen[u] <= now'
    BY <1>2 DEF RemindersInv, VisitsAreKnown
  <2>1. seen[u] \in Day
    BY DEF RemindersInv, RemindersTypeOK
  <2> QED
    BY <1>1, <2>1 DEF RemindersInv, VisitsAreKnown, Day
<1>5. FoundWasSeen' /\ AloneMeansAlone' /\ AloneRunsKnow' /\ TidyMeansReminded'
  BY <1>2 DEF FoundWasSeen, FoundIsRight, AloneMeansAlone, AloneRunsKnow, TidyMeansReminded, Alone, Unoccupied
<1>6. MailsAreFew' /\ MailsAreCounted' /\ MailerHasItsMail' /\ QueuedOnce'
  <2>1. mishaps \in Nat /\ mishaps' = mishaps
    BY <1>2, RemindersAssumption DEF RemindersInv, RemindersTypeOK
  <2> QED
    BY <1>2, <2>1, MailsStay DEF Unoccupied
<1> QED
  BY <1>3, <1>4, <1>5, <1>6 DEF RemindersInv

(* What a process goes on with concerns it alone                             *)
LEMMA GoesOK ==
  ASSUME RemindersInv, NEW p \in Runner, run[p] # Unoccupied,
         UNCHANGED <<seen>>, run' = [run EXCEPT ![p] = run'[p]],
         run'[p] \in Reading \cup Reminding \cup {Unoccupied},
         run'[p] # Unoccupied => run'[p].alone = run[p].alone,
         FoundIsRight(run[p])',
         run'[p] # Unoccupied /\ run[p].alone => Knows(run[p])',
         tidy' => run'[p] = Unoccupied /\ (tidy \/ run[p].alone)
  PROVE  /\ run' \in [Runner -> Reading \cup Reminding \cup {Unoccupied}]
         /\ FoundWasSeen' /\ AloneMeansAlone' /\ AloneRunsKnow'
<1>1. run \in [Runner -> Reading \cup Reminding \cup {Unoccupied}]
  BY DEF RemindersInv, RemindersTypeOK
<1>2. \A q \in Runner \ {p} : run'[q] = run[q]
  BY <1>1
<1>3. run' \in [Runner -> Reading \cup Reminding \cup {Unoccupied}]
  <2> DEFINE doing == Reading \cup Reminding \cup {Unoccupied}
  <2>1. run \in [Runner -> doing] /\ run'[p] \in doing
    BY <1>1
  <2> HIDE DEF doing
  <2>2. run' \in [Runner -> doing]
    BY <2>1
  <2> QED
    BY <2>2 DEF doing
<1>4. ASSUME NEW q \in Runner \ {p} PROVE FoundIsRight(run[q])'
  <2>1. FoundIsRight(run[q])
    BY DEF RemindersInv, FoundWasSeen
  <2> QED
    BY <1>2, <2>1 DEF FoundIsRight
<1>5. FoundWasSeen'
  BY <1>4 DEF FoundWasSeen
<1>6. \A q \in Runner \ {p} : ~Alone(q) /\ ~Alone(q)'
  BY <1>2 DEF RemindersInv, AloneMeansAlone, Alone
<1>7. ~tidy
  BY DEF RemindersInv, AloneMeansAlone
<1>8. AloneMeansAlone'
  <2>1. ASSUME Alone(p)', NEW q \in Runner \ {p} PROVE run'[q] = Unoccupied
    BY <1>2, <2>1 DEF RemindersInv, AloneMeansAlone, Alone
  <2>2. ASSUME tidy', NEW q \in Runner PROVE run'[q] = Unoccupied
    BY <1>2, <1>7, <2>2 DEF RemindersInv, AloneMeansAlone, Alone
  <2> QED
    BY <1>6, <2>1, <2>2 DEF AloneMeansAlone
<1>9. AloneRunsKnow'
  BY <1>6 DEF AloneRunsKnow, Alone
<1> QED
  BY <1>3, <1>5, <1>8, <1>9

LEMMA VisitsStay ==
  ASSUME RemindersInv, UNCHANGED <<now, lastActiveAt, supabase, seen, unnoted>>
  PROVE  /\ now' \in Day /\ unnoted' \subseteq Member
         /\ {lastActiveAt', supabase'} \subseteq [Member -> Day \cup {Never}] /\ seen' \in [Member -> Day \cup {Never}]
         /\ VisitsAreKnown'
<1>1. now \in Day /\ unnoted \subseteq Member /\ seen \in [Member -> Day \cup {Never}]
      /\ {lastActiveAt, supabase} \subseteq [Member -> Day \cup {Never}]
  BY DEF RemindersInv, RemindersTypeOK
<1> QED
  BY <1>1 DEF RemindersInv, VisitsAreKnown

LEMMA JobStepOK ==
  ASSUME RemindersInv, NEW p \in Runner, run[p] # Unoccupied,
         UNCHANGED <<now, lastActiveAt, supabase, seen, unnoted, mails, waiting, mailer>>,
         run' = [run EXCEPT ![p] = run'[p]],
         run'[p] \in Reading \cup Reminding \cup {Unoccupied},
         run'[p] # Unoccupied => run'[p].alone = run[p].alone,
         FoundIsRight(run[p])',
         run'[p] # Unoccupied /\ run[p].alone => Knows(run[p])',
         run'[p].pc # "publish",
         tidy' \in BOOLEAN, tidy' => run'[p] = Unoccupied /\ (tidy \/ run[p].alone), TidyMeansReminded',
         unread' \in [Member -> Seq(Day)],
         mishaps' \in 0..MaxMishaps, mishaps' >= mishaps
  PROVE  RemindersInv'
<1>1. /\ run' \in [Runner -> Reading \cup Reminding \cup {Unoccupied}]
      /\ FoundWasSeen' /\ AloneMeansAlone' /\ AloneRunsKnow'
  BY GoesOK
<1>2. /\ now' \in Day /\ unnoted' \subseteq Member
      /\ {lastActiveAt', supabase'} \subseteq [Member -> Day \cup {Never}] /\ seen' \in [Member -> Day \cup {Never}]
      /\ VisitsAreKnown'
  BY VisitsStay
<1>3. MailsAreFew' /\ MailsAreCounted' /\ MailerHasItsMail' /\ QueuedOnce'
  <2>1. \A q \in Runner : run'[q].pc = "publish" => run'[q] = run[q]
    <3>1. run \in [Runner -> Reading \cup Reminding \cup {Unoccupied}]
      BY DEF RemindersInv, RemindersTypeOK
    <3>2. \A q \in Runner \ {p} : run'[q] = run[q]
      BY <3>1
    <3> QED
      BY <3>2
  <2>2. mishaps' \in Nat
    BY RemindersAssumption
  <2> QED
    BY <2>1, <2>2, MailsStay
<1>4. mails' \in Seq(Mail) /\ waiting' \in [DOMAIN mails' -> Nat] /\ mailer' \in Mailing \cup {Unoccupied}
  <2>1. mails \in Seq(Mail) /\ waiting \in [DOMAIN mails -> Nat] /\ mailer \in Mailing \cup {Unoccupied}
    BY DEF RemindersInv, RemindersTypeOK
  <2> QED
    BY <2>1
<1>5. RemindersTypeOK'
  BY <1>1, <1>2, <1>4 DEF RemindersTypeOK
<1> QED
  BY <1>1, <1>2, <1>3, <1>5 DEF RemindersInv

LEMMA JobDiesOK == ASSUME RemindersInv, NEW p \in Runner, JobDies(p) PROVE RemindersInv'
<1>1. /\ run[p] # Unoccupied /\ run' = [run EXCEPT ![p] = Unoccupied]
      /\ UNCHANGED <<now, lastActiveAt, supabase, seen, unnoted, mails, waiting, mailer, tidy, unread>>
  BY DEF JobDies, Goes, mailVars
<1>2. run'[p] = Unoccupied
  BY <1>1 DEF RemindersInv, RemindersTypeOK
<1>3. ~tidy /\ tidy \in BOOLEAN
  BY <1>1 DEF RemindersInv, RemindersTypeOK, AloneMeansAlone
<1>4. mishaps' \in 0..MaxMishaps /\ mishaps' >= mishaps
  BY RemindersAssumption DEF JobDies, Mishap, RemindersInv, RemindersTypeOK
<1>5. FoundIsRight(run[p])' /\ run'[p].pc # "publish"
  BY <1>2 DEF FoundIsRight, Unoccupied
<1>6. TidyMeansReminded' /\ unread' \in [Member -> Seq(Day)]
  BY <1>1, <1>3 DEF RemindersInv, RemindersTypeOK, TidyMeansReminded
<1> QED
  BY <1>1, <1>2, <1>3, <1>4, <1>5, <1>6, JobStepOK

(* The truth about everybody is in the column, of those here today too        *)
LEMMA AwayWereNotHere ==
  ASSUME RemindersInv, NEW u \in Member, u \notin unnoted, IsAway(u)
  PROVE  NotHereSince(u)
<1>1. now \in Day
  BY DEF RemindersInv, RemindersTypeOK
<1>2. lastActiveAt[u] # now
  BY <1>1, NobodyIsAwayToday DEF IsAway
<1> QED
  BY <1>2 DEF NotHereSince

(* A run that ends without another has reminded everybody who is away         *)
LEMMA DoneOK ==
  ASSUME RemindersInv, NEW p \in Runner, run[p] # Unoccupied, Done(p),
         UNCHANGED <<now, lastActiveAt, supabase, seen, unnoted, unread, mails, waiting, mailer, mishaps>>,
         run[p].alone => \A u \in Member :
           u \notin unnoted /\ IsAway(u) => unread[u] = <<DaysAway(lastActiveAt[u])>>
  PROVE  RemindersInv'
<1>1. run' = [run EXCEPT ![p] = Unoccupied] /\ tidy' = run[p].alone
  BY DEF Done, Goes
<1>2. run'[p] = Unoccupied
  BY <1>1 DEF RemindersInv, RemindersTypeOK
<1>3. tidy' \in BOOLEAN
  BY <1>1, RunsByPc DEF RemindersInv
<1>4. mishaps' \in 0..MaxMishaps /\ mishaps' >= mishaps
  BY RemindersAssumption DEF RemindersInv, RemindersTypeOK
<1>5. FoundIsRight(run[p])' /\ run'[p].pc # "publish"
  BY <1>2 DEF FoundIsRight, Unoccupied
<1>6. TidyMeansReminded'
  BY <1>1 DEF TidyMeansReminded, IsAway, DaysAway, Since
<1>7. unread' \in [Member -> Seq(Day)]
  BY DEF RemindersInv, RemindersTypeOK
<1> QED
  BY <1>1, <1>2, <1>3, <1>4, <1>5, <1>6, <1>7, JobStepOK

LEMMA FinishOK == ASSUME RemindersInv, NEW p \in Runner, Finish(p) PROVE RemindersInv'
<1>1. /\ run[p].pc = "row" /\ Done(p)
      /\ UNCHANGED <<now, lastActiveAt, supabase, seen, unnoted, unread, mails, waiting, mailer, mishaps>>
  BY DEF Finish, mailVars
<1>2. run[p] # Unoccupied
  BY <1>1 DEF Unoccupied
<1>3. ASSUME run[p].alone, NEW u \in Member, u \notin unnoted, IsAway(u)
      PROVE  unread[u] = <<DaysAway(lastActiveAt[u])>>
  <2>1. Knows(run[p])
    BY <1>2, <1>3 DEF RemindersInv, AloneRunsKnow, Alone
  <2>2. NotHereSince(u)
    BY <1>3, AwayWereNotHere
  <2>3. u \in DOMAIN run[p].due /\ run[p].due[u] = DaysAway(lastActiveAt[u])
    BY <1>1, <1>3, <2>1, <2>2 DEF Knows
  <2>4. unread[u] = <<run[p].due[u]>>
    BY <1>1, <2>1, <2>2, <2>3 DEF Knows
  <2> QED
    BY <2>3, <2>4
<1> QED
  BY <1>1, <1>2, <1>3, DoneOK

LEMMA FindAwayOK == ASSUME RemindersInv, NEW p \in Runner, FindAway(p) PROVE RemindersInv'
<1>1. /\ run[p].pc = "fill" /\ run[p] # Unoccupied /\ run[p] \in Reading
      /\ UNCHANGED <<now, lastActiveAt, supabase, seen, unnoted, unread, mails, waiting, mailer, mishaps>>
  BY RunsByPc DEF FindAway, mailVars, Unoccupied, RemindersInv
<1>2. now \in Day /\ run[p].list \in [Member -> Day \cup {Never}] /\ run[p].alone \in BOOLEAN
  BY <1>1 DEF RemindersInv, RemindersTypeOK, Reading
<1>3. ASSUME run[p].alone, NEW u \in Member, NotHereSince(u)
      PROVE  run[p].list[u] = lastActiveAt[u] /\ (u \in Away(p) <=> IsAway(u))
  <2>1. run[p].list[u] = lastActiveAt[u]
    BY <1>1, <1>3 DEF RemindersInv, AloneRunsKnow, Alone, Knows
  <2> QED
    BY <2>1 DEF Away, IsAway
<1>4. CASE Away(p) = {}
  <2>1. Done(p)
    BY <1>4 DEF FindAway
  <2>2. ASSUME run[p].alone, NEW u \in Member, u \notin unnoted, IsAway(u)
        PROVE  unread[u] = <<DaysAway(lastActiveAt[u])>>
    BY <1>3, <1>4, <2>2, AwayWereNotHere
  <2> QED
    BY <1>1, <2>1, <2>2, DoneOK
<1>5. CASE Away(p) # {}
  <2> DEFINE due == [u \in Away(p) |-> DaysAway(run[p].list[u])]
  <2>1. /\ run' = [run EXCEPT ![p] = [pc |-> "replace", due |-> due, todo |-> {}, row |-> 0, alone |-> run[p].alone]]
        /\ tidy' = tidy
    BY <1>5 DEF FindAway, Goes
  <2>2. due \in [Away(p) -> Day] /\ Away(p) \subseteq Member
    BY <1>2, DaysAwayIsADay DEF Away
  <2>3. due \in UNION { [U -> Day] : U \in SUBSET Member }
    BY <2>2
  <2>4. DOMAIN due = Away(p) /\ \A u \in Away(p) : due[u] = DaysAway(run[p].list[u])
    OBVIOUS
  <2> HIDE DEF due
  <2>5. run'[p] = [pc |-> "replace", due |-> due, todo |-> {}, row |-> 0, alone |-> run[p].alone]
    BY <2>1 DEF RemindersInv, RemindersTypeOK
  <2>6. run'[p] \in Reminding
    BY <1>2, <2>3, <2>5, RemindersAssumption DEF Reminding
  <2>7. run'[p].alone = run[p].alone /\ run'[p].pc = "replace" /\ run'[p].due = due
    BY <2>5
  <2>13. run' = [run EXCEPT ![p] = run'[p]]
    BY <2>1, <2>5
  <2>8. ASSUME run[p].alone PROVE Knows(run[p])'
    <3> SUFFICES ASSUME NEW u \in Member, NotHereSince(u)
                 PROVE  (u \in DOMAIN due <=> IsAway(u)) /\ (IsAway(u) => due[u] = DaysAway(lastActiveAt[u]))
      BY <1>1, <2>7 DEF Knows, NotHereSince, IsAway, DaysAway, Since
    <3> QED
      BY <1>3, <2>4, <2>8
  <2>9. FoundIsRight(run[p])'
    BY <2>7 DEF FoundIsRight
  <2>10. ~tidy' /\ tidy' \in BOOLEAN
    BY <1>1, <2>1 DEF RemindersInv, RemindersTypeOK, AloneMeansAlone
  <2>11. TidyMeansReminded' /\ unread' \in [Member -> Seq(Day)]
    BY <1>1, <2>10 DEF RemindersInv, RemindersTypeOK, TidyMeansReminded
  <2>12. mishaps' \in 0..MaxMishaps /\ mishaps' >= mishaps
    BY <1>1, RemindersAssumption DEF RemindersInv, RemindersTypeOK
  <2> QED
    BY <1>1, <2>6, <2>7, <2>8, <2>9, <2>10, <2>11, <2>12, <2>13, JobStepOK
<1> QED
  BY <1>4, <1>5

LEMMA RemoveUnreadOK == ASSUME RemindersInv, NEW p \in Runner, RemoveUnread(p) PROVE RemindersInv'
<1>1. /\ run[p].pc = "replace" /\ run[p] # Unoccupied /\ run[p] \in Reminding
      /\ UNCHANGED <<now, lastActiveAt, supabase, seen, unnoted, tidy, mails, waiting, mailer, mishaps>>
      /\ run' = [run EXCEPT ![p] = [run[p] EXCEPT !.pc = "create"]]
  BY RunsByPc DEF RemoveUnread, Goes, mailVars, Unoccupied, RemindersInv
<1>2. unread' = [u \in Member |-> IF u \in DOMAIN run[p].due THEN <<>> ELSE unread[u]]
  BY DEF RemoveUnread
<1>3. run'[p] = [run[p] EXCEPT !.pc = "create"]
  BY <1>1 DEF RemindersInv, RemindersTypeOK
<1>4. /\ run'[p] \in Reminding /\ run'[p].pc = "create"
      /\ run'[p].due = run[p].due /\ run'[p].alone = run[p].alone
  BY <1>1, <1>3 DEF Reminding
<1>5. run' = [run EXCEPT ![p] = run'[p]]
  BY <1>1, <1>3
<1>6. ASSUME run[p].alone PROVE Knows(run[p])'
  <2>1. Knows(run[p])
    BY <1>1, <1>6 DEF RemindersInv, AloneRunsKnow, Alone
  <2> QED
    BY <1>1, <1>2, <1>4, <2>1 DEF Knows, NotHereSince, IsAway, DaysAway, Since
<1>7. FoundIsRight(run[p])'
  BY <1>4 DEF FoundIsRight
<1>8. ~tidy' /\ tidy' \in BOOLEAN
  BY <1>1 DEF RemindersInv, RemindersTypeOK, AloneMeansAlone
<1>9. TidyMeansReminded'
  BY <1>8 DEF TidyMeansReminded
<1>10. unread' \in [Member -> Seq(Day)]
  <2>1. unread \in [Member -> Seq(Day)]
    BY DEF RemindersInv, RemindersTypeOK
  <2> QED
    BY <1>2, <2>1
<1>11. mishaps' \in 0..MaxMishaps /\ mishaps' >= mishaps
  BY <1>1, RemindersAssumption DEF RemindersInv, RemindersTypeOK
<1> QED
  BY <1>1, <1>4, <1>5, <1>6, <1>7, <1>8, <1>9, <1>10, <1>11, JobStepOK

LEMMA CreateRemindersOK == ASSUME RemindersInv, NEW p \in Runner, CreateReminders(p) PROVE RemindersInv'
<1>1. /\ run[p].pc = "create" /\ run[p] # Unoccupied /\ run[p] \in Reminding
      /\ UNCHANGED <<now, lastActiveAt, supabase, seen, unnoted, tidy, mails, waiting, mailer, mishaps>>
      /\ run' = [run EXCEPT ![p] = [run[p] EXCEPT !.pc = "row", !.todo = DOMAIN run[p].due]]
  BY RunsByPc DEF CreateReminders, Goes, mailVars, Unoccupied, RemindersInv
<1>2. unread' = [u \in Member |-> IF u \in DOMAIN run[p].due THEN Append(unread[u], run[p].due[u]) ELSE unread[u]]
  BY DEF CreateReminders
<1>3. run'[p] = [run[p] EXCEPT !.pc = "row", !.todo = DOMAIN run[p].due]
  BY <1>1 DEF RemindersInv, RemindersTypeOK
<1>4. run[p].due \in UNION { [U -> Day] : U \in SUBSET Member }
  BY <1>1 DEF Reminding
<1>5. DOMAIN run[p].due \subseteq Member /\ run[p].due \in [DOMAIN run[p].due -> Day]
  BY <1>4, DueIsAFunction
<1>6. /\ run'[p] \in Reminding /\ run'[p].pc = "row"
      /\ run'[p].due = run[p].due /\ run'[p].alone = run[p].alone
  <2> DEFINE dues == UNION { [U -> Day] : U \in SUBSET Member }
             reminding == [pc : {"replace", "create", "row", "publish"}, due : dues,
                           todo : SUBSET Member, row : 0..MaxRows, alone : BOOLEAN]
  <2>1. run[p] \in reminding
    BY <1>1 DEF Reminding
  <2> HIDE DEF dues
  <2>2. run'[p] \in reminding
    BY <1>3, <1>5, <2>1
  <2>3. run'[p].pc = "row" /\ run'[p].due = run[p].due /\ run'[p].alone = run[p].alone
    BY <1>3, <2>1
  <2> QED
    BY <2>2, <2>3 DEF Reminding, dues
<1>7. run' = [run EXCEPT ![p] = run'[p]]
  BY <1>1, <1>3
<1>8. unread \in [Member -> Seq(Day)]
  BY DEF RemindersInv, RemindersTypeOK
<1>9. ASSUME run[p].alone PROVE Knows(run[p])'
  <2>1. Knows(run[p])
    BY <1>1, <1>9 DEF RemindersInv, AloneRunsKnow, Alone
  <2>2. ASSUME NEW u \in DOMAIN run[p].due PROVE unread'[u] = <<run[p].due[u]>>
    <3>1. unread[u] = <<>> /\ u \in Member /\ run[p].due[u] \in Day
      BY <1>1, <1>5, <2>1 DEF Knows
    <3>2. unread'[u] = Append(<<>>, run[p].due[u])
      BY <1>2, <3>1
    <3> QED
      BY <3>1, <3>2
  <2> QED
    BY <1>1, <1>6, <2>1, <2>2 DEF Knows, NotHereSince, IsAway, DaysAway, Since
<1>10. FoundIsRight(run[p])'
  BY <1>6 DEF FoundIsRight
<1>11. ~tidy' /\ tidy' \in BOOLEAN
  BY <1>1 DEF RemindersInv, RemindersTypeOK, AloneMeansAlone
<1>12. TidyMeansReminded'
  BY <1>11 DEF TidyMeansReminded
<1>13. unread' \in [Member -> Seq(Day)]
  <2>1. \A u \in Member : u \in DOMAIN run[p].due => Append(unread[u], run[p].due[u]) \in Seq(Day)
    BY <1>5, <1>8
  <2> QED
    BY <1>2, <1>8, <2>1
<1>14. mishaps' \in 0..MaxMishaps /\ mishaps' >= mishaps
  BY <1>1, RemindersAssumption DEF RemindersInv, RemindersTypeOK
<1> QED
  BY <1>1, <1>6, <1>7, <1>9, <1>10, <1>11, <1>12, <1>13, <1>14, JobStepOK

LEMMA BackfillOK == ASSUME RemindersInv, NEW p \in Runner, NEW u \in Member, Backfill(p, u) PROVE RemindersInv'
<1>1. /\ run[p].pc = "fill" /\ run[p] # Unoccupied /\ run[p] \in Reading /\ u \in run[p].todo
      /\ UNCHANGED <<now, supabase, seen, unnoted, tidy, unread, mails, waiting, mailer, mishaps>>
      /\ run' = [run EXCEPT ![p] = [run[p] EXCEPT !.list[u] = run[p].found[u], !.todo = @ \ {u}]]
      /\ lastActiveAt' = [lastActiveAt EXCEPT ![u] = IF @ = Never THEN run[p].found[u] ELSE @]
  BY RunsByPc DEF Backfill, FillMissing, Goes, mailVars, Unoccupied, RemindersInv
<1>2. run'[p] = [run[p] EXCEPT !.list[u] = run[p].found[u], !.todo = @ \ {u}]
  BY <1>1 DEF RemindersInv, RemindersTypeOK
<1> DEFINE days == [Member -> Day \cup {Never}]
           reading == [pc : {"fill"}, list : days, found : days, todo : SUBSET Member, alone : BOOLEAN]
<1>3. run[p] \in reading /\ lastActiveAt \in days /\ seen \in days
  BY <1>1 DEF Reading, RemindersInv, RemindersTypeOK
<1>4. run[p].found[u] \in Day \cup {Never} /\ run[p].found \in days /\ run[p].list \in days
  BY <1>3
<1>5. [run[p].list EXCEPT ![u] = run[p].found[u]] \in days /\ lastActiveAt' \in days
  BY <1>1, <1>3, <1>4
<1>6. /\ \A v \in Member \ {u} : lastActiveAt'[v] = lastActiveAt[v]
      /\ lastActiveAt'[u] = IF lastActiveAt[u] = Never THEN run[p].found[u] ELSE lastActiveAt[u]
  BY <1>1, <1>3
<1>7. /\ [run[p].list EXCEPT ![u] = run[p].found[u]][u] = run[p].found[u]
      /\ \A v \in Member \ {u} : [run[p].list EXCEPT ![u] = run[p].found[u]][v] = run[p].list[v]
  BY <1>4
<1> HIDE DEF days
<1>8. /\ run'[p].pc = "fill" /\ run'[p].list = [run[p].list EXCEPT ![u] = run[p].found[u]]
      /\ run'[p].found = run[p].found /\ run'[p].todo = run[p].todo \ {u} /\ run'[p].alone = run[p].alone
  BY <1>2, <1>3
<1>9. run'[p] \in reading
  BY <1>2, <1>3, <1>5
<1>10. run'[p] \in Reading
  BY <1>9 DEF Reading, days
<1>11. run' = [run EXCEPT ![p] = run'[p]]
  BY <1>1, <1>2
<1>12. FoundIsRight(run[p])
  BY DEF RemindersInv, FoundWasSeen
<1>13. run[p].found[u] # Never /\ seen[u] # Never /\ run[p].found[u] <= seen[u] /\ run[p].list[u] = Never
  BY <1>1, <1>12 DEF FoundIsRight
<1>14. FoundIsRight(run[p])'
  BY <1>1, <1>7, <1>8, <1>12 DEF FoundIsRight
<1>15. Never # now
  BY RemindersAssumption DEF RemindersInv, RemindersTypeOK
<1>16. ASSUME run[p].alone PROVE Knows(run[p])'
  <2> SUFFICES ASSUME NEW v \in Member, NotHereSince(v)' PROVE run'[p].list[v] = lastActiveAt'[v]
    BY <1>8 DEF Knows
  <2>1. Knows(run[p])
    BY <1>1, <1>16 DEF RemindersInv, AloneRunsKnow, Alone
  <2>2. CASE v # u
    <3>1. NotHereSince(v)
      BY <1>1, <1>6, <2>2 DEF NotHereSince
    <3> QED
      BY <1>1, <1>6, <1>7, <1>8, <2>1, <2>2, <3>1 DEF Knows
  <2>3. CASE v = u
    <3>1. lastActiveAt[u] = Never
      <4> SUFFICES ASSUME lastActiveAt[u] # Never PROVE FALSE
        OBVIOUS
      <4>1. NotHereSince(u)
        BY <1>1, <1>6, <2>3 DEF NotHereSince
      <4> QED
        BY <1>1, <1>13, <2>1, <4>1 DEF Knows
    <3> QED
      BY <1>6, <1>7, <1>8, <2>3, <3>1
  <2> QED
    BY <2>2, <2>3
<1>17. ~tidy /\ tidy' = FALSE
  BY <1>1 DEF RemindersInv, RemindersTypeOK, AloneMeansAlone
<1>18. TidyMeansReminded'
  BY <1>17 DEF TidyMeansReminded
<1>19. /\ run' \in [Runner -> Reading \cup Reminding \cup {Unoccupied}]
       /\ FoundWasSeen' /\ AloneMeansAlone' /\ AloneRunsKnow'
  BY <1>1, <1>8, <1>10, <1>11, <1>14, <1>16, <1>17, GoesOK
<1>20. VisitsAreKnown'
  <2> SUFFICES ASSUME NEW v \in Member
               PROVE  /\ lastActiveAt'[v] # Never => seen[v] # Never /\ lastActiveAt'[v] <= seen[v]
                      /\ seen[v] # Never /\ seen[v] > 0 /\ v \notin unnoted => lastActiveAt'[v] = seen[v]
    BY <1>1 DEF RemindersInv, VisitsAreKnown
  <2>1. /\ lastActiveAt[v] # Never => seen[v] # Never /\ lastActiveAt[v] <= seen[v]
        /\ seen[v] # Never /\ seen[v] > 0 /\ v \notin unnoted => lastActiveAt[v] = seen[v]
    BY DEF RemindersInv, VisitsAreKnown
  <2> QED
    BY <1>6, <1>13, <2>1
<1>21. MailsAreFew' /\ MailsAreCounted' /\ MailerHasItsMail' /\ QueuedOnce'
  <2>1. \A q \in Runner : run'[q].pc = "publish" => run'[q] = run[q]
    <3>1. run \in [Runner -> Reading \cup Reminding \cup {Unoccupied}]
      BY DEF RemindersInv, RemindersTypeOK
    <3>2. \A q \in Runner \ {p} : run'[q] = run[q]
      BY <1>11, <3>1
    <3> QED
      BY <1>8, <3>2
  <2>2. mishaps' \in Nat /\ mishaps' >= mishaps
    BY <1>1, RemindersAssumption DEF RemindersInv, RemindersTypeOK
  <2> QED
    BY <1>1, <2>1, <2>2, MailsStay
<1>22. RemindersTypeOK'
  <2>1. /\ now' \in Day /\ mishaps' \in 0..MaxMishaps /\ unnoted' \subseteq Member
        /\ supabase' \in [Member -> Day \cup {Never}] /\ seen' \in [Member -> Day \cup {Never}]
        /\ unread' \in [Member -> Seq(Day)] /\ mails' \in Seq(Mail) /\ mailer' \in Mailing \cup {Unoccupied}
    BY <1>1 DEF RemindersInv, RemindersTypeOK
  <2>2. waiting \in [DOMAIN mails -> Nat]
    BY DEF RemindersInv, RemindersTypeOK
  <2>3. waiting' \in [DOMAIN mails' -> Nat]
    BY <1>1, <2>2
  <2>4. lastActiveAt' \in [Member -> Day \cup {Never}]
    BY <1>5 DEF days
  <2> QED
    BY <1>17, <1>19, <2>1, <2>3, <2>4 DEF RemindersTypeOK
<1> QED
  BY <1>18, <1>19, <1>20, <1>21, <1>22 DEF RemindersInv

LEMMA StartOK == ASSUME RemindersInv, NEW p \in Runner, Start(p) PROVE RemindersInv'
<1>1. /\ run[p] = Unoccupied /\ tidy' = FALSE
      /\ UNCHANGED <<now, lastActiveAt, supabase, seen, unnoted, unread, mails, waiting, mailer, mishaps>>
  BY DEF Start, mailVars
<1>2. PICK answers \in BOOLEAN :
        LET found == [u \in Member |-> IF lastActiveAt[u] = Never /\ answers THEN supabase[u] ELSE Never] IN
        run' = [q \in Runner |->
          IF q = p THEN [pc |-> "fill", list |-> lastActiveAt, found |-> found, todo |-> { u \in Member : found[u] # Never },
                         alone |-> OtherRuns(p) = {}]
          ELSE IF q \in OtherRuns(p) THEN [run[q] EXCEPT !.alone = FALSE] ELSE Unoccupied]
  BY DEF Start
<1> DEFINE found == [u \in Member |-> IF lastActiveAt[u] = Never /\ answers THEN supabase[u] ELSE Never]
           todo == { u \in Member : found[u] # Never }
<1>3. /\ run'[p] = [pc |-> "fill", list |-> lastActiveAt, found |-> found, todo |-> todo, alone |-> OtherRuns(p) = {}]
      /\ \A q \in OtherRuns(p) : q # p => run'[q] = [run[q] EXCEPT !.alone = FALSE]
      /\ \A q \in Runner \ {p} : q \notin OtherRuns(p) => run'[q] = Unoccupied
      /\ run' = [q \in Runner |-> run'[q]]
  BY <1>2 DEF OtherRuns
<1>4. now \in Day /\ {lastActiveAt, supabase} \subseteq [Member -> Day \cup {Never}]
  BY DEF RemindersInv, RemindersTypeOK
<1>5. /\ found \in [Member -> Day \cup {Never}]
      /\ \A u \in Member : found[u] # Never => lastActiveAt[u] = Never /\ found[u] = supabase[u]
  BY <1>4
<1>6. todo \subseteq Member /\ \A u \in todo : found[u] # Never
  OBVIOUS
<1> HIDE DEF found, todo
<1>7. run'[p] \in Reading
  BY <1>3, <1>4, <1>5, <1>6 DEF Reading
<1>8. ASSUME NEW q \in OtherRuns(p)
      PROVE  /\ run'[q] \in Reading \cup Reminding /\ run'[q].alone = FALSE /\ run'[q] # Unoccupied
             /\ run'[q].pc = run[q].pc
             /\ run[q].pc = "fill" => /\ run'[q].found = run[q].found /\ run'[q].todo = run[q].todo
                                      /\ run'[q].list = run[q].list
             /\ run[q].pc = "publish" => run'[q].row = run[q].row
  <2>1. q \in Runner \ {p} /\ run[q] # Unoccupied /\ run'[q] = [run[q] EXCEPT !.alone = FALSE]
    BY <1>3 DEF OtherRuns
  <2> DEFINE days == [Member -> Day \cup {Never}]
             dues == UNION { [U -> Day] : U \in SUBSET Member }
  <2>2. run[q] \in Reading \/ run[q] \in Reminding
    BY <2>1 DEF RemindersInv, RemindersTypeOK
  <2>3. CASE run[q] \in Reading
    <3>1. run[q] \in [pc : {"fill"}, list : days, found : days, todo : SUBSET Member, alone : BOOLEAN]
      BY <2>3 DEF Reading
    <3> HIDE DEF days
    <3>2. /\ run'[q] \in [pc : {"fill"}, list : days, found : days, todo : SUBSET Member, alone : BOOLEAN]
          /\ run'[q].alone = FALSE /\ run'[q].pc = "fill" /\ run[q].pc = "fill"
          /\ run'[q].found = run[q].found /\ run'[q].todo = run[q].todo /\ run'[q].list = run[q].list
      BY <2>1, <3>1
    <3>3. run'[q] \in Reading
      BY <3>2 DEF Reading, days
    <3> QED
      BY <3>2, <3>3 DEF Unoccupied
  <2>4. CASE run[q] \in Reminding
    <3> DEFINE pcs == {"replace", "create", "row", "publish"}
    <3>1. run[q] \in [pc : pcs, due : dues, todo : SUBSET Member, row : 0..MaxRows, alone : BOOLEAN]
      BY <2>4 DEF Reminding
    <3> HIDE DEF dues
    <3>2. /\ run'[q] \in [pc : pcs, due : dues, todo : SUBSET Member, row : 0..MaxRows, alone : BOOLEAN]
          /\ run'[q].alone = FALSE /\ run'[q].pc = run[q].pc /\ run[q].pc \in pcs /\ run'[q].row = run[q].row
      BY <2>1, <3>1
    <3>3. run'[q] \in Reminding
      BY <3>2 DEF Reminding, dues
    <3> QED
      BY <3>2, <3>3 DEF Unoccupied
  <2> QED
    BY <2>2, <2>3, <2>4
<1>9. \A q \in Runner : q = p \/ q \in OtherRuns(p) \/ (q \in Runner \ {p} /\ q \notin OtherRuns(p))
  BY DEF OtherRuns
<1>10. run' \in [Runner -> Reading \cup Reminding \cup {Unoccupied}]
  <2> DEFINE doing == Reading \cup Reminding \cup {Unoccupied}
  <2>1. \A q \in OtherRuns(p) : run'[q] \in doing
    BY <1>8
  <2>2. run'[p] \in doing /\ Unoccupied \in doing
    BY <1>7
  <2> HIDE DEF doing
  <2>3. \A q \in Runner : run'[q] \in doing
    BY <1>3, <1>9, <2>1, <2>2
  <2>4. run' \in [Runner -> doing]
    BY <1>3, <2>3
  <2> QED
    BY <2>4 DEF doing
<1>11. FoundWasSeen'
  <2>1. FoundIsRight(run[p])'
    <3> SUFFICES ASSUME NEW u \in Member
                 PROVE  /\ found[u] # Never => seen[u] # Never /\ found[u] <= seen[u]
                        /\ u \in todo => found[u] # Never /\ lastActiveAt[u] = Never
      BY <1>1, <1>3 DEF FoundIsRight
    <3>1. supabase[u] # Never => seen[u] # Never /\ supabase[u] <= seen[u]
      BY DEF RemindersInv, VisitsAreKnown
    <3> QED
      BY <1>5, <1>6, <3>1
  <2>2. ASSUME NEW q \in OtherRuns(p) PROVE FoundIsRight(run[q])'
    <3>1. FoundIsRight(run[q])
      BY DEF RemindersInv, FoundWasSeen, OtherRuns
    <3> QED
      BY <1>1, <1>8, <3>1 DEF FoundIsRight
  <2>3. ASSUME NEW q \in Runner \ {p}, q \notin OtherRuns(p) PROVE FoundIsRight(run[q])'
    BY <1>3, <2>3 DEF FoundIsRight, Unoccupied
  <2> QED
    BY <1>9, <2>1, <2>2, <2>3 DEF FoundWasSeen
<1>12. \A q \in Runner \ {p} : ~Alone(q)'
  BY <1>3, <1>8, <1>9 DEF Alone
<1>13. AloneMeansAlone'
  <2>1. ASSUME Alone(p)', NEW q \in Runner \ {p} PROVE run'[q] = Unoccupied
    <3>1. CASE OtherRuns(p) = {}
      BY <1>3, <3>1
    <3>2. CASE OtherRuns(p) # {}
      <4>1. (OtherRuns(p) = {}) = FALSE
        BY <3>2
      <4>2. run'[p] = [pc |-> "fill", list |-> lastActiveAt, found |-> found, todo |-> todo, alone |-> FALSE]
        BY <1>3, <4>1
      <4> QED
        BY <2>1, <4>2 DEF Alone
    <3> QED
      BY <3>1, <3>2
  <2> QED
    BY <1>1, <1>12, <2>1 DEF AloneMeansAlone
<1>14. AloneRunsKnow'
  <2>1. Knows(run[p])'
    BY <1>1, <1>3 DEF Knows
  <2> QED
    BY <1>12, <2>1 DEF AloneRunsKnow
<1>15. TidyMeansReminded'
  BY <1>1 DEF TidyMeansReminded
<1>16. mails' = mails /\ waiting' = waiting /\ mailer' = mailer /\ mishaps' = mishaps
  BY <1>1
<1>17. MailsAreFew' /\ MailsAreCounted' /\ MailerHasItsMail'
  BY <1>16 DEF RemindersInv, MailsAreFew, MailsAreCounted, MailerHasItsMail
<1>18. QueuedOnce'
  <2>1. ASSUME NEW q \in Runner, run'[q].pc = "publish"
        PROVE  run[q].pc = "publish" /\ run'[q].row = run[q].row
    <3>1. q # p
      BY <1>3, <2>1
    <3>2. q \in OtherRuns(p)
      BY <1>3, <2>1, <3>1 DEF Unoccupied
    <3> QED
      BY <1>8, <2>1, <3>2
  <2> QED
    BY <1>16, <2>1 DEF RemindersInv, QueuedOnce
<1>19. RemindersTypeOK'
  <2>1. /\ now' \in Day /\ mishaps' \in 0..MaxMishaps /\ unnoted' \subseteq Member
        /\ {lastActiveAt', supabase'} \subseteq [Member -> Day \cup {Never}] /\ seen' \in [Member -> Day \cup {Never}]
        /\ unread' \in [Member -> Seq(Day)] /\ mails' \in Seq(Mail) /\ mailer' \in Mailing \cup {Unoccupied}
    BY <1>1 DEF RemindersInv, RemindersTypeOK
  <2>2. waiting \in [DOMAIN mails -> Nat]
    BY DEF RemindersInv, RemindersTypeOK
  <2>3. waiting' \in [DOMAIN mails' -> Nat]
    BY <1>16, <2>2
  <2> QED
    BY <1>1, <1>10, <2>1, <2>3 DEF RemindersTypeOK
<1>20. VisitsAreKnown'
  BY <1>1, VisitsStay
<1> QED
  BY <1>11, <1>13, <1>14, <1>15, <1>17, <1>18, <1>19, <1>20 DEF RemindersInv

(* The consumer has nothing to do with the job                               *)
LEMMA JobStays ==
  ASSUME RemindersInv, UNCHANGED <<now, lastActiveAt, supabase, seen, unnoted, run, tidy, unread>>
  PROVE  /\ VisitsAreKnown' /\ FoundWasSeen' /\ AloneMeansAlone' /\ AloneRunsKnow' /\ TidyMeansReminded'
         /\ now' \in Day /\ tidy' \in BOOLEAN /\ unnoted' \subseteq Member
         /\ {lastActiveAt', supabase'} \subseteq [Member -> Day \cup {Never}] /\ seen' \in [Member -> Day \cup {Never}]
         /\ run' \in [Runner -> Reading \cup Reminding \cup {Unoccupied}]
         /\ unread' \in [Member -> Seq(Day)]
<1>1. VisitsAreKnown'
  BY VisitsStay
<1>2. FoundWasSeen'
  BY DEF RemindersInv, FoundWasSeen, FoundIsRight
<1>3. AloneMeansAlone'
  BY DEF RemindersInv, AloneMeansAlone, Alone
<1>4. AloneRunsKnow'
  BY DEF RemindersInv, AloneRunsKnow, Alone, Knows, NotHereSince, IsAway, DaysAway, Since
<1>5. TidyMeansReminded'
  BY DEF RemindersInv, TidyMeansReminded, IsAway, DaysAway, Since
<1>6. /\ now' \in Day /\ tidy' \in BOOLEAN /\ unnoted' \subseteq Member
      /\ {lastActiveAt', supabase'} \subseteq [Member -> Day \cup {Never}] /\ seen' \in [Member -> Day \cup {Never}]
      /\ run' \in [Runner -> Reading \cup Reminding \cup {Unoccupied}]
      /\ unread' \in [Member -> Seq(Day)]
  BY DEF RemindersInv, RemindersTypeOK
<1> QED
  BY <1>1, <1>2, <1>3, <1>4, <1>5, <1>6

(* One mail changes that no process is about to publish for the first time    *)
LEMMA MailStepOK ==
  ASSUME RemindersInv, UNCHANGED <<now, lastActiveAt, supabase, seen, unnoted, run, tidy, unread>>,
         NEW n \in DOMAIN mails, waiting[n] > 0,
         mails' = [mails EXCEPT ![n] = mails'[n]], mails'[n] \in Mail, mails'[n].user = mails[n].user,
         waiting' = [waiting EXCEPT ![n] = waiting'[n]], waiting'[n] \in Nat,
         mailer' \in Mailing \cup {Unoccupied},
         mishaps' \in 0..MaxMishaps, mishaps' >= mishaps,
         mails'[n].sends <= mails'[n].attempts, mails'[n].mailed + waiting'[n] <= 1 + mishaps',
         mails'[n].status = "completed" => mails'[n].mailed > 0,
         mails'[n].mailed > 0 => mails'[n].user \in Allowed,
         MailerHasItsMail'
  PROVE  RemindersInv'
<1>1. mails \in Seq(Mail) /\ waiting \in [DOMAIN mails -> Nat] /\ mishaps \in Nat /\ mishaps' \in Nat
  BY RemindersAssumption DEF RemindersInv, RemindersTypeOK
<1>2. /\ DOMAIN mails' = DOMAIN mails /\ Len(mails') = Len(mails) /\ mails' \in Seq(Mail)
      /\ \A i \in DOMAIN mails \ {n} : mails'[i] = mails[i]
  <2> DEFINE m == mails'[n]
  <2>1. mails' = [mails EXCEPT ![n] = m] /\ m \in Mail
    OBVIOUS
  <2> HIDE DEF m
  <2> QED
    BY <1>1, <2>1
<1>3. /\ waiting' \in [DOMAIN mails' -> Nat]
      /\ \A i \in DOMAIN mails \ {n} : waiting'[i] = waiting[i]
  <2> DEFINE w == waiting'[n]
  <2>1. waiting' = [waiting EXCEPT ![n] = w] /\ w \in Nat
    OBVIOUS
  <2> HIDE DEF w
  <2> QED
    BY <1>1, <1>2, <2>1
<1>4. MailsAreFew'
  BY <1>2 DEF RemindersInv, MailsAreFew
<1>5. MailsAreCounted'
  <2>1. ASSUME NEW i \in DOMAIN mails, i # n
        PROVE  /\ mails'[i].sends <= mails'[i].attempts /\ mails'[i].mailed + waiting'[i] <= 1 + mishaps'
               /\ mails'[i].status = "completed" => mails'[i].mailed > 0
               /\ mails'[i].mailed > 0 => mails'[i].user \in Allowed
    <3>1. mails'[i] = mails[i] /\ waiting'[i] = waiting[i]
      BY <1>2, <1>3, <2>1
    <3>2. mails[i].mailed \in Nat /\ waiting[i] \in Nat
      BY MailsByNumber DEF RemindersInv
    <3>3. /\ mails[i].sends <= mails[i].attempts /\ mails[i].mailed + waiting[i] <= 1 + mishaps
          /\ mails[i].status = "completed" => mails[i].mailed > 0
          /\ mails[i].mailed > 0 => mails[i].user \in Allowed
      BY DEF RemindersInv, MailsAreCounted
    <3> QED
      BY <1>1, <3>1, <3>2, <3>3
  <2> QED
    BY <1>2, <2>1 DEF MailsAreCounted
<1>6. QueuedOnce'
  <2>1. ASSUME NEW p \in Runner, run[p].pc = "publish"
        PROVE  /\ run[p].row \in DOMAIN mails /\ run[p].row # n
               /\ waiting[run[p].row] = 0 /\ mails[run[p].row].mailed = 0
               /\ \A q \in Runner \ {p} : run[q].pc = "publish" => run[q].row # run[p].row
    BY <2>1 DEF RemindersInv, QueuedOnce
  <2> QED
    BY <1>2, <1>3, <2>1 DEF QueuedOnce
<1>7. /\ VisitsAreKnown' /\ FoundWasSeen' /\ AloneMeansAlone' /\ AloneRunsKnow' /\ TidyMeansReminded'
      /\ now' \in Day /\ tidy' \in BOOLEAN /\ unnoted' \subseteq Member
      /\ {lastActiveAt', supabase'} \subseteq [Member -> Day \cup {Never}] /\ seen' \in [Member -> Day \cup {Never}]
      /\ run' \in [Runner -> Reading \cup Reminding \cup {Unoccupied}]
      /\ unread' \in [Member -> Seq(Day)]
  BY JobStays
<1>8. RemindersTypeOK'
  BY <1>2, <1>3, <1>7 DEF RemindersTypeOK
<1> QED
  BY <1>4, <1>5, <1>6, <1>7, <1>8 DEF RemindersInv

LEMMA SkipOK == ASSUME RemindersInv, NEW n \in DOMAIN mails, Skip(n) PROVE RemindersInv'
<1>1. /\ mailer = Unoccupied /\ waiting[n] > 0 /\ mails[n].user \notin Allowed
      /\ UNCHANGED <<now, lastActiveAt, supabase, seen, unnoted, run, tidy, unread, mailer, mishaps>>
  BY DEF Skip, Unchanged
<1> DEFINE m == [mails[n] EXCEPT !.status = "skipped"]
           w == waiting[n] - 1
<1>2. mails' = [mails EXCEPT ![n] = m] /\ waiting' = [waiting EXCEPT ![n] = w]
  BY DEF Skip, Acked
<1>3. mails[n] \in Mail /\ waiting[n] \in Nat /\ mishaps \in Nat /\ mishaps \in 0..MaxMishaps
  BY MailsByNumber, RemindersAssumption DEF RemindersInv, RemindersTypeOK
<1>4. /\ m \in Mail /\ m.user = mails[n].user /\ m.status = "skipped" /\ m.attempts = mails[n].attempts
      /\ m.sends = mails[n].sends /\ m.mailed = mails[n].mailed /\ m.mailed \in Nat
  BY <1>3 DEF Mail
<1>5. w \in Nat /\ w < waiting[n]
  BY <1>1, <1>3
<1> HIDE DEF m, w
<1>6. mails'[n] = m /\ waiting'[n] = w
  BY <1>2 DEF RemindersInv, RemindersTypeOK
<1>7. /\ mails[n].sends <= mails[n].attempts /\ mails[n].mailed + waiting[n] <= 1 + mishaps
      /\ mails[n].mailed > 0 => mails[n].user \in Allowed
  BY DEF RemindersInv, MailsAreCounted
<1>8. m.sends <= m.attempts /\ m.mailed + w <= 1 + mishaps /\ (m.mailed > 0 => m.user \in Allowed)
  BY <1>3, <1>4, <1>5, <1>7
<1>9. MailerHasItsMail' /\ mailer' \in Mailing \cup {Unoccupied}
  BY <1>1 DEF MailerHasItsMail
<1>10. mishaps' \in 0..MaxMishaps /\ mishaps' >= mishaps
  BY <1>1, <1>3
<1> QED
  BY <1>1, <1>2, <1>4, <1>5, <1>6, <1>8, <1>9, <1>10, MailStepOK

LEMMA ReceiveOK == ASSUME RemindersInv, NEW n \in DOMAIN mails, Receive(n) PROVE RemindersInv'
<1>1. /\ waiting[n] > 0 /\ mails[n].user \in Allowed
      /\ UNCHANGED <<now, lastActiveAt, supabase, seen, unnoted, run, tidy, unread, mails, waiting, mishaps>>
      /\ mailer' = [pc |-> "count", row |-> n, attempts |-> mails[n].attempts + 1]
  BY DEF Receive, Unchanged
<1>2. mails[n].attempts \in Nat /\ n \in Nat /\ mails \in Seq(Mail) /\ waiting \in [DOMAIN mails -> Nat]
  BY MailsByNumber DEF RemindersInv, RemindersTypeOK
<1>3. n \in 1..MaxRows
  BY <1>2, RemindersAssumption DEF RemindersInv, MailsAreFew
<1>4. mailer' \in Mailing
  BY <1>1, <1>2, <1>3 DEF Mailing
<1>5. MailerHasItsMail'
  BY <1>1 DEF MailerHasItsMail
<1>6. MailsAreFew' /\ MailsAreCounted' /\ QueuedOnce'
  <2>1. mails' = mails /\ waiting' = waiting /\ run' = run /\ mishaps' = mishaps
    BY <1>1
  <2> QED
    BY <2>1 DEF RemindersInv, MailsAreFew, MailsAreCounted, QueuedOnce
<1>7. /\ VisitsAreKnown' /\ FoundWasSeen' /\ AloneMeansAlone' /\ AloneRunsKnow' /\ TidyMeansReminded'
      /\ now' \in Day /\ tidy' \in BOOLEAN /\ unnoted' \subseteq Member
      /\ {lastActiveAt', supabase'} \subseteq [Member -> Day \cup {Never}] /\ seen' \in [Member -> Day \cup {Never}]
      /\ run' \in [Runner -> Reading \cup Reminding \cup {Unoccupied}]
      /\ unread' \in [Member -> Seq(Day)]
  BY <1>1, JobStays
<1>8. RemindersTypeOK'
  <2>1. mishaps' \in 0..MaxMishaps
    BY <1>1 DEF RemindersInv, RemindersTypeOK
  <2>2. mails' \in Seq(Mail) /\ waiting' \in [DOMAIN mails' -> Nat]
    BY <1>1, <1>2
  <2> QED
    BY <1>4, <1>7, <2>1, <2>2 DEF RemindersTypeOK
<1> QED
  BY <1>5, <1>6, <1>7, <1>8 DEF RemindersInv

(* A mail that went out, or did not                                          *)
LEMMA TriedMails ==
  ASSUME NEW old \in Mail, NEW more \in 0..1
  PROVE  LET m == [old EXCEPT !.sends = @ + 1, !.mailed = @ + more] IN
         /\ m \in Mail /\ m.user = old.user /\ m.status = old.status /\ m.attempts = old.attempts
         /\ m.sends = old.sends + 1 /\ m.mailed = old.mailed + more
<1> DEFINE m == [old EXCEPT !.sends = @ + 1, !.mailed = @ + more]
           sends == old.sends + 1
           m1 == [old EXCEPT !.sends = sends]
           mailed == m1.mailed + more
           m2 == [m1 EXCEPT !.mailed = mailed]
<1>1. m = m2
  OBVIOUS
<1>2. old.sends \in Nat /\ old.mailed \in Nat
  BY DEF Mail
<1>3. sends \in Nat /\ sends = old.sends + 1
  BY <1>2
<1> HIDE DEF m, sends
<1>4. /\ m1 \in Mail /\ m1.user = old.user /\ m1.status = old.status /\ m1.attempts = old.attempts
      /\ m1.sends = sends /\ m1.mailed = old.mailed
  BY <1>3 DEF Mail
<1> HIDE DEF m1
<1>5. mailed \in Nat /\ mailed = old.mailed + more
  BY <1>2, <1>4
<1> HIDE DEF mailed
<1>6. /\ m2 \in Mail /\ m2.user = old.user /\ m2.status = old.status /\ m2.attempts = old.attempts
      /\ m2.sends = sends /\ m2.mailed = mailed
  BY <1>4, <1>5 DEF Mail
<1> HIDE DEF m2
<1> QED
  BY <1>1, <1>3, <1>5, <1>6 DEF m

LEMMA MailerKnowsItsMail ==
  ASSUME RemindersInv, mailer # Unoccupied
  PROVE  /\ mailer \in Mailing /\ mailer.attempts \in Nat /\ mailer.row \in DOMAIN mails
         /\ waiting[mailer.row] > 0 /\ waiting[mailer.row] \in Nat
         /\ mails[mailer.row] \in Mail /\ mails[mailer.row].user \in Allowed
         /\ mails[mailer.row].sends \in Nat /\ mails[mailer.row].attempts \in Nat /\ mails[mailer.row].mailed \in Nat
         /\ mails[mailer.row].sends <= mails[mailer.row].attempts
         /\ mails[mailer.row].mailed + waiting[mailer.row] <= 1 + mishaps
         /\ mails[mailer.row].status = "completed" => mails[mailer.row].mailed > 0
         /\ mishaps \in Nat
<1>1. mailer \in Mailing /\ mishaps \in Nat
  BY RemindersAssumption DEF RemindersInv, RemindersTypeOK
<1>2. mailer.row \in DOMAIN mails /\ waiting[mailer.row] > 0 /\ mails[mailer.row].user \in Allowed
  BY DEF RemindersInv, MailerHasItsMail
<1>3. mailer.attempts \in Nat
  BY <1>1 DEF Mailing
<1> QED
  BY <1>1, <1>2, <1>3, MailsByNumber DEF RemindersInv, MailsAreCounted

LEMMA CountAttemptOK == ASSUME RemindersInv, CountAttempt PROVE RemindersInv'
<1> DEFINE n == mailer.row
           m == [mails[n] EXCEPT !.status = "in_progress", !.attempts = mailer.attempts]
<1>1. /\ mailer # Unoccupied /\ mailer.pc = "count"
      /\ UNCHANGED <<now, lastActiveAt, supabase, seen, unnoted, run, tidy, unread, waiting, mishaps>>
      /\ mails' = [mails EXCEPT ![n] = m] /\ mailer' = [mailer EXCEPT !.pc = "send"]
  BY DEF CountAttempt, Unchanged
<1>2. /\ mailer \in Mailing /\ mailer.attempts \in Nat /\ n \in DOMAIN mails
      /\ waiting[n] > 0 /\ waiting[n] \in Nat
      /\ mails[n] \in Mail /\ mails[n].user \in Allowed
      /\ mails[n].sends \in Nat /\ mails[n].attempts \in Nat /\ mails[n].mailed \in Nat
      /\ mails[n].sends <= mails[n].attempts
      /\ mails[n].mailed + waiting[n] <= 1 + mishaps
      /\ mishaps \in Nat
  BY <1>1, MailerKnowsItsMail
<1>3. mailer.attempts = mails[n].attempts + 1
  BY <1>1 DEF RemindersInv, MailerHasItsMail
<1>4. /\ m \in Mail /\ m.user = mails[n].user /\ m.status = "in_progress" /\ m.attempts = mailer.attempts
      /\ m.sends = mails[n].sends /\ m.mailed = mails[n].mailed
  BY <1>2 DEF Mail
<1>5. /\ mailer' \in Mailing /\ mailer'.row = n /\ mailer'.pc = "send" /\ mailer'.attempts = mailer.attempts
      /\ mailer' # Unoccupied
  BY <1>1, <1>2 DEF Mailing, Unoccupied
<1> HIDE DEF m, n
<1>6. mails'[n] = m /\ DOMAIN mails' = DOMAIN mails
  BY <1>1, <1>2 DEF RemindersInv, RemindersTypeOK
<1>7. waiting' = [waiting EXCEPT ![n] = waiting'[n]] /\ waiting'[n] = waiting[n]
  BY <1>1 DEF RemindersInv, RemindersTypeOK
<1>8. MailerHasItsMail'
  BY <1>2, <1>3, <1>4, <1>5, <1>6, <1>7 DEF MailerHasItsMail
<1>9. mishaps' \in 0..MaxMishaps /\ mishaps' >= mishaps
  BY <1>1, <1>2 DEF RemindersInv, RemindersTypeOK
<1>10. m.sends <= m.attempts /\ m.mailed + waiting[n] <= 1 + mishaps'
  BY <1>1, <1>2, <1>3, <1>4
<1> QED
  BY <1>1, <1>2, <1>4, <1>5, <1>6, <1>7, <1>8, <1>9, <1>10, MailStepOK

LEMMA SendMailOK == ASSUME RemindersInv, NEW ok \in BOOLEAN, SendMail(ok) PROVE RemindersInv'
<1> DEFINE n == mailer.row
           m == [mails[n] EXCEPT !.status = IF ok THEN "completed" ELSE "failed", !.attempts = mailer.attempts,
                                 !.sends = @ + 1, !.mailed = @ + IF ok THEN 1 ELSE 0]
           w == waiting[n] - 1
<1>1. /\ mailer # Unoccupied /\ mailer.pc = "send" /\ mailer' = Unoccupied
      /\ UNCHANGED <<now, lastActiveAt, supabase, seen, unnoted, run, tidy, unread, mishaps>>
      /\ mails' = [mails EXCEPT ![n] = m] /\ waiting' = [waiting EXCEPT ![n] = w]
  BY DEF SendMail, Unchanged, Acked
<1>2. /\ mailer \in Mailing /\ mailer.attempts \in Nat /\ n \in DOMAIN mails
      /\ waiting[n] > 0 /\ waiting[n] \in Nat
      /\ mails[n] \in Mail /\ mails[n].user \in Allowed
      /\ mails[n].sends \in Nat /\ mails[n].attempts \in Nat /\ mails[n].mailed \in Nat
      /\ mails[n].mailed + waiting[n] <= 1 + mishaps
      /\ mishaps \in Nat
  BY <1>1, MailerKnowsItsMail
<1>3. mailer.attempts = mails[n].attempts /\ mails[n].sends < mails[n].attempts
  BY <1>1 DEF RemindersInv, MailerHasItsMail
<1>4. /\ m \in Mail /\ m.user = mails[n].user /\ m.attempts = mailer.attempts /\ m.sends = mails[n].sends + 1
      /\ m.mailed \in {mails[n].mailed, mails[n].mailed + 1}
      /\ m.status = "completed" => m.mailed = mails[n].mailed + 1
  <2> DEFINE old == mails[n]
             status == IF ok THEN "completed" ELSE "failed"
             attempts == mailer.attempts
             more == IF ok THEN 1 ELSE 0
             ended == [old EXCEPT !.status = status]
             counted == [ended EXCEPT !.attempts = attempts]
             sent == [counted EXCEPT !.sends = @ + 1, !.mailed = @ + more]
  <2>1. /\ more \in 0..1 /\ (status = "completed" => more = 1) /\ status \in {"completed", "failed"}
        /\ old \in Mail /\ attempts \in Nat /\ old.mailed \in Nat
    BY <1>2
  <2>2. m = sent
    OBVIOUS
  <2> HIDE DEF old, status, attempts, more, m
  <2>3. /\ ended \in Mail /\ ended.user = old.user /\ ended.status = status
        /\ ended.sends = old.sends /\ ended.mailed = old.mailed
    BY <2>1 DEF Mail
  <2> HIDE DEF ended
  <2>4. /\ counted \in Mail /\ counted.user = old.user /\ counted.status = status /\ counted.attempts = attempts
        /\ counted.sends = old.sends /\ counted.mailed = old.mailed
    BY <2>1, <2>3 DEF Mail
  <2> HIDE DEF counted
  <2>5. /\ sent \in Mail /\ sent.user = counted.user /\ sent.status = counted.status
        /\ sent.attempts = counted.attempts
        /\ sent.sends = counted.sends + 1 /\ sent.mailed = counted.mailed + more
    BY <2>1, <2>4, TriedMails
  <2> HIDE DEF sent
  <2>6. /\ m \in Mail /\ m.user = old.user /\ m.attempts = attempts /\ m.sends = old.sends + 1
        /\ m.mailed \in {old.mailed, old.mailed + 1}
        /\ m.status = "completed" => m.mailed = old.mailed + 1
    BY <2>1, <2>2, <2>4, <2>5
  <2> QED
    BY <2>6 DEF old, attempts
<1>5. w \in Nat /\ w = waiting[n] - 1
  BY <1>2
<1> HIDE DEF m, n, w
<1>6. mails'[n] = m /\ waiting'[n] = w
  BY <1>1, <1>2 DEF RemindersInv, RemindersTypeOK
<1>7. MailerHasItsMail' /\ mailer' \in Mailing \cup {Unoccupied}
  BY <1>1 DEF MailerHasItsMail, Unoccupied
<1>8. mishaps' \in 0..MaxMishaps /\ mishaps' >= mishaps
  BY <1>1, <1>2 DEF RemindersInv, RemindersTypeOK
<1>9. /\ m.sends <= m.attempts /\ m.mailed + w <= 1 + mishaps'
      /\ m.status = "completed" => m.mailed > 0
  BY <1>1, <1>2, <1>3, <1>4, <1>5
<1> QED
  BY <1>1, <1>2, <1>4, <1>5, <1>6, <1>7, <1>8, <1>9, MailStepOK

LEMMA ConsumerDiesOK == ASSUME RemindersInv, ConsumerDies PROVE RemindersInv'
<1> DEFINE n == mailer.row
           m == [mails[n] EXCEPT !.sends = @ + 1, !.mailed = @ + 1]
<1>1. /\ mailer # Unoccupied /\ mailer' = Unoccupied /\ mishaps < MaxMishaps /\ mishaps' = mishaps + 1
      /\ UNCHANGED <<now, lastActiveAt, supabase, seen, unnoted, run, tidy, unread, waiting>>
      /\ mails' = mails \/ (mailer.pc = "send" /\ mails' = [mails EXCEPT ![n] = m])
  BY DEF ConsumerDies, Mishap, Unchanged
<1>2. /\ mailer \in Mailing /\ n \in DOMAIN mails
      /\ waiting[n] > 0 /\ waiting[n] \in Nat
      /\ mails[n] \in Mail /\ mails[n].user \in Allowed
      /\ mails[n].sends \in Nat /\ mails[n].attempts \in Nat /\ mails[n].mailed \in Nat
      /\ mails[n].sends <= mails[n].attempts
      /\ mails[n].mailed + waiting[n] <= 1 + mishaps
      /\ mails[n].status = "completed" => mails[n].mailed > 0
      /\ mishaps \in Nat
  BY <1>1, MailerKnowsItsMail
<1>3. mailer.pc = "send" => mails[n].sends < mails[n].attempts
  BY <1>1 DEF RemindersInv, MailerHasItsMail
<1>4. /\ m \in Mail /\ m.user = mails[n].user /\ m.attempts = mails[n].attempts /\ m.sends = mails[n].sends + 1
      /\ m.mailed = mails[n].mailed + 1 /\ m.status = mails[n].status
  <2> DEFINE old == mails[n]
             tried == [old EXCEPT !.sends = @ + 1, !.mailed = @ + 1]
  <2>1. old \in Mail /\ m = tried /\ 1 \in 0..1
    BY <1>2
  <2> HIDE DEF old, m
  <2>2. /\ tried \in Mail /\ tried.user = old.user /\ tried.status = old.status /\ tried.attempts = old.attempts
        /\ tried.sends = old.sends + 1 /\ tried.mailed = old.mailed + 1
    BY <2>1, TriedMails
  <2> HIDE DEF tried
  <2> QED
    BY <2>1, <2>2 DEF old
<1> HIDE DEF m, n
<1>5. mails \in Seq(Mail) /\ waiting \in [DOMAIN mails -> Nat]
  BY DEF RemindersInv, RemindersTypeOK
<1>6. waiting' = [waiting EXCEPT ![n] = waiting'[n]] /\ waiting'[n] = waiting[n]
  BY <1>1, <1>5
<1>7. MailerHasItsMail' /\ mailer' \in Mailing \cup {Unoccupied}
  BY <1>1 DEF MailerHasItsMail, Unoccupied
<1>8. mishaps' \in 0..MaxMishaps /\ mishaps' >= mishaps
  BY <1>1, <1>2, RemindersAssumption
<1>9. CASE mails' = mails
  <2>1. mails' = [mails EXCEPT ![n] = mails'[n]] /\ mails'[n] = mails[n]
    BY <1>5, <1>9
  <2>2. mails[n].mailed + waiting[n] <= 1 + mishaps'
    BY <1>1, <1>2
  <2> QED
    BY <1>1, <1>2, <1>6, <1>7, <1>8, <2>1, <2>2, MailStepOK
<1>10. CASE mailer.pc = "send" /\ mails' = [mails EXCEPT ![n] = m]
  <2>1. mails'[n] = m
    BY <1>2, <1>5, <1>10
  <2>2. m.mailed + waiting[n] <= 1 + mishaps' /\ m.sends <= m.attempts /\ m.mailed > 0
    BY <1>1, <1>2, <1>3, <1>4, <1>10
  <2> QED
    BY <1>1, <1>2, <1>4, <1>6, <1>7, <1>8, <1>10, <2>1, <2>2, MailStepOK
<1> QED
  BY <1>1, <1>9, <1>10

LEMMA QueueRowOK == ASSUME RemindersInv, NEW p \in Runner, NEW u \in Member, QueueRow(p, u) PROVE RemindersInv'
<1> DEFINE fresh == [user |-> u, status |-> "draft", attempts |-> 0, sends |-> 0, mailed |-> 0]
           last == Len(mails) + 1
           todo == run[p].todo \ {u}
<1>1. /\ run[p].pc = "row" /\ run[p] # Unoccupied /\ run[p] \in Reminding /\ Len(mails) < MaxRows
      /\ UNCHANGED <<now, lastActiveAt, supabase, seen, unnoted, tidy, unread, mailer, mishaps>>
      /\ mails' = Append(mails, fresh)
      /\ waiting' = [n \in DOMAIN mails' |-> IF n \in DOMAIN mails THEN waiting[n] ELSE 0]
      /\ run' = [run EXCEPT ![p] = [run[p] EXCEPT !.pc = "publish", !.todo = todo, !.row = Len(mails')]]
  BY RunsByPc DEF QueueRow, Goes, Unoccupied, RemindersInv
<1>2. mails \in Seq(Mail) /\ waiting \in [DOMAIN mails -> Nat] /\ mishaps \in Nat /\ Len(mails) \in Nat
  BY RemindersAssumption DEF RemindersInv, RemindersTypeOK
<1>3. fresh \in Mail /\ fresh.sends <= fresh.attempts /\ fresh.mailed = 0 /\ fresh.status = "draft"
  BY DEF Mail
<1> HIDE DEF fresh
<1>4. /\ mails' \in Seq(Mail) /\ Len(mails') = last /\ last \in 1..MaxRows
      /\ DOMAIN mails' = DOMAIN mails \cup {last} /\ last \notin DOMAIN mails
      /\ mails'[last] = fresh /\ \A n \in DOMAIN mails : mails'[n] = mails[n]
  BY <1>1, <1>2, <1>3, RemindersAssumption
<1>5. run' = [run EXCEPT ![p] = [run[p] EXCEPT !.pc = "publish", !.todo = todo, !.row = last]]
  BY <1>1, <1>4
<1> HIDE DEF last
<1>6. /\ waiting' \in [DOMAIN mails' -> Nat] /\ waiting'[last] = 0
      /\ \A n \in DOMAIN mails : waiting'[n] = waiting[n]
  BY <1>1, <1>2, <1>4
<1>7. run'[p] = [run[p] EXCEPT !.pc = "publish", !.todo = todo, !.row = last]
  BY <1>5 DEF RemindersInv, RemindersTypeOK
<1>8. /\ run'[p] \in Reminding /\ run'[p].pc = "publish" /\ run'[p].row = last
      /\ run'[p].due = run[p].due /\ run'[p].alone = run[p].alone
  <2> DEFINE dues == UNION { [U -> Day] : U \in SUBSET Member }
             reminding == [pc : {"replace", "create", "row", "publish"}, due : dues,
                           todo : SUBSET Member, row : 0..MaxRows, alone : BOOLEAN]
  <2>1. run[p] \in reminding
    BY <1>1 DEF Reminding
  <2> HIDE DEF dues
  <2>2. run[p].todo \in SUBSET Member /\ last \in 0..MaxRows
    BY <1>4, <2>1
  <2>3. todo \in SUBSET Member
    BY <2>2
  <2> HIDE DEF todo
  <2>4. run'[p] \in reminding
    BY <1>7, <2>1, <2>2, <2>3
  <2>5. run'[p].pc = "publish" /\ run'[p].row = last /\ run'[p].due = run[p].due /\ run'[p].alone = run[p].alone
    BY <1>7, <2>1
  <2> QED
    BY <2>4, <2>5 DEF Reminding, dues
<1>9. run' = [run EXCEPT ![p] = run'[p]]
  BY <1>5, <1>7
<1>10. \A q \in Runner \ {p} : run'[q] = run[q]
  BY <1>5 DEF RemindersInv, RemindersTypeOK
<1>11. ASSUME run[p].alone PROVE Knows(run[p])'
  <2>1. Knows(run[p])
    BY <1>1, <1>11 DEF RemindersInv, AloneRunsKnow, Alone
  <2> QED
    BY <1>1, <1>8, <2>1 DEF Knows, NotHereSince, IsAway, DaysAway, Since
<1>12. FoundIsRight(run[p])'
  BY <1>8 DEF FoundIsRight
<1>13. ~tidy' /\ tidy' \in BOOLEAN
  BY <1>1 DEF RemindersInv, RemindersTypeOK, AloneMeansAlone
<1>14. /\ run' \in [Runner -> Reading \cup Reminding \cup {Unoccupied}]
       /\ FoundWasSeen' /\ AloneMeansAlone' /\ AloneRunsKnow'
  BY <1>1, <1>8, <1>9, <1>11, <1>12, <1>13, GoesOK
<1>15. TidyMeansReminded'
  BY <1>13 DEF TidyMeansReminded
<1>16. /\ now' \in Day /\ unnoted' \subseteq Member
       /\ {lastActiveAt', supabase'} \subseteq [Member -> Day \cup {Never}] /\ seen' \in [Member -> Day \cup {Never}]
       /\ VisitsAreKnown'
  BY <1>1, VisitsStay
<1>17. MailsAreFew'
  BY <1>4 DEF MailsAreFew
<1>18. MailsAreCounted'
  <2>1. ASSUME NEW n \in DOMAIN mails
        PROVE  /\ mails'[n].sends <= mails'[n].attempts /\ mails'[n].mailed + waiting'[n] <= 1 + mishaps'
               /\ mails'[n].status = "completed" => mails'[n].mailed > 0
               /\ mails'[n].mailed > 0 => mails'[n].user \in Allowed
    <3>1. mails'[n] = mails[n] /\ waiting'[n] = waiting[n] /\ mishaps' = mishaps
      BY <1>1, <1>4, <1>6
    <3> QED
      BY <3>1 DEF RemindersInv, MailsAreCounted
  <2>2. /\ mails'[last].sends <= mails'[last].attempts /\ mails'[last].mailed + waiting'[last] <= 1 + mishaps'
        /\ mails'[last].status # "completed" /\ ~(mails'[last].mailed > 0)
    BY <1>1, <1>2, <1>3, <1>4, <1>6
  <2> QED
    BY <1>4, <2>1, <2>2 DEF MailsAreCounted
<1>19. MailerHasItsMail'
  <2>1. mailer' = mailer
    BY <1>1
  <2> QED
    BY <1>4, <1>6, <2>1 DEF RemindersInv, MailerHasItsMail
<1>20. QueuedOnce'
  <2>1. ASSUME NEW q \in Runner \ {p}, run[q].pc = "publish"
        PROVE  /\ run[q].row \in DOMAIN mails /\ waiting[run[q].row] = 0 /\ mails[run[q].row].mailed = 0
               /\ \A r \in Runner \ {q} : run[r].pc = "publish" => run[r].row # run[q].row
    BY <2>1 DEF RemindersInv, QueuedOnce
  <2>2. ASSUME NEW q \in Runner \ {p}, run'[q].pc = "publish"
        PROVE  /\ run'[q].row \in DOMAIN mails' /\ waiting'[run'[q].row] = 0 /\ mails'[run'[q].row].mailed = 0
               /\ run'[q].row # last
               /\ \A r \in Runner \ {q} : run'[r].pc = "publish" => run'[r].row # run'[q].row
    BY <1>4, <1>6, <1>8, <1>10, <2>1, <2>2
  <2>3. run'[p].row \in DOMAIN mails' /\ waiting'[run'[p].row] = 0 /\ mails'[run'[p].row].mailed = 0
    BY <1>3, <1>4, <1>6, <1>8
  <2> QED
    BY <1>8, <2>2, <2>3 DEF QueuedOnce
<1>21. RemindersTypeOK'
  <2>1. unread' \in [Member -> Seq(Day)] /\ mailer' \in Mailing \cup {Unoccupied} /\ mishaps' \in 0..MaxMishaps
    BY <1>1 DEF RemindersInv, RemindersTypeOK
  <2> QED
    BY <1>4, <1>6, <1>13, <1>14, <1>16, <2>1 DEF RemindersTypeOK
<1> QED
  BY <1>14, <1>15, <1>16, <1>17, <1>18, <1>19, <1>20, <1>21 DEF RemindersInv

LEMMA PublishRowOK == ASSUME RemindersInv, NEW p \in Runner, Publish(p) PROVE RemindersInv'
<1> DEFINE n == run[p].row
           w == waiting[n] + 1
<1>1. /\ run[p].pc = "publish" /\ run[p] # Unoccupied /\ run[p] \in Reminding
      /\ UNCHANGED <<now, lastActiveAt, supabase, seen, unnoted, tidy, unread, mails, mailer, mishaps>>
      /\ waiting' = waiting \/ waiting' = [waiting EXCEPT ![n] = w]
      /\ run' = [run EXCEPT ![p] = [run[p] EXCEPT !.pc = "row"]]
  BY RunsByPc DEF Publish, Goes, Unoccupied, RemindersInv
<1>2. mails \in Seq(Mail) /\ waiting \in [DOMAIN mails -> Nat] /\ mishaps \in Nat
  BY RemindersAssumption DEF RemindersInv, RemindersTypeOK
<1>3. /\ n \in DOMAIN mails /\ waiting[n] = 0 /\ mails[n].mailed = 0
      /\ \A q \in Runner \ {p} : run[q].pc = "publish" => run[q].row # n
  BY <1>1 DEF RemindersInv, QueuedOnce
<1>4. w = 1
  BY <1>3
<1>5. run'[p] = [run[p] EXCEPT !.pc = "row"]
  BY <1>1 DEF RemindersInv, RemindersTypeOK
<1>6. /\ run'[p] \in Reminding /\ run'[p].pc = "row"
      /\ run'[p].due = run[p].due /\ run'[p].alone = run[p].alone
  BY <1>1, <1>5 DEF Reminding
<1>7. run' = [run EXCEPT ![p] = run'[p]]
  BY <1>1, <1>5
<1>8. \A q \in Runner \ {p} : run'[q] = run[q]
  BY <1>1 DEF RemindersInv, RemindersTypeOK
<1> HIDE DEF n, w
<1>9. /\ waiting' \in [DOMAIN mails -> Nat] /\ waiting'[n] \in 0..1
      /\ \A i \in DOMAIN mails \ {n} : waiting'[i] = waiting[i]
  <2>1. CASE waiting' = waiting
    <3>1. waiting'[n] \in 0..1
      BY <1>3, <2>1
    <3> QED
      BY <1>2, <2>1, <3>1
  <2>2. CASE waiting' = [waiting EXCEPT ![n] = w]
    <3>1. w \in Nat /\ w \in 0..1
      BY <1>4
    <3> HIDE DEF w
    <3> QED
      BY <1>2, <1>3, <2>2, <3>1
  <2> QED
    BY <1>1, <2>1, <2>2
<1>10. ASSUME run[p].alone PROVE Knows(run[p])'
  <2>1. Knows(run[p])
    BY <1>1, <1>10 DEF RemindersInv, AloneRunsKnow, Alone
  <2> QED
    BY <1>1, <1>6, <2>1 DEF Knows, NotHereSince, IsAway, DaysAway, Since
<1>11. FoundIsRight(run[p])'
  BY <1>6 DEF FoundIsRight
<1>12. ~tidy' /\ tidy' \in BOOLEAN
  BY <1>1 DEF RemindersInv, RemindersTypeOK, AloneMeansAlone
<1>13. /\ run' \in [Runner -> Reading \cup Reminding \cup {Unoccupied}]
       /\ FoundWasSeen' /\ AloneMeansAlone' /\ AloneRunsKnow'
  BY <1>1, <1>6, <1>7, <1>10, <1>11, <1>12, GoesOK
<1>14. TidyMeansReminded'
  BY <1>12 DEF TidyMeansReminded
<1>15. /\ now' \in Day /\ unnoted' \subseteq Member
       /\ {lastActiveAt', supabase'} \subseteq [Member -> Day \cup {Never}] /\ seen' \in [Member -> Day \cup {Never}]
       /\ VisitsAreKnown'
  BY <1>1, VisitsStay
<1>16. mails' = mails /\ mailer' = mailer /\ mishaps' = mishaps
  BY <1>1
<1>17. MailsAreFew'
  BY <1>16 DEF RemindersInv, MailsAreFew
<1>18. MailsAreCounted'
  <2> SUFFICES ASSUME NEW i \in DOMAIN mails PROVE mails[i].mailed + waiting'[i] <= 1 + mishaps
    BY <1>16 DEF RemindersInv, MailsAreCounted
  <2>1. CASE i = n
    BY <1>2, <1>3, <1>9, <2>1
  <2>2. CASE i # n
    BY <1>9, <2>2 DEF RemindersInv, MailsAreCounted
  <2> QED
    BY <2>1, <2>2
<1>19. MailerHasItsMail'
  <2> SUFFICES ASSUME mailer # Unoccupied PROVE waiting'[mailer.row] > 0
    BY <1>16 DEF RemindersInv, MailerHasItsMail
  <2>1. mailer.row \in DOMAIN mails /\ waiting[mailer.row] > 0
    BY DEF RemindersInv, MailerHasItsMail
  <2> QED
    BY <1>3, <1>9, <2>1
<1>20. QueuedOnce'
  <2>1. ASSUME NEW q \in Runner, run'[q].pc = "publish" PROVE q # p /\ run'[q] = run[q] /\ run[q].pc = "publish"
    BY <1>6, <1>8, <2>1
  <2>2. ASSUME NEW q \in Runner, run[q].pc = "publish", q # p
        PROVE  /\ run[q].row \in DOMAIN mails /\ run[q].row # n /\ waiting[run[q].row] = 0 /\ mails[run[q].row].mailed = 0
               /\ \A r \in Runner \ {q} : run[r].pc = "publish" => run[r].row # run[q].row
    BY <1>3, <2>2 DEF RemindersInv, QueuedOnce
  <2>3. ASSUME NEW q \in Runner, run[q].pc = "publish", q # p PROVE waiting'[run[q].row] = 0
    BY <1>9, <2>2, <2>3
  <2> QED
    BY <1>16, <2>1, <2>2, <2>3 DEF QueuedOnce
<1>21. RemindersTypeOK'
  <2>1. unread' \in [Member -> Seq(Day)] /\ mailer' \in Mailing \cup {Unoccupied} /\ mishaps' \in 0..MaxMishaps
    BY <1>1 DEF RemindersInv, RemindersTypeOK
  <2>2. mails' \in Seq(Mail) /\ waiting' \in [DOMAIN mails' -> Nat]
    BY <1>2, <1>9, <1>16
  <2> QED
    BY <1>12, <1>13, <1>15, <2>1, <2>2 DEF RemindersTypeOK
<1> QED
  BY <1>13, <1>14, <1>15, <1>17, <1>18, <1>19, <1>20, <1>21 DEF RemindersInv

LEMMA RemindersNextOK == ASSUME RemindersInv, [RemindersNext]_reminderVars PROVE RemindersInv'
<1>1. CASE NextDay
  BY <1>1, NextDayOK
<1>2. ASSUME NEW u \in Member, Visit(u) \/ MarkAllAsRead(u) \/ \E i \in DOMAIN unread[u] : MarkAsRead(u, i)
      PROVE  RemindersInv'
  BY <1>2, VisitOK, MarkAllAsReadOK, MarkAsReadOK
<1>3. ASSUME NEW p \in Runner,
             \/ Start(p) \/ FindAway(p) \/ RemoveUnread(p) \/ CreateReminders(p) \/ Publish(p) \/ Finish(p) \/ JobDies(p)
             \/ \E u \in Member : Backfill(p, u) \/ QueueRow(p, u)
      PROVE  RemindersInv'
  BY <1>3, StartOK, FindAwayOK, RemoveUnreadOK, CreateRemindersOK, PublishRowOK, FinishOK, JobDiesOK, BackfillOK,
     QueueRowOK
<1>4. ASSUME NEW n \in DOMAIN mails, Skip(n) \/ Receive(n) PROVE RemindersInv'
  BY <1>4, SkipOK, ReceiveOK
<1>5. CASE CountAttempt \/ (\E ok \in BOOLEAN : SendMail(ok)) \/ ConsumerDies
  BY <1>5, CountAttemptOK, SendMailOK, ConsumerDiesOK
<1>6. CASE UNCHANGED reminderVars
  <2>1. UNCHANGED <<now, lastActiveAt, supabase, seen, unnoted, run, tidy, unread, mails, waiting, mailer, mishaps>>
    BY <1>6 DEF reminderVars
  <2>2. MailsAreFew' /\ MailsAreCounted' /\ MailerHasItsMail' /\ QueuedOnce'
    BY <2>1 DEF RemindersInv, MailsAreFew, MailsAreCounted, MailerHasItsMail, QueuedOnce
  <2>3. mails' \in Seq(Mail) /\ mailer' \in Mailing \cup {Unoccupied} /\ mishaps' \in 0..MaxMishaps
    BY <2>1 DEF RemindersInv, RemindersTypeOK
  <2>4. waiting \in [DOMAIN mails -> Nat]
    BY DEF RemindersInv, RemindersTypeOK
  <2>5. waiting' \in [DOMAIN mails' -> Nat]
    BY <2>1, <2>4
  <2>6. RemindersTypeOK'
    BY <2>1, <2>3, <2>5, JobStays DEF RemindersTypeOK
  <2> QED
    BY <2>1, <2>2, <2>6, JobStays DEF RemindersInv
<1> QED
  BY <1>1, <1>2, <1>3, <1>4, <1>5, <1>6 DEF RemindersNext

(* As long as nothing fails the column is at most a day behind               *)
AtMostADayBehind ==
  mishaps = 0 => \A u \in Member :
    seen[u] # Never /\ seen[u] > 0 => lastActiveAt[u] # Never /\ lastActiveAt[u] + 1 >= seen[u]

(* ... and only a visit could let it fall behind                             *)
LEMMA WithoutVisits ==
  ASSUME RemindersInv, AtMostADayBehind, seen' = seen, mishaps' \in {mishaps, mishaps + 1},
         \A u \in Member : lastActiveAt[u] # Never => lastActiveAt'[u] = lastActiveAt[u]
  PROVE  AtMostADayBehind'
<1>1. mishaps \in Nat
  BY RemindersAssumption DEF RemindersInv, RemindersTypeOK
<1>2. mishaps' = 0 => mishaps = 0
  BY <1>1
<1> QED
  BY <1>2 DEF AtMostADayBehind

LEMMA VisitsAreNotedInTime ==
  ASSUME RemindersInv, AtMostADayBehind, NEW u \in Member, Noted(u), now' = now
  PROVE  AtMostADayBehind'
<1>1. /\ now \in Nat /\ now # Never /\ mishaps \in Nat
      /\ seen \in [Member -> Day \cup {Never}] /\ lastActiveAt \in [Member -> Day \cup {Never}]
  BY RemindersAssumption DEF RemindersInv, RemindersTypeOK, Day
<1>2. SUFFICES ASSUME mishaps' = 0, NEW v \in Member, seen'[v] # Never, seen'[v] > 0
               PROVE  lastActiveAt'[v] # Never /\ lastActiveAt'[v] + 1 >= seen'[v]
  BY DEF AtMostADayBehind
<1>3. mishaps = 0 /\ mishaps' = mishaps
  BY <1>1, <1>2 DEF Noted, Mishap
<1>4. CASE v # u
  <2>1. seen'[v] = seen[v] /\ lastActiveAt'[v] = lastActiveAt[v]
    BY <1>1, <1>4 DEF Noted
  <2> QED
    BY <1>2, <1>3, <2>1 DEF AtMostADayBehind
<1>5. CASE v = u
  <2>1. seen'[u] = now
    BY <1>1 DEF Noted
  <2>2. CASE lastActiveAt' = [lastActiveAt EXCEPT ![u] = now]
    BY <1>1, <1>5, <2>1, <2>2
  <2>3. CASE lastActiveAt' = lastActiveAt /\ SyncedLately(u)
    <3>1. lastActiveAt[u] # Never /\ lastActiveAt[u] + 1 = now
      BY <1>3, <2>3 DEF SyncedLately
    <3> QED
      BY <1>1, <1>5, <2>1, <2>3, <3>1
  <2> QED
    BY <1>1, <1>3, <2>2, <2>3 DEF Noted, Mishap
<1> QED
  BY <1>4, <1>5

LEMMA AtMostADayBehindOK ==
  ASSUME RemindersInv, AtMostADayBehind, [RemindersNext]_reminderVars PROVE AtMostADayBehind'
<1>1. CASE NextDay
  BY <1>1, WithoutVisits DEF NextDay
<1>2. ASSUME NEW u \in Member, Visit(u) \/ MarkAllAsRead(u) \/ \E i \in DOMAIN unread[u] : MarkAsRead(u, i)
      PROVE  AtMostADayBehind'
  BY <1>2, VisitsAreNotedInTime DEF Visit, MarkAllAsRead, MarkAsRead
<1>3. ASSUME NEW p \in Runner,
             \/ FindAway(p) \/ RemoveUnread(p) \/ CreateReminders(p) \/ Publish(p) \/ Finish(p) \/ JobDies(p)
             \/ \E u \in Member : QueueRow(p, u)
      PROVE  AtMostADayBehind'
  BY <1>3, WithoutVisits DEF FindAway, RemoveUnread, CreateReminders, Publish, Finish, JobDies, QueueRow, Mishap
<1>4. ASSUME NEW p \in Runner, Start(p) PROVE AtMostADayBehind'
  BY <1>4, WithoutVisits DEF Start
<1>5. ASSUME NEW p \in Runner, NEW u \in Member, Backfill(p, u) PROVE AtMostADayBehind'
  <2>1. lastActiveAt \in [Member -> Day \cup {Never}]
    BY DEF RemindersInv, RemindersTypeOK
  <2>2. \A v \in Member : lastActiveAt[v] # Never => lastActiveAt'[v] = lastActiveAt[v]
    BY <1>5, <2>1 DEF Backfill, FillMissing
  <2> QED
    BY <1>5, <2>2, WithoutVisits DEF Backfill
<1>6. ASSUME NEW n \in DOMAIN mails, Skip(n) \/ Receive(n) PROVE AtMostADayBehind'
  BY <1>6, WithoutVisits DEF Skip, Receive, Unchanged
<1>7. CASE CountAttempt \/ (\E ok \in BOOLEAN : SendMail(ok)) \/ ConsumerDies
  BY <1>7, WithoutVisits DEF CountAttempt, SendMail, ConsumerDies, Unchanged, Mishap
<1>8. CASE UNCHANGED reminderVars
  BY <1>8, WithoutVisits DEF reminderVars
<1> QED
  BY <1>1, <1>2, <1>3, <1>4, <1>5, <1>6, <1>7, <1>8 DEF RemindersNext

(* Whatever overlaps, dies or is delivered again: the column of a user's last  *)
(* visit is never later than the truth, and at most a day behind while nothing *)
(* fails; after a run that met no other everybody *)
(* away has one unread reminder, which tells the days away; and a reminding     *)
(* mail is counted before it goes out and goes out once, and once more at most  *)
(* for each time the consumer dies, to those only who may get it.               *)
THEOREM AwayPeopleAreReminded == RemindersSpec => []RemindersAreRight
<1>1. RemindersInit => RemindersInv /\ AtMostADayBehind
  <2>1. RemindersInit => AtMostADayBehind
    BY DEF RemindersInit, AtMostADayBehind
  <2> QED
    BY <2>1, RemindersInitOK
<1>2. RemindersInv /\ AtMostADayBehind /\ [RemindersNext]_reminderVars => RemindersInv' /\ AtMostADayBehind'
  BY RemindersNextOK, AtMostADayBehindOK
<1>3. RemindersInv /\ AtMostADayBehind => RemindersAreRight
  <2> SUFFICES ASSUME RemindersInv, AtMostADayBehind PROVE RemindersAreRight
    OBVIOUS
  <2>1. ASSUME NEW u \in Member
        PROVE  /\ lastActiveAt[u] # Never => seen[u] # Never /\ lastActiveAt[u] <= seen[u]
               /\ (lastActiveAt[u] # Never /\ u \notin unnoted /\ seen[u] > 0) => lastActiveAt[u] = seen[u]
               /\ (seen[u] # Never /\ seen[u] > 0 /\ mishaps = 0) =>
                    lastActiveAt[u] # Never /\ lastActiveAt[u] + 1 >= seen[u]
    BY DEF RemindersInv, VisitsAreKnown, AtMostADayBehind
  <2>2. ASSUME NEW u \in Member, tidy, u \notin unnoted, DaysAway(lastActiveAt[u]) >= Threshold
        PROVE  unread[u] = <<DaysAway(lastActiveAt[u])>>
    BY <2>2 DEF RemindersInv, TidyMeansReminded, IsAway
  <2>3. ASSUME NEW n \in DOMAIN mails
        PROVE  /\ mails[n].sends <= mails[n].attempts /\ mails[n].mailed <= 1 + mishaps
               /\ mails[n].status = "completed" => mails[n].mailed > 0
               /\ mails[n].mailed > 0 => mails[n].user \in Allowed
    <3>1. mails[n].mailed \in Nat /\ waiting[n] \in Nat /\ mishaps \in Nat
      BY MailsByNumber, RemindersAssumption DEF RemindersInv, RemindersTypeOK
    <3> QED
      BY <3>1 DEF RemindersInv, MailsAreCounted
  <2> QED
    BY <2>1, <2>2, <2>3 DEF RemindersAreRight
<1> QED
  BY <1>1, <1>2, <1>3, PTL DEF RemindersSpec

=============================================================================
