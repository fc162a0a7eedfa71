----------------------------- MODULE ServicesProofs -----------------------------
(***************************************************************************)
(* Proofs about the shared services, for any number of files, tickets,       *)
(* sessions and accounts and of the requests that deal with them.            *)
(*                                                                         *)
(* Attachments.  Whoever wrote the object of a key has a row of that key, so *)
(* the object a confirmation has verified is that of its own file unless a   *)
(* name is shared; and nobody removes it but a cleanup that took the row and *)
(* a confirmation that rejects what another has found good.                  *)
(*                                                                         *)
(* Downloads.  A ticket that was never read twice at once, nor left where it *)
(* was, has one reader, and is gone before its reader can be served; without *)
(* a crossing there is one request inside, and the lock is there while it    *)
(* streams.                                                                  *)
(*                                                                         *)
(* LoginDevices.  A device the user did not have before is named by one of    *)
(* the sessions the cache knows, and is noticed when it is recorded; a       *)
(* session's device is on record, or a check of it is under way or was lost. *)
(*                                                                         *)
(* SignUps.  A sign-up that did not overlap has read what the row still is,  *)
(* but for what administrators changed since.                                *)
(*                                                                         *)
(* Departments.  What a tree shows is the least set that is closed downwards *)
(* from the tops, and a way up is one without a department twice that ends;  *)
(* both by counting departments.  Without a race nothing goes in circles,    *)
(* and a move that is checked and not yet written knows a set that is closed *)
(* upwards, holds the new parent and does not hold what is moved.            *)
(***************************************************************************)
EXTENDS Services, Departments, FiniteSetTheorems, WellFoundedInduction, TLAPS

-----------------------------------------------------------------------------
(* Attachments: the inductive invariant                                      *)

WritersHaveTheKey ==
  \A k \in DOMAIN stored : stored[k].of \in Rows /\ attachment[stored[k].of].key = k

Kept(f) ==
  /\ attachment[f].key \in DOMAIN stored /\ stored[attachment[f].key].of = f
  /\ f \notin overwritten => stored[attachment[f].key].good

Trusted(f) == f \notin taken \cup dropped /\ ~Shared(f)

GoodFilesAreThere == \A f \in Rows : FoundGood(f) /\ Trusted(f) => Kept(f)

AttachmentsInv ==
  /\ AttachmentsTypeOK
  /\ WritersHaveTheKey
  /\ cleanup.todo \subseteq taken
  /\ GoodFilesAreThere

-----------------------------------------------------------------------------
(* Downloads                                                                 *)

Holds(c, t) == opening[c] # Unopened /\ opening[c].at # "stream" /\ opening[c].ticket = t

TicketsAreUsedUp ==
  \A t \in Ticket \ (shared \cup undeleted) :
    /\ streams[t] \in {0, 1}
    /\ \A c, d \in Opener : Holds(c, t) /\ Holds(d, t) => c = d
    /\ \A c \in Opener : Holds(c, t) => streams[t] = 0
    /\ streams[t] = 1 => ticket[t] = "gone"
    /\ \A c \in Opener : Holds(c, t) /\ opening[c].at # "take" => ticket[t] = "gone"

OneIsInside ==
  ~crossed =>
    /\ \A c, d \in At("stream") \cup At("lock") : c = d
    /\ At("stream") # {} => busy

DownloadsInv == DownloadsTypeOK /\ TicketsAreUsedUp /\ OneIsInside

-----------------------------------------------------------------------------
(* LoginDevices                                                              *)

KnownSessions == { s \in Session : known[s] # NoDevice }

(* Devices that the user did not have before are named by known sessions     *)
DevicesAreNamed ==
  /\ \A b \in Browser : token[b] \in Old \cup KnownSessions \cup {NoDevice}
  /\ \A s \in KnownSessions : known[s] \in Old \cup KnownSessions
  /\ \A c \in Call : call[c] # NoDevice =>
       IF call[c].at = "missed" /\ ~call[c].held THEN call[c].device = call[c].session
       ELSE call[c].device \in Old \cup KnownSessions
  /\ \A n \in notices : n[2] \in KnownSessions

NoticesAreDistinct == \A m, n \in notices : m[2] = n[2] => m = n

ChecksAreUnderWay ==
  \A s \in KnownSessions :
    \/ known[s] \in devices
    \/ s \in lost
    \/ \E c \in Call : /\ call[c] # NoDevice /\ call[c].at # "missed"
                       /\ call[c].session = s /\ call[c].device = known[s]

NewDevicesAreNoticed ==
  Old # {} /\ Fresh = Session =>
    /\ \A c \in Call : call[c] # NoDevice /\ call[c].at = "recording" => call[c].notify
    /\ \A d \in devices \ Old : \E n \in notices : n[2] = d

DevicesInv ==
  /\ DevicesTypeOK
  /\ DevicesAreNamed
  /\ NoticesAreDistinct
  /\ NoticesAreAboutRecords
  /\ ChecksAreUnderWay
  /\ NewDevicesAreNoticed

-----------------------------------------------------------------------------
(* SignUps                                                                   *)

AccountsWereSignedUp ==
  /\ account # Nobody => signUp[account].at = "created"
  /\ \A s \in SignIn : login[s].at # "none" => login[s].account \in Account /\ signUp[login[s].account].at = "created"

RowsStay ==
  \A a \in Account :
    /\ signUp[a].at = "read" /\ signUp[a].read # Nobody => user # Nobody
    /\ signUp[a].at \in {"continue", "created"} => user # Nobody

OthersOverlap ==
  \A a, b \in Account : a # b /\ Running(b) /\ (Running(a) \/ account = a) => signUp[a].overlapped

Linked(a) == user.authId = a /\ (signUp[a].administered \/ (user.active /\ ~user.gone))

ReadingsHold ==
  \A a \in Account : ~signUp[a].overlapped =>
    /\ signUp[a].at = "read" =>
         LET read == signUp[a].read IN
         IF read = Nobody THEN user = Nobody
         ELSE user.authId = read.authId /\ (signUp[a].administered \/ user = read)
    /\ signUp[a].at = "continue" \/ account = a => Linked(a)

LogsAreInTurn ==
  \A s \in SignIn : /\ login[s].at = "none" => login[s].logged = FALSE
                    /\ login[s].at = "filling" => login[s].logged = TRUE

SignUpsInv ==
  /\ SignUpsTypeOK
  /\ AccountsWereSignedUp
  /\ RowsStay
  /\ OthersOverlap
  /\ ReadingsHold
  /\ LogsAreInTurn
  /\ LoginsAreLogged

-----------------------------------------------------------------------------
(* Downloads: every step keeps the invariant                                 *)

Inside == At("stream") \cup At("lock")

(* A request that has not opened a link is nowhere                           *)
LEMMA OpenersAreTyped ==
  ASSUME DownloadsTypeOK
  PROVE  /\ \A c \in Opener : opening[c] # Unopened =>
              /\ opening[c] = [at |-> opening[c].at, ticket |-> opening[c].ticket]
              /\ opening[c].at \in {"take", "check", "lock", "stream"} /\ opening[c].ticket \in Ticket
         /\ \A c \in Opener : opening[c] = Unopened => opening[c].at = "idle"
  BY DEF DownloadsTypeOK, Unopened

(* A request that goes on keeps its ticket; one that leaves has none         *)
LEMMA OpenersMove ==
  ASSUME DownloadsTypeOK, NEW c \in Opener
  PROVE  /\ \A place \in {"take", "check", "lock", "stream"} : Moves(c, place) /\ opening[c] # Unopened =>
              /\ opening' \in [Opener -> [at : {"take", "check", "lock", "stream"}, ticket : Ticket] \cup {Unopened}]
              /\ opening'[c] # Unopened /\ opening'[c].at = place /\ opening'[c].ticket = opening[c].ticket
              /\ \A d \in Opener \ {c} : opening'[d] = opening[d]
         /\ Leaves(c) =>
              /\ opening' \in [Opener -> [at : {"take", "check", "lock", "stream"}, ticket : Ticket] \cup {Unopened}]
              /\ opening'[c] = Unopened /\ opening'[c].at = "idle"
              /\ \A d \in Opener \ {c} : opening'[d] = opening[d]
<1>1. ASSUME NEW place \in {"take", "check", "lock", "stream"}, Moves(c, place), opening[c] # Unopened
      PROVE  /\ opening' \in [Opener -> [at : {"take", "check", "lock", "stream"}, ticket : Ticket] \cup {Unopened}]
             /\ opening'[c] # Unopened /\ opening'[c].at = place /\ opening'[c].ticket = opening[c].ticket
             /\ \A d \in Opener \ {c} : opening'[d] = opening[d]
  BY <1>1, OpenersAreTyped DEF DownloadsTypeOK, Moves, Unopened
<1>2. ASSUME Leaves(c)
      PROVE  /\ opening' \in [Opener -> [at : {"take", "check", "lock", "stream"}, ticket : Ticket] \cup {Unopened}]
             /\ opening'[c] = Unopened /\ opening'[c].at = "idle"
             /\ \A d \in Opener \ {c} : opening'[d] = opening[d]
  BY <1>2 DEF DownloadsTypeOK, Leaves, Unopened
<1>. QED BY <1>1, <1>2

LEMMA DownloadsInitOK == DownloadsInit => DownloadsInv
<1>. SUFFICES ASSUME DownloadsInit PROVE DownloadsInv OBVIOUS
<1>1. DownloadsTypeOK BY DEF DownloadsInit, DownloadsTypeOK
<1>2. \A c \in Opener : opening[c] = Unopened /\ opening[c].at = "idle" BY DEF DownloadsInit, Unopened
<1>3. TicketsAreUsedUp BY <1>2 DEF DownloadsInit, TicketsAreUsedUp, Holds
<1>4. OneIsInside BY <1>2 DEF OneIsInside, At
<1>. QED BY <1>1, <1>3, <1>4 DEF DownloadsInv

LEMMA ReadTicketOK ==
  ASSUME DownloadsInv, NEW c \in Opener, NEW t \in Ticket, ReadTicket(c, t) PROVE DownloadsInv'
<1>. USE DEF DownloadsInv
<1>1. /\ opening' \in [Opener -> [at : {"take", "check", "lock", "stream"}, ticket : Ticket] \cup {Unopened}]
      /\ opening'[c] # Unopened /\ opening'[c].at = "take" /\ opening'[c].ticket = t
      /\ \A d \in Opener \ {c} : opening'[d] = opening[d]
  BY DEF DownloadsTypeOK, ReadTicket, Unopened
<1>2. opening[c] = Unopened /\ ticket[t] = "kept" /\ UNCHANGED <<ticket, busy, streams, undeleted, crossed>>
  BY DEF ReadTicket
<1>3. shared \subseteq shared' /\ shared' \subseteq shared \cup {t}
      /\ (\A o \in Opener : opening[o].at = "take" /\ opening[o].ticket = t => t \in shared')
  BY DEF ReadTicket, At
<1>4. DownloadsTypeOK' BY <1>1, <1>2, <1>3 DEF DownloadsTypeOK
<1>5. TicketsAreUsedUp'
  <2>. SUFFICES ASSUME NEW u \in Ticket \ (shared' \cup undeleted)
       PROVE  /\ streams[u] \in {0, 1}
              /\ \A d, e \in Opener : Holds(d, u)' /\ Holds(e, u)' => d = e
              /\ \A d \in Opener : Holds(d, u)' => streams[u] = 0
              /\ streams[u] = 1 => ticket[u] = "gone"
              /\ \A d \in Opener : Holds(d, u)' /\ opening'[d].at # "take" => ticket[u] = "gone"
    BY <1>2 DEF TicketsAreUsedUp
  <2>1. u \in Ticket \ (shared \cup undeleted) BY <1>3
  <2>2. \A d \in Opener : Holds(d, u)' <=> Holds(d, u) \/ (d = c /\ u = t)
    BY <1>1, <1>2 DEF Holds
  <2>3. u = t => \A d \in Opener : ~Holds(d, u)
    BY <1>2, <1>3, <2>1, OpenersAreTyped DEF TicketsAreUsedUp, Holds
  <2>4. u = t => streams[u] # 1 BY <1>2, <2>1 DEF TicketsAreUsedUp
  <2>. QED BY <1>1, <1>2, <2>1, <2>2, <2>3, <2>4 DEF TicketsAreUsedUp
<1>6. OneIsInside'
  <2>1. \A place \in {"stream", "lock"} : At(place)' = At(place) BY <1>1, <1>2, OpenersAreTyped DEF At
  <2>. QED BY <1>2, <2>1 DEF OneIsInside
<1>. QED BY <1>4, <1>5, <1>6

(* A request goes on with its ticket, from one place to another              *)
LEMMA HoldsAfterMove ==
  ASSUME DownloadsTypeOK, NEW c \in Opener, opening[c] # Unopened,
         NEW place \in {"take", "check", "lock", "stream"}, Moves(c, place)
  PROVE  /\ \A u \in Ticket, d \in Opener : Holds(d, u)' => d = c \/ Holds(d, u)
         /\ \A u \in Ticket : Holds(c, u)' <=> place # "stream" /\ opening[c].ticket = u
         /\ \A d \in Opener \ {c} : opening'[d] = opening[d]
         /\ opening'[c].at = place
         /\ \A p \in {"take", "check", "lock", "stream"} : At(p)' = IF p = place THEN At(p) \cup {c} ELSE At(p) \ {c}
<1>1. /\ opening'[c] # Unopened /\ opening'[c].at = place /\ opening'[c].ticket = opening[c].ticket
      /\ \A d \in Opener \ {c} : opening'[d] = opening[d]
  BY OpenersMove
<1>. QED BY <1>1 DEF Holds, At

LEMMA HoldsAfterLeaving ==
  ASSUME DownloadsTypeOK, NEW c \in Opener, Leaves(c)
  PROVE  /\ \A u \in Ticket, d \in Opener : Holds(d, u)' => d # c /\ Holds(d, u)
         /\ \A d \in Opener \ {c} : opening'[d] = opening[d]
         /\ \A p \in {"take", "check", "lock", "stream"} : At(p)' = At(p) \ {c}
<1>1. /\ opening'[c] = Unopened /\ opening'[c].at = "idle"
      /\ \A d \in Opener \ {c} : opening'[d] = opening[d]
  BY OpenersMove
<1>. QED BY <1>1 DEF Holds, At

LEMMA TakeTicketOK ==
  ASSUME DownloadsInv, NEW c \in Opener, TakeTicket(c) PROVE DownloadsInv'
<1>. USE DEF DownloadsInv
<1>1. opening[c] # Unopened /\ opening[c].at = "take" /\ opening[c].ticket \in Ticket /\ Moves(c, "check")
      /\ ticket' = [ticket EXCEPT ![opening[c].ticket] = "gone"] /\ UNCHANGED <<busy, streams, shared, undeleted, crossed>>
  BY OpenersAreTyped DEF TakeTicket, At
<1>2. DownloadsTypeOK' BY <1>1, OpenersMove DEF DownloadsTypeOK
<1>3. TicketsAreUsedUp'
  <2>1. \A u \in Ticket, d \in Opener : Holds(d, u)' => Holds(d, u)
    BY <1>1, HoldsAfterMove DEF Holds
  <2>2. \A u \in Ticket : ticket[u] = "gone" \/ opening[c].ticket = u => ticket'[u] = "gone" BY <1>1 DEF DownloadsTypeOK
  <2>3. \A u \in Ticket, d \in Opener : Holds(d, u)' /\ opening'[d].at # "take" =>
          opening[c].ticket = u \/ (Holds(d, u) /\ opening[d].at # "take")
    BY <1>1, HoldsAfterMove
  <2>. QED BY <1>1, <2>1, <2>2, <2>3 DEF TicketsAreUsedUp
<1>4. OneIsInside'
  <2>1. \A place \in {"stream", "lock"} : At(place)' = At(place) BY <1>1, HoldsAfterMove DEF At
  <2>. QED BY <1>1, <2>1 DEF OneIsInside
<1>. QED BY <1>2, <1>3, <1>4

LEMMA CannotTakeTicketOK ==
  ASSUME DownloadsInv, NEW c \in Opener, CannotTakeTicket(c) PROVE DownloadsInv'
<1>. USE DEF DownloadsInv
<1>1. opening[c] # Unopened /\ opening[c].at = "take" /\ opening[c].ticket \in Ticket /\ Moves(c, "check")
      /\ undeleted' = undeleted \cup {opening[c].ticket} /\ UNCHANGED <<ticket, busy, streams, shared, crossed>>
  BY OpenersAreTyped DEF CannotTakeTicket, At
<1>2. DownloadsTypeOK' BY <1>1, OpenersMove DEF DownloadsTypeOK
<1>3. TicketsAreUsedUp'
  <2>1. \A u \in Ticket, d \in Opener : Holds(d, u)' => Holds(d, u)
    BY <1>1, HoldsAfterMove DEF Holds
  <2>2. \A u \in Ticket \ undeleted', d \in Opener :
          Holds(d, u)' /\ opening'[d].at # "take" => Holds(d, u) /\ opening[d].at # "take"
    BY <1>1, HoldsAfterMove
  <2>. QED BY <1>1, <2>1, <2>2 DEF TicketsAreUsedUp
<1>4. OneIsInside'
  <2>1. \A place \in {"stream", "lock"} : At(place)' = At(place) BY <1>1, HoldsAfterMove DEF At
  <2>. QED BY <1>1, <2>1 DEF OneIsInside
<1>. QED BY <1>2, <1>3, <1>4

LEMMA LeavesOK ==
  ASSUME DownloadsInv, NEW c \in Opener, Refuse(c) \/ Unlock(c) \/ Dies(c) PROVE DownloadsInv'
<1>. USE DEF DownloadsInv
<1>1. Leaves(c) /\ UNCHANGED <<ticket, streams, shared, undeleted>> /\ crossed' \in BOOLEAN /\ busy' \in BOOLEAN
  BY DEF Refuse, Unlock, Dies, DownloadsTypeOK
<1>2. DownloadsTypeOK' BY <1>1, OpenersMove DEF DownloadsTypeOK
<1>3. TicketsAreUsedUp' BY <1>1, HoldsAfterLeaving DEF TicketsAreUsedUp
<1>4. OneIsInside'
  <2>1. At("stream")' = At("stream") \ {c} /\ At("lock")' = At("lock") \ {c} BY <1>1, HoldsAfterLeaving
  <2>2. SUFFICES ASSUME ~crossed'
        PROVE  /\ \A d, e \in Inside' : d = e
               /\ At("stream")' # {} => busy'
    BY DEF OneIsInside, Inside
  <2>3. CASE Refuse(c) BY <2>1, <2>2, <2>3 DEF Refuse, OneIsInside, Inside
  <2>4. ASSUME crossed' = (crossed /\ ~Alone(c)), crossed
        PROVE  Inside' = {} /\ At("stream")' = {}
    BY <2>1, <2>2, <2>4 DEF Alone, Inside
  <2>5. ASSUME ~crossed, c \in Inside PROVE Inside' = {} /\ At("stream")' = {}
    BY <2>1, <2>5 DEF OneIsInside, Inside
  <2>6. CASE Unlock(c)
    <3>1. c \in Inside BY <2>6 DEF Unlock, Inside
    <3>. QED BY <3>1, <2>4, <2>5, <2>6 DEF Unlock
  <2>7. CASE Dies(c) /\ ~crossed /\ c \notin Inside
    BY <2>1, <2>7 DEF Dies, OneIsInside, Inside
  <2>8. CASE Dies(c) /\ (crossed \/ c \in Inside)
    BY <2>4, <2>5, <2>8 DEF Dies
  <2>. QED BY <2>3, <2>6, <2>7, <2>8
<1>. QED BY <1>2, <1>3, <1>4

LEMMA FindNoLockOK ==
  ASSUME DownloadsInv, NEW c \in Opener, FindNoLock(c) \/ CannotReadLock(c) PROVE DownloadsInv'
<1>. USE DEF DownloadsInv
<1>1. opening[c] # Unopened /\ opening[c].at = "check" /\ opening[c].ticket \in Ticket /\ Moves(c, "lock")
      /\ UNCHANGED <<ticket, busy, streams, shared, undeleted>>
  BY OpenersAreTyped DEF FindNoLock, CannotReadLock, At
<1>2. crossed' \in BOOLEAN /\ (crossed => crossed') /\ (At("lock") # {} => crossed') /\ (busy /\ At("stream") # {} => crossed')
  BY DEF FindNoLock, CannotReadLock, DownloadsTypeOK
<1>3. DownloadsTypeOK' BY <1>1, <1>2, OpenersMove DEF DownloadsTypeOK
<1>4. TicketsAreUsedUp'
  <2>1. \A u \in Ticket, d \in Opener : Holds(d, u)' => Holds(d, u) /\ (opening'[d].at # "take" => opening[d].at # "take")
    BY <1>1, HoldsAfterMove DEF Holds
  <2>. QED BY <1>1, <2>1 DEF TicketsAreUsedUp
<1>5. OneIsInside'
  <2>1. At("stream")' = At("stream") \ {c} /\ At("lock")' = At("lock") \cup {c} BY <1>1, HoldsAfterMove
  <2>. QED BY <1>1, <1>2, <2>1 DEF OneIsInside
<1>. QED BY <1>3, <1>4, <1>5

LEMMA LockOK ==
  ASSUME DownloadsInv, NEW c \in Opener, Lock(c) \/ CannotLock(c) PROVE DownloadsInv'
<1>. USE DEF DownloadsInv
<1>1. opening[c] # Unopened /\ opening[c].at = "lock" /\ opening[c].ticket \in Ticket /\ Moves(c, "stream")
      /\ streams' = [streams EXCEPT ![opening[c].ticket] = @ + 1] /\ UNCHANGED <<ticket, shared, undeleted>>
  BY OpenersAreTyped DEF Lock, CannotLock, Streams, At
<1>2. busy' \in BOOLEAN /\ crossed' \in BOOLEAN /\ (crossed => crossed') /\ (busy' \/ crossed')
  BY DEF Lock, CannotLock, DownloadsTypeOK
<1>3. DownloadsTypeOK' BY <1>1, <1>2, OpenersMove DEF DownloadsTypeOK
<1>4. TicketsAreUsedUp'
  <2>. SUFFICES ASSUME NEW u \in Ticket \ (shared \cup undeleted)
       PROVE  /\ streams'[u] \in {0, 1}
              /\ \A d, e \in Opener : Holds(d, u)' /\ Holds(e, u)' => d = e
              /\ \A d \in Opener : Holds(d, u)' => streams'[u] = 0
              /\ streams'[u] = 1 => ticket[u] = "gone"
              /\ \A d \in Opener : Holds(d, u)' /\ opening'[d].at # "take" => ticket[u] = "gone"
    BY <1>1 DEF TicketsAreUsedUp
  <2>1. \A d \in Opener : Holds(d, u)' => d # c /\ Holds(d, u) /\ opening'[d] = opening[d]
    BY <1>1, HoldsAfterMove
  <2>2. CASE opening[c].ticket = u
    <3>1. Holds(c, u) BY <1>1, <2>2 DEF Holds
    <3>2. streams[u] = 0 /\ ticket[u] = "gone" BY <1>1, <3>1 DEF TicketsAreUsedUp
    <3>3. streams'[u] = 1 BY <1>1, <2>2, <3>2 DEF DownloadsTypeOK
    <3>4. \A d \in Opener : ~Holds(d, u)' BY <2>1, <3>1 DEF TicketsAreUsedUp
    <3>. QED BY <3>2, <3>3, <3>4
  <2>3. CASE opening[c].ticket # u
    <3>1. streams'[u] = streams[u] BY <1>1, <2>3 DEF DownloadsTypeOK
    <3>. QED BY <2>1, <3>1 DEF TicketsAreUsedUp
  <2>. QED BY <2>2, <2>3
<1>5. OneIsInside'
  <2>1. At("stream")' = At("stream") \cup {c} /\ At("lock")' = At("lock") \ {c} BY <1>1, HoldsAfterMove
  <2>2. c \in At("lock") BY <1>1 DEF At
  <2>. QED BY <1>2, <2>1, <2>2 DEF OneIsInside
<1>. QED BY <1>3, <1>4, <1>5

LEMMA TheCacheChangesOK ==
  ASSUME DownloadsInv, LockExpires \/ (\E t \in Ticket : Prepare(t) \/ TicketExpires(t)) PROVE DownloadsInv'
<1>. USE DEF DownloadsInv
<1>1. UNCHANGED <<opening, streams, shared, undeleted>> BY DEF LockExpires, Prepare, TicketExpires
<1>2. /\ \A c \in Opener, u \in Ticket : Holds(c, u)' <=> Holds(c, u)
      /\ \A place \in {"stream", "lock"} : At(place)' = At(place)
  BY <1>1 DEF Holds, At
<1>3. CASE LockExpires
  <2>1. DownloadsTypeOK' BY <1>3 DEF LockExpires, DownloadsTypeOK
  <2>2. TicketsAreUsedUp' BY <1>1, <1>2, <1>3 DEF LockExpires, TicketsAreUsedUp
  <2>3. OneIsInside' BY <1>2, <1>3 DEF LockExpires, OneIsInside
  <2>. QED BY <2>1, <2>2, <2>3
<1>4. ASSUME NEW t \in Ticket, Prepare(t) \/ TicketExpires(t) PROVE DownloadsInv'
  <2>1. DownloadsTypeOK' BY <1>4 DEF Prepare, TicketExpires, DownloadsTypeOK
  <2>2. \A u \in Ticket : ticket[u] = "gone" => ticket'[u] = "gone" BY <1>4 DEF Prepare, TicketExpires, DownloadsTypeOK
  <2>3. TicketsAreUsedUp' BY <1>1, <1>2, <2>2 DEF TicketsAreUsedUp
  <2>4. OneIsInside' BY <1>2, <1>4 DEF Prepare, TicketExpires, OneIsInside
  <2>. QED BY <2>1, <2>3, <2>4
<1>. QED BY <1>3, <1>4

LEMMA DownloadsStepOK == DownloadsInv /\ [DownloadsNext]_downloadVars => DownloadsInv'
<1>. SUFFICES ASSUME DownloadsInv, [DownloadsNext]_downloadVars PROVE DownloadsInv' OBVIOUS
<1>1. CASE UNCHANGED downloadVars
  BY <1>1 DEF downloadVars, DownloadsInv, DownloadsTypeOK, TicketsAreUsedUp, OneIsInside, Holds, At
<1>2. CASE LockExpires \/ (\E t \in Ticket : Prepare(t) \/ TicketExpires(t)) BY <1>2, TheCacheChangesOK
<1>3. CASE \E c \in Opener, t \in Ticket : ReadTicket(c, t) BY <1>3, ReadTicketOK
<1>4. CASE \E c \in Opener : TakeTicket(c) \/ CannotTakeTicket(c) \/ Refuse(c) \/ FindNoLock(c) \/ CannotReadLock(c)
                           \/ Lock(c) \/ CannotLock(c) \/ Unlock(c) \/ Dies(c)
  BY <1>4, TakeTicketOK, CannotTakeTicketOK, LeavesOK, FindNoLockOK, LockOK
<1>. QED BY <1>1, <1>2, <1>3, <1>4 DEF DownloadsNext

LEMMA DownloadsInvCounts == DownloadsInv => DownloadsAreCounted
<1>. SUFFICES ASSUME DownloadsInv PROVE DownloadsAreCounted OBVIOUS
<1>. USE DEF DownloadsInv
<1>1. TicketsServeOnce BY DEF TicketsServeOnce, TicketsAreUsedUp
<1>2. OneDownloadAtATime
  <2>. SUFFICES ASSUME ~crossed
       PROVE  Cardinality(At("stream")) + Cardinality(At("lock")) <= 1 /\ (At("stream") # {} => busy)
    BY DEF OneDownloadAtATime
  <2>1. At("stream") \cap At("lock") = {} BY DEF At
  <2>2. Cardinality({}) = 0 BY FS_EmptySet
  <2>3. CASE At("stream") = {} /\ At("lock") = {} BY <2>2, <2>3
  <2>4. ASSUME NEW c \in Inside PROVE Cardinality(At("stream")) + Cardinality(At("lock")) <= 1
    <3>1. Cardinality({c}) = 1 BY FS_Singleton
    <3>2. \/ At("stream") = {c} /\ At("lock") = {}
          \/ At("stream") = {} /\ At("lock") = {c}
      BY <2>1 DEF Inside, OneIsInside
    <3>. QED BY <2>2, <3>1, <3>2
  <2>. QED BY <2>3, <2>4 DEF Inside, OneIsInside
<1>. QED BY <1>1, <1>2 DEF DownloadsAreCounted

-----------------------------------------------------------------------------
(* Attachments: helpers                                                      *)

(* Some number of a set of numbers is the smallest                           *)
LEMMA SmallestNumber ==
  ASSUME NEW S, S \subseteq Nat, S # {}
  PROVE  \E n \in S : \A m \in S : n <= m
<1>. DEFINE R == OpToRel(<, Nat)
<1>1. IsWellFoundedOn(R, Nat) BY NatLessThanWellFounded
<1>2. \A a, b \in Nat : a < b => <<a, b>> \in R BY DEF OpToRel
<1>. HIDE DEF R
<1>3. PICK n \in S : \A m \in S : <<m, n>> \notin R BY <1>1, WFMin
<1>4. \A m \in S : n \in Nat /\ m \in Nat /\ ~(m < n) BY <1>2, <1>3
<1>. QED BY <1>4

(* A unique key is one of the file's                                         *)
LEMMA UniqueKeys == \A f \in File : buildUniqueKey(f) \in Key
<1>. TAKE f \in File
<1>. DEFINE free == { i \in 1..MaxNames : <<Name[f], i>> \notin DOMAIN stored }
<1>1. \A x \in (1..MaxNames) \cup File : <<Name[f], x>> \in Key BY DEF Key
<1>2. buildUniqueKey(f) = IF free = {} THEN <<Name[f], f>>
                          ELSE <<Name[f], CHOOSE i \in free : \A j \in free : i <= j>>
  BY DEF buildUniqueKey
<1>3. free \subseteq 1..MaxNames /\ free \subseteq Nat BY AttachmentsAssumption
<1>. HIDE DEF free
<1>4. free # {} => (CHOOSE i \in free : \A j \in free : i <= j) \in 1..MaxNames
  BY <1>3, SmallestNumber
<1>. QED BY <1>1, <1>2, <1>4

(* A row keeps its key, and its status but for the one step that confirms it *)
RowsKeepTheirKeys ==
  /\ Rows \subseteq Rows'
  /\ \A f \in Rows : attachment'[f].key = attachment[f].key

LEMMA AttachmentsAreTyped ==
  ASSUME AttachmentsTypeOK
  PROVE  /\ \A f \in Rows : attachment[f] \in Row
         /\ \A c \in Confirmer : confirming[c] # Absent => confirming[c] \in Confirmation /\ confirming[c].file \in Rows
  BY DEF AttachmentsTypeOK, Rows

LEMMA ConfirmersContinue ==
  ASSUME AttachmentsTypeOK, NEW c \in Confirmer, confirming[c] # Absent,
         NEW at \in {"read", "verify", "reject", "ready", "remove"}, Continues(c, at)
  PROVE  /\ confirming' \in [Confirmer -> Confirmation \cup {Absent}]
         /\ confirming'[c] # Absent /\ confirming'[c].at = at /\ confirming'[c].file = confirming[c].file
         /\ \A d \in Confirmer \ {c} : confirming'[d] = confirming[d]
<1>1. confirming[c] \in Confirmation BY AttachmentsAreTyped
<1>2. LET r == [confirming[c] EXCEPT !.at = at] IN r \in Confirmation /\ r # Absent /\ r.at = at /\ r.file = confirming[c].file
  BY <1>1, AttachmentsAssumption DEF Confirmation
<1>. QED BY <1>2 DEF AttachmentsTypeOK, Continues

(* A confirmation ends                                                       *)
LEMMA ConfirmersEnd ==
  ASSUME AttachmentsTypeOK, NEW c \in Confirmer, confirming' = [confirming EXCEPT ![c] = Absent]
  PROVE  /\ confirming' \in [Confirmer -> Confirmation \cup {Absent}] /\ confirming'[c] = Absent
         /\ \A d \in Confirmer \ {c} : confirming'[d] = confirming[d]
  BY DEF AttachmentsTypeOK

(* Who shares a name goes on to, and nobody is trusted again                 *)
LEMMA TrustIsLost ==
  ASSUME RowsKeepTheirKeys, taken \subseteq taken', dropped \subseteq dropped'
  PROVE  \A f \in Rows : Trusted(f)' => Trusted(f)
  BY DEF RowsKeepTheirKeys, Trusted, Shared

(* What a step has to do: a file that is newly found good is there, and one   *)
(* that was found good and can still be trusted stays there                  *)
LEMMA GoodFilesStay ==
  ASSUME AttachmentsInv, RowsKeepTheirKeys, taken \subseteq taken', dropped \subseteq dropped',
         \A f \in Rows' : FoundGood(f)' /\ Trusted(f)' => f \in Rows /\ (FoundGood(f) \/ Kept(f)'),
         \A f \in Rows : FoundGood(f) /\ Kept(f) /\ Trusted(f)' => Kept(f)'
  PROVE  GoodFilesAreThere'
  BY TrustIsLost DEF AttachmentsInv, GoodFilesAreThere

LEMMA AttachmentsInitOK == AttachmentsInit => AttachmentsInv
<1>. SUFFICES ASSUME AttachmentsInit PROVE AttachmentsInv OBVIOUS
<1>. USE DEF AttachmentsInit
<1>1. Rows = {} BY DEF Rows
<1>2. DOMAIN stored = {} OBVIOUS
<1>3. AttachmentsTypeOK
  <2>1. stored \in [DOMAIN stored -> Object] BY <1>2
  <2>2. cleanup \in [todo : SUBSET Rows, done : SUBSET Rows] BY DEF NoCleanup
  <2>. QED BY <1>1, <1>2, <2>1, <2>2 DEF AttachmentsTypeOK
<1>4. WritersHaveTheKey BY <1>2 DEF WritersHaveTheKey
<1>5. GoodFilesAreThere BY <1>1 DEF GoodFilesAreThere
<1>6. cleanup.todo \subseteq taken BY DEF NoCleanup
<1>. QED BY <1>3, <1>4, <1>5, <1>6 DEF AttachmentsInv

(* Attachments: every step keeps the invariant                               *)

LEMMA PresignOK ==
  ASSUME AttachmentsInv, NEW f \in File, Presign(f) PROVE AttachmentsInv'
<1>. USE DEF AttachmentsInv
<1>1. /\ f \notin Rows /\ UNCHANGED <<stored, parts, old, confirming, cleanup, taken, dropped, overwritten>>
      /\ link' = link \cup {f}
  BY DEF Presign, Rows, histories
<1>2. /\ attachment' \in [File -> Row \cup {Absent}] /\ attachment'[f] # Absent /\ attachment'[f].status = "pending"
      /\ \A g \in File \ {f} : attachment'[g] = attachment[g]
  <2>. DEFINE r == [status |-> "pending", deleted |-> FALSE, key |-> buildUniqueKey(f)]
  <2>1. r \in Row /\ r.status = "pending" BY UniqueKeys DEF Row
  <2>2. attachment' = [attachment EXCEPT ![f] = r] BY DEF Presign
  <2>. HIDE DEF r
  <2>3. r # Absent BY <2>1, AttachmentsAssumption
  <2>. QED BY <2>1, <2>2, <2>3 DEF AttachmentsTypeOK
<1>3. Rows' = Rows \cup {f} BY <1>2 DEF Rows
<1>4. RowsKeepTheirKeys BY <1>1, <1>2, <1>3 DEF RowsKeepTheirKeys, Rows
<1>5. AttachmentsTypeOK' BY <1>1, <1>2, <1>3 DEF AttachmentsTypeOK
<1>6. WritersHaveTheKey' BY <1>1, <1>3, <1>4 DEF WritersHaveTheKey, RowsKeepTheirKeys
<1>7. GoodFilesAreThere'
  <2>1. ~FoundGood(f)' BY <1>1, <1>2, AttachmentsAreTyped DEF FoundGood
  <2>2. \A g \in Rows : (FoundGood(g)' => FoundGood(g)) /\ (Kept(g) => Kept(g)')
    BY <1>1, <1>2 DEF FoundGood, Kept, Rows
  <2>. QED BY <1>1, <1>3, <1>4, <2>1, <2>2, GoodFilesStay
<1>. QED BY <1>1, <1>5, <1>6, <1>7

(* An upload, or parts that are assembled, write the object of a row's key    *)
LEMMA WritingKeeps ==
  ASSUME AttachmentsInv, NEW f \in Rows, NEW good \in BOOLEAN, Writes(f, good), UNCHANGED <<attachment, taken, dropped>>,
         \A g \in Rows : FoundGood(g)' => FoundGood(g)
  PROVE  /\ DOMAIN stored' \subseteq Key /\ stored' \in [DOMAIN stored' -> Object]
         /\ overwritten' \subseteq Rows /\ Rows' = Rows
         /\ WritersHaveTheKey' /\ GoodFilesAreThere'
<1>. USE DEF AttachmentsInv
<1>. DEFINE o == [of |-> f, good |-> good]
            k == attachment[f].key
<1>1. k \in Key /\ o \in Object /\ o.of = f BY AttachmentsAreTyped DEF Row, Rows, Object
<1>2. stored' = Written(k, o) /\ overwritten \subseteq overwritten' /\ overwritten' \subseteq overwritten \cup {f}
      /\ (FoundGood(f) => f \in overwritten')
  BY DEF Writes
<1>. HIDE DEF o
<1>3. DOMAIN stored' = DOMAIN stored \cup {k}
      /\ stored' = [x \in DOMAIN stored' |-> IF x = k THEN o ELSE stored[x]]
  BY <1>2 DEF Written
<1>4. DOMAIN stored' \subseteq Key /\ stored' \in [DOMAIN stored' -> Object]
  BY <1>1, <1>3 DEF AttachmentsTypeOK
<1>5. Rows' = Rows BY DEF Rows
<1>6. RowsKeepTheirKeys BY <1>5 DEF RowsKeepTheirKeys
<1>7. WritersHaveTheKey' BY <1>1, <1>3, <1>5 DEF WritersHaveTheKey
<1>8. ASSUME NEW g \in Rows, FoundGood(g), Kept(g), Trusted(g)' PROVE Kept(g)'
  <2>1. CASE g = f BY <1>1, <1>2, <1>3, <1>8, <2>1 DEF Kept
  <2>2. CASE g # f
    <3>1. attachment[g].key # k BY <1>5, <1>8, <2>2 DEF Trusted, Shared
    <3>. QED BY <1>2, <1>3, <1>8, <3>1 DEF Kept
  <2>. QED BY <2>1, <2>2
<1>9. GoodFilesAreThere' BY <1>5, <1>6, <1>8, GoodFilesStay
<1>10. overwritten' \subseteq Rows BY <1>2 DEF AttachmentsTypeOK
<1>. QED BY <1>4, <1>5, <1>7, <1>9, <1>10

LEMMA UploadOK ==
  ASSUME AttachmentsInv, NEW f \in File, Upload(f) PROVE AttachmentsInv'
<1>. USE DEF AttachmentsInv
<1>1. f \in Rows /\ UNCHANGED <<attachment, link, old, confirming, cleanup, taken, dropped>>
  BY DEF Upload, AttachmentsTypeOK
<1>2. Rows' = Rows /\ RowsKeepTheirKeys /\ \A g \in Rows : FoundGood(g)' <=> FoundGood(g)
  BY <1>1 DEF Rows, RowsKeepTheirKeys, FoundGood
<1>3. parts' \in [File -> {"none", "good", "bad", "closed"}] BY DEF Upload, AttachmentsTypeOK
<1>4. ASSUME NEW good \in BOOLEAN, Writes(f, good) PROVE AttachmentsInv'
  <2>1. /\ DOMAIN stored' \subseteq Key /\ stored' \in [DOMAIN stored' -> Object]
        /\ overwritten' \subseteq Rows
        /\ WritersHaveTheKey' /\ GoodFilesAreThere'
    BY <1>1, <1>2, <1>4, WritingKeeps
  <2>2. AttachmentsTypeOK' BY <1>1, <1>2, <1>3, <2>1 DEF AttachmentsTypeOK
  <2>. QED BY <1>1, <2>1, <2>2
<1>5. CASE UNCHANGED <<stored, overwritten>>
  <2>1. AttachmentsTypeOK' BY <1>1, <1>2, <1>3, <1>5 DEF AttachmentsTypeOK
  <2>2. WritersHaveTheKey' BY <1>1, <1>2, <1>5 DEF WritersHaveTheKey
  <2>3. \A g \in Rows : Kept(g)' <=> Kept(g) BY <1>1, <1>5 DEF Kept
  <2>4. GoodFilesAreThere' BY <1>1, <1>2, <2>3, GoodFilesStay
  <2>. QED BY <1>1, <2>1, <2>2, <2>4
<1>. QED BY <1>4, <1>5 DEF Upload

(* Steps that neither write a row nor an object, and find nothing good       *)
LEMMA QuietKeeps ==
  ASSUME AttachmentsInv, UNCHANGED <<attachment, stored, dropped, overwritten>>, taken \subseteq taken',
         \A g \in Rows : FoundGood(g)' /\ ~FoundGood(g) /\ ~Shared(g) => Kept(g)
  PROVE  Rows' = Rows /\ WritersHaveTheKey' /\ GoodFilesAreThere'
<1>. USE DEF AttachmentsInv
<1>1. Rows' = Rows /\ RowsKeepTheirKeys BY DEF Rows, RowsKeepTheirKeys
<1>2. \A g \in Rows : (Shared(g)' <=> Shared(g)) /\ (Kept(g)' <=> Kept(g)) BY <1>1 DEF Shared, Kept
<1>3. WritersHaveTheKey' BY <1>1 DEF WritersHaveTheKey
<1>4. GoodFilesAreThere' BY <1>1, <1>2, GoodFilesStay DEF Trusted
<1>. QED BY <1>1, <1>3, <1>4

(* The object of a row is removed                                            *)
LEMMA ErasingKeeps ==
  ASSUME AttachmentsInv, NEW f \in Rows, stored' = Without({attachment[f].key}), UNCHANGED <<attachment, taken, overwritten>>,
         dropped \subseteq dropped', FoundGood(f) => f \in taken \cup dropped',
         \A g \in Rows : FoundGood(g)' => FoundGood(g)
  PROVE  /\ DOMAIN stored' \subseteq Key /\ stored' \in [DOMAIN stored' -> Object] /\ Rows' = Rows
         /\ WritersHaveTheKey' /\ GoodFilesAreThere'
<1>. USE DEF AttachmentsInv
<1>1. DOMAIN stored' = DOMAIN stored \ {attachment[f].key} /\ stored' = [k \in DOMAIN stored' |-> stored[k]]
  BY DEF Without
<1>2. DOMAIN stored' \subseteq Key /\ stored' \in [DOMAIN stored' -> Object]
  BY <1>1 DEF AttachmentsTypeOK
<1>3. Rows' = Rows /\ RowsKeepTheirKeys BY DEF Rows, RowsKeepTheirKeys
<1>4. WritersHaveTheKey'
  <2>1. \A k \in DOMAIN stored' : k \in DOMAIN stored /\ stored'[k] = stored[k] BY <1>1
  <2>. QED BY <1>3, <2>1 DEF WritersHaveTheKey
<1>5. ASSUME NEW g \in Rows, FoundGood(g), Kept(g), Trusted(g)' PROVE Kept(g)'
  <2>1. g # f /\ attachment[g].key # attachment[f].key BY <1>3, <1>5 DEF Trusted, Shared
  <2>. QED BY <1>1, <1>5, <2>1 DEF Kept
<1>6. GoodFilesAreThere' BY <1>3, <1>5, GoodFilesStay
<1>. QED BY <1>2, <1>3, <1>4, <1>6

LEMMA TimePassesOK ==
  ASSUME AttachmentsInv, NEW f \in File, LinkExpires(f) \/ GrowOld(f) PROVE AttachmentsInv'
<1>. USE DEF AttachmentsInv
<1>1. UNCHANGED <<attachment, stored, parts, confirming, cleanup, taken, dropped, overwritten>>
  BY DEF LinkExpires, GrowOld, histories
<1>2. Rows' = Rows /\ WritersHaveTheKey' /\ GoodFilesAreThere' BY <1>1, QuietKeeps DEF FoundGood
<1>3. AttachmentsTypeOK' BY <1>1, <1>2 DEF LinkExpires, GrowOld, AttachmentsTypeOK
<1>. QED BY <1>1, <1>2, <1>3

LEMMA ConfirmReadOK ==
  ASSUME AttachmentsInv, NEW c \in Confirmer, NEW f \in File, ConfirmRead(c, f) PROVE AttachmentsInv'
<1>. USE DEF AttachmentsInv
<1>1. UNCHANGED <<attachment, stored, link, parts, old, cleanup, taken, dropped, overwritten>> /\ f \in Rows
  BY DEF ConfirmRead, Live, Rows, histories
<1>2. /\ confirming' \in [Confirmer -> Confirmation \cup {Absent}]
      /\ confirming'[c] # Absent /\ confirming'[c].at \in {"read", "verify"} /\ confirming'[c].file = f
      /\ \A d \in Confirmer \ {c} : confirming'[d] = confirming[d]
  <2>1. PICK at \in {"read", "verify"} : confirming' = [confirming EXCEPT ![c] = [at |-> at, file |-> f]]
    BY DEF ConfirmRead
  <2>. DEFINE r == [at |-> at, file |-> f]
  <2>2. r \in Confirmation /\ r.at \in {"read", "verify"} /\ r.file = f BY DEF Confirmation
  <2>3. confirming' = [confirming EXCEPT ![c] = r] BY <2>1
  <2>. HIDE DEF r
  <2>4. r # Absent BY <2>2, AttachmentsAssumption
  <2>. QED BY <2>2, <2>3, <2>4 DEF AttachmentsTypeOK
<1>3. Rows' = Rows /\ WritersHaveTheKey' /\ GoodFilesAreThere' BY <1>1, <1>2, QuietKeeps DEF FoundGood
<1>4. AttachmentsTypeOK' BY <1>1, <1>2, <1>3 DEF AttachmentsTypeOK
<1>. QED BY <1>1, <1>3, <1>4

LEMMA AssembleOK ==
  ASSUME AttachmentsInv, NEW c \in Confirmer, Assemble(c) PROVE AttachmentsInv'
<1>. USE DEF AttachmentsInv
<1>. DEFINE f == confirming[c].file
<1>1. f \in Rows /\ confirming[c] # Absent /\ UNCHANGED <<attachment, link, old, cleanup, taken, dropped>>
  BY AttachmentsAreTyped DEF Assemble
<1>2. PICK at \in {"verify", "remove"} : Continues(c, at) BY DEF Assemble
<1>3. /\ confirming' \in [Confirmer -> Confirmation \cup {Absent}]
      /\ confirming'[c].at = at /\ confirming'[c].file = f
      /\ \A d \in Confirmer \ {c} : confirming'[d] = confirming[d]
  BY <1>1, <1>2, ConfirmersContinue
<1>4. parts' \in [File -> {"none", "good", "bad", "closed"}] BY DEF Assemble, AttachmentsTypeOK
<1>5. \A g \in Rows : FoundGood(g)' => FoundGood(g) BY <1>1, <1>3 DEF FoundGood
<1>6. ASSUME NEW good \in BOOLEAN, Writes(f, good) PROVE AttachmentsInv'
  <2>1. /\ DOMAIN stored' \subseteq Key /\ stored' \in [DOMAIN stored' -> Object]
        /\ overwritten' \subseteq Rows /\ Rows' = Rows
        /\ WritersHaveTheKey' /\ GoodFilesAreThere'
    BY <1>1, <1>5, <1>6, WritingKeeps
  <2>2. AttachmentsTypeOK' BY <1>1, <1>3, <1>4, <2>1, AttachmentsAreTyped DEF AttachmentsTypeOK
  <2>. QED BY <1>1, <2>1, <2>2
<1>7. CASE UNCHANGED <<stored, overwritten>>
  <2>1. Rows' = Rows /\ WritersHaveTheKey' /\ GoodFilesAreThere' BY <1>1, <1>5, <1>7, QuietKeeps
  <2>2. AttachmentsTypeOK' BY <1>1, <1>3, <1>4, <1>7, <2>1, AttachmentsAreTyped DEF AttachmentsTypeOK
  <2>. QED BY <1>1, <2>1, <2>2
<1>. QED BY <1>6, <1>7 DEF Assemble

LEMMA VerifyOK ==
  ASSUME AttachmentsInv, NEW c \in Confirmer, Verify(c) PROVE AttachmentsInv'
<1>. USE DEF AttachmentsInv
<1>. DEFINE f == confirming[c].file
<1>1. f \in Rows /\ confirming[c] # Absent
      /\ UNCHANGED <<attachment, stored, link, parts, old, cleanup, taken, dropped, overwritten>>
  BY AttachmentsAreTyped DEF Verify, histories
<1>2. PICK at \in {"remove", "ready", "reject"} :
        Continues(c, at) /\ (at = "ready" => ~Missing(f) /\ stored[attachment[f].key].good)
  BY DEF Verify
<1>3. /\ confirming' \in [Confirmer -> Confirmation \cup {Absent}]
      /\ confirming'[c].at = at /\ confirming'[c].file = f
      /\ \A d \in Confirmer \ {c} : confirming'[d] = confirming[d]
  BY <1>1, <1>2, ConfirmersContinue
<1>4. at = "ready" /\ ~Shared(f) => Kept(f)
  BY <1>1, <1>2 DEF Missing, Kept, WritersHaveTheKey, Shared
<1>5. \A g \in Rows : FoundGood(g)' /\ ~FoundGood(g) => g = f /\ at = "ready"
  BY <1>1, <1>3 DEF FoundGood
<1>6. Rows' = Rows /\ WritersHaveTheKey' /\ GoodFilesAreThere' BY <1>1, <1>4, <1>5, QuietKeeps
<1>7. AttachmentsTypeOK' BY <1>1, <1>3, <1>6, AttachmentsAreTyped DEF AttachmentsTypeOK
<1>. QED BY <1>1, <1>6, <1>7

LEMMA RejectOK ==
  ASSUME AttachmentsInv, NEW c \in Confirmer, Reject(c) PROVE AttachmentsInv'
<1>. USE DEF AttachmentsInv
<1>. DEFINE f == confirming[c].file
<1>1. /\ f \in Rows /\ confirming[c] # Absent /\ Continues(c, "remove")
      /\ UNCHANGED <<attachment, link, parts, old, cleanup, taken, overwritten>>
  BY AttachmentsAreTyped DEF Reject
<1>2. /\ confirming' \in [Confirmer -> Confirmation \cup {Absent}]
      /\ confirming'[c].at = "remove" /\ confirming'[c].file = f
      /\ \A d \in Confirmer \ {c} : confirming'[d] = confirming[d]
  BY <1>1, ConfirmersContinue
<1>3. \A g \in Rows : FoundGood(g)' => FoundGood(g) BY <1>1, <1>2 DEF FoundGood
<1>4. CASE stored' = Without({attachment[f].key}) /\ dropped' = (IF FoundGood(f) THEN dropped \cup {f} ELSE dropped)
  <2>1. dropped' \subseteq Rows /\ dropped \subseteq dropped' BY <1>1, <1>4 DEF AttachmentsTypeOK
  <2>2. /\ DOMAIN stored' \subseteq Key /\ stored' \in [DOMAIN stored' -> Object] /\ Rows' = Rows
        /\ WritersHaveTheKey' /\ GoodFilesAreThere'
    BY <1>1, <1>3, <1>4, <2>1, ErasingKeeps
  <2>3. AttachmentsTypeOK' BY <1>1, <1>2, <2>1, <2>2, AttachmentsAreTyped DEF AttachmentsTypeOK
  <2>. QED BY <1>1, <2>2, <2>3
<1>5. CASE UNCHANGED <<stored, dropped>>
  <2>1. Rows' = Rows /\ WritersHaveTheKey' /\ GoodFilesAreThere' BY <1>1, <1>3, <1>5, QuietKeeps
  <2>2. AttachmentsTypeOK' BY <1>1, <1>2, <1>5, <2>1, AttachmentsAreTyped DEF AttachmentsTypeOK
  <2>. QED BY <1>1, <2>1, <2>2
<1>. QED BY <1>4, <1>5 DEF Reject

LEMMA BreaksOffOK ==
  ASSUME AttachmentsInv, NEW c \in Confirmer, BreaksOff(c) PROVE AttachmentsInv'
<1>. USE DEF AttachmentsInv
<1>1. confirming' = [confirming EXCEPT ![c] = Absent]
      /\ UNCHANGED <<attachment, stored, link, parts, old, cleanup, taken, dropped, overwritten>>
  BY DEF BreaksOff, histories
<1>2. \A g \in Rows : FoundGood(g)' => FoundGood(g) BY <1>1, ConfirmersEnd DEF FoundGood
<1>3. Rows' = Rows /\ WritersHaveTheKey' /\ GoodFilesAreThere' BY <1>1, <1>2, QuietKeeps
<1>4. AttachmentsTypeOK' BY <1>1, <1>3, ConfirmersEnd DEF AttachmentsTypeOK
<1>. QED BY <1>1, <1>3, <1>4

(* Rows are written by their columns                                         *)
LEMMA RowsAreWritten ==
  \A r \in Row :
    /\ LET q == [r EXCEPT !.status = "ready"] IN q \in Row /\ q # Absent /\ q.key = r.key /\ q.status = "ready"
    /\ LET q == [r EXCEPT !.deleted = TRUE] IN q \in Row /\ q # Absent /\ q.key = r.key /\ q.status = r.status
  BY AttachmentsAssumption DEF Row

(* Rows are written, and none is newly found good                            *)
LEMMA WritingRowsKeeps ==
  ASSUME AttachmentsInv, UNCHANGED <<stored, taken, dropped, overwritten>>, RowsKeepTheirKeys, Rows' = Rows,
         \A g \in Rows : FoundGood(g)' => FoundGood(g)
  PROVE  WritersHaveTheKey' /\ GoodFilesAreThere'
<1>. USE DEF AttachmentsInv
<1>1. \A g \in Rows : Kept(g)' <=> Kept(g) BY DEF Kept, RowsKeepTheirKeys
<1>2. WritersHaveTheKey' BY DEF WritersHaveTheKey, RowsKeepTheirKeys
<1>3. GoodFilesAreThere' BY <1>1, GoodFilesStay
<1>. QED BY <1>2, <1>3

LEMMA ReadyOK ==
  ASSUME AttachmentsInv, NEW c \in Confirmer, Ready(c) PROVE AttachmentsInv'
<1>. USE DEF AttachmentsInv
<1>. DEFINE f == confirming[c].file
<1>1. /\ f \in Rows /\ f \in File /\ attachment[f] \in Row /\ confirming[c] # Absent /\ confirming[c].at = "ready"
      /\ attachment' = [attachment EXCEPT ![f].status = "ready"] /\ confirming' = [confirming EXCEPT ![c] = Absent]
      /\ UNCHANGED <<stored, link, parts, old, cleanup, taken, dropped, overwritten>>
  BY AttachmentsAreTyped DEF Ready, Rows, histories
<1>2. /\ attachment' \in [File -> Row \cup {Absent}] /\ attachment'[f] # Absent /\ attachment'[f].key = attachment[f].key
      /\ \A g \in File \ {f} : attachment'[g] = attachment[g]
  BY <1>1, RowsAreWritten DEF AttachmentsTypeOK
<1>3. Rows' = Rows BY <1>1, <1>2 DEF Rows
<1>4. RowsKeepTheirKeys BY <1>2, <1>3 DEF RowsKeepTheirKeys, Rows
<1>5. FoundGood(f) BY <1>1 DEF FoundGood
<1>6. \A g \in Rows : FoundGood(g)' => FoundGood(g)
  BY <1>1, <1>2, <1>5, ConfirmersEnd DEF FoundGood, Rows
<1>7. WritersHaveTheKey' /\ GoodFilesAreThere' BY <1>1, <1>3, <1>4, <1>6, WritingRowsKeeps
<1>8. AttachmentsTypeOK' BY <1>1, <1>2, <1>3, ConfirmersEnd DEF AttachmentsTypeOK
<1>. QED BY <1>1, <1>7, <1>8

LEMMA RemoveOK ==
  ASSUME AttachmentsInv, NEW c \in Confirmer, Remove(c) PROVE AttachmentsInv'
<1>. USE DEF AttachmentsInv
<1>. DEFINE f == confirming[c].file
<1>1. /\ f \in Rows /\ f \in File /\ attachment[f] \in Row /\ confirming[c] # Absent
      /\ attachment' = [attachment EXCEPT ![f].deleted = TRUE] /\ confirming' = [confirming EXCEPT ![c] = Absent]
      /\ UNCHANGED <<stored, link, parts, old, cleanup, taken, dropped, overwritten>>
  BY AttachmentsAreTyped DEF Remove, Rows, histories
<1>2. /\ attachment' \in [File -> Row \cup {Absent}] /\ attachment'[f] # Absent /\ attachment'[f].key = attachment[f].key
      /\ attachment'[f].status = attachment[f].status
      /\ \A g \in File \ {f} : attachment'[g] = attachment[g]
  BY <1>1, RowsAreWritten DEF AttachmentsTypeOK
<1>3. Rows' = Rows BY <1>1, <1>2 DEF Rows
<1>4. RowsKeepTheirKeys BY <1>2, <1>3 DEF RowsKeepTheirKeys, Rows
<1>5. \A g \in Rows : FoundGood(g)' => FoundGood(g)
  BY <1>1, <1>2, ConfirmersEnd DEF FoundGood, Rows
<1>6. WritersHaveTheKey' /\ GoodFilesAreThere' BY <1>1, <1>3, <1>4, <1>5, WritingRowsKeeps
<1>7. AttachmentsTypeOK' BY <1>1, <1>2, <1>3, ConfirmersEnd DEF AttachmentsTypeOK
<1>. QED BY <1>1, <1>6, <1>7

LEMMA CleanupScanOK == ASSUME AttachmentsInv, CleanupScan PROVE AttachmentsInv'
<1>. USE DEF AttachmentsInv
<1>1. /\ cleanup' = [todo |-> Stale, done |-> {}] /\ taken' = taken \cup Stale
      /\ UNCHANGED <<attachment, stored, link, parts, old, confirming, dropped, overwritten>>
  BY DEF CleanupScan, NoCleanup, Stale
<1>2. Stale \subseteq Rows BY DEF Stale, AttachmentsTypeOK
<1>3. Rows' = Rows /\ WritersHaveTheKey' /\ GoodFilesAreThere' BY <1>1, QuietKeeps DEF FoundGood
<1>4. AttachmentsTypeOK' BY <1>1, <1>2, <1>3 DEF AttachmentsTypeOK
<1>5. cleanup'.todo \subseteq taken' BY <1>1
<1>. QED BY <1>3, <1>4, <1>5

LEMMA CleanupObjectOK ==
  ASSUME AttachmentsInv, NEW f \in File, CleanupObject(f) PROVE AttachmentsInv'
<1>. USE DEF AttachmentsInv
<1>1. f \in Rows /\ f \in taken
      /\ UNCHANGED <<attachment, link, parts, old, confirming, taken, dropped, overwritten>>
  BY DEF CleanupObject, AttachmentsTypeOK, histories
<1>2. \A g \in Rows : FoundGood(g)' => FoundGood(g) BY <1>1 DEF FoundGood
<1>3. cleanup' \in [todo : SUBSET Rows, done : SUBSET Rows] /\ cleanup'.todo \subseteq cleanup.todo
  <2>1. cleanup \in [todo : SUBSET Rows, done : SUBSET Rows] BY DEF AttachmentsTypeOK
  <2>2. \/ cleanup' = [todo |-> cleanup.todo \ {f}, done |-> cleanup.done \cup {f}]
        \/ cleanup' = [cleanup EXCEPT !.todo = @ \ {f}]
    BY DEF CleanupObject
  <2>. QED BY <1>1, <2>1, <2>2
<1>4. CASE stored' = Without({attachment[f].key})
  <2>1. /\ DOMAIN stored' \subseteq Key /\ stored' \in [DOMAIN stored' -> Object] /\ Rows' = Rows
        /\ WritersHaveTheKey' /\ GoodFilesAreThere'
    BY <1>1, <1>2, <1>4, ErasingKeeps
  <2>2. AttachmentsTypeOK' BY <1>1, <1>3, <2>1 DEF AttachmentsTypeOK
  <2>. QED BY <1>1, <1>3, <2>1, <2>2
<1>5. CASE UNCHANGED stored
  <2>1. Rows' = Rows /\ WritersHaveTheKey' /\ GoodFilesAreThere' BY <1>1, <1>2, <1>5, QuietKeeps
  <2>2. AttachmentsTypeOK' BY <1>1, <1>3, <1>5, <2>1 DEF AttachmentsTypeOK
  <2>. QED BY <1>1, <1>3, <2>1, <2>2
<1>. QED BY <1>4, <1>5 DEF CleanupObject

LEMMA CleanupFlushOK == ASSUME AttachmentsInv, CleanupFlush PROVE AttachmentsInv'
<1>. USE DEF AttachmentsInv
<1>1. /\ attachment' = [f \in File |-> IF f \in cleanup.done THEN [attachment[f] EXCEPT !.deleted = TRUE] ELSE attachment[f]]
      /\ cleanup' = NoCleanup /\ UNCHANGED <<stored, link, parts, old, confirming, taken, dropped, overwritten>>
  BY DEF CleanupFlush, histories
<1>2. cleanup.done \subseteq Rows BY DEF AttachmentsTypeOK
<1>3. \A f \in File : attachment'[f] = IF f \in cleanup.done THEN [attachment[f] EXCEPT !.deleted = TRUE] ELSE attachment[f]
  BY <1>1
<1>4. \A f \in Rows : /\ attachment'[f] \in Row /\ attachment'[f] # Absent
                      /\ attachment'[f].key = attachment[f].key /\ attachment'[f].status = attachment[f].status
  <2>. TAKE f \in Rows
  <2>1. attachment[f] \in Row /\ f \in File /\ attachment[f] # Absent BY AttachmentsAreTyped DEF Rows
  <2>. QED BY <2>1, <1>3, RowsAreWritten
<1>5. \A f \in File \ Rows : attachment'[f] = Absent BY <1>2, <1>3 DEF Rows
<1>6. Rows' = Rows BY <1>4, <1>5 DEF Rows
<1>7. attachment' \in [File -> Row \cup {Absent}]
  <2>1. \A f \in File : attachment'[f] \in Row \cup {Absent} BY <1>4, <1>5
  <2>2. attachment' = [f \in File |-> attachment'[f]] BY <1>1
  <2>. QED BY <2>1, <2>2
<1>8. RowsKeepTheirKeys BY <1>4, <1>6 DEF RowsKeepTheirKeys
<1>9. \A g \in Rows : FoundGood(g)' => FoundGood(g) BY <1>1, <1>4 DEF FoundGood
<1>10. WritersHaveTheKey' /\ GoodFilesAreThere' BY <1>1, <1>6, <1>8, <1>9, WritingRowsKeeps
<1>11. AttachmentsTypeOK' BY <1>1, <1>6, <1>7 DEF AttachmentsTypeOK, NoCleanup
<1>. QED BY <1>1, <1>10, <1>11 DEF NoCleanup

LEMMA CleanupDiesOK == ASSUME AttachmentsInv, CleanupDies PROVE AttachmentsInv'
<1>. USE DEF AttachmentsInv
<1>1. cleanup' = NoCleanup
      /\ UNCHANGED <<attachment, stored, link, parts, old, confirming, taken, dropped, overwritten>>
  BY DEF CleanupDies, histories
<1>2. Rows' = Rows /\ WritersHaveTheKey' /\ GoodFilesAreThere' BY <1>1, QuietKeeps DEF FoundGood
<1>3. AttachmentsTypeOK' BY <1>1, <1>2 DEF AttachmentsTypeOK, NoCleanup
<1>. QED BY <1>1, <1>2, <1>3 DEF NoCleanup

LEMMA AttachmentsStepOK == AttachmentsInv /\ [AttachmentsNext]_attachmentVars => AttachmentsInv'
<1>. SUFFICES ASSUME AttachmentsInv, [AttachmentsNext]_attachmentVars PROVE AttachmentsInv' OBVIOUS
<1>1. CASE UNCHANGED attachmentVars
  <2>1. UNCHANGED <<attachment, stored, link, parts, old, confirming, cleanup, taken, dropped, overwritten>>
    BY <1>1 DEF attachmentVars
  <2>2. Rows' = Rows /\ WritersHaveTheKey' /\ GoodFilesAreThere' BY <2>1, QuietKeeps DEF FoundGood
  <2>3. AttachmentsTypeOK' BY <2>1, <2>2 DEF AttachmentsTypeOK, AttachmentsInv
  <2>. QED BY <2>1, <2>2, <2>3 DEF AttachmentsInv
<1>2. CASE \E f \in File : Presign(f) \/ Upload(f) \/ LinkExpires(f) \/ GrowOld(f) \/ CleanupObject(f)
  BY <1>2, PresignOK, UploadOK, TimePassesOK, CleanupObjectOK
<1>3. CASE \E c \in Confirmer, f \in File : ConfirmRead(c, f) BY <1>3, ConfirmReadOK
<1>4. CASE \E c \in Confirmer : Assemble(c) \/ Verify(c) \/ Reject(c) \/ Ready(c) \/ Remove(c) \/ BreaksOff(c)
  BY <1>4, AssembleOK, VerifyOK, RejectOK, ReadyOK, RemoveOK, BreaksOffOK
<1>5. CASE CleanupScan \/ CleanupFlush \/ CleanupDies BY <1>5, CleanupScanOK, CleanupFlushOK, CleanupDiesOK
<1>. QED BY <1>1, <1>2, <1>3, <1>4, <1>5 DEF AttachmentsNext

(* What is uploaded and what is downloaded is served rightly, however many    *)
(* files, requests and runs of the cleanup there are (FilesAreServedRightly). *)
THEOREM UploadsAndDownloads == AttachmentsSpec /\ DownloadsSpec => []FilesAreServedRightly
<1>1. AttachmentsInv /\ DownloadsInv => FilesAreServedRightly
  <2>1. AttachmentsInv => ConfirmedFilesAreThere
    BY DEF AttachmentsInv, GoodFilesAreThere, ConfirmedFilesAreThere, FoundGood, Trusted, Kept
  <2>. QED BY <2>1, DownloadsInvCounts DEF FilesAreServedRightly
<1>2. AttachmentsSpec => []AttachmentsInv BY AttachmentsInitOK, AttachmentsStepOK, PTL DEF AttachmentsSpec
<1>3. DownloadsSpec => []DownloadsInv BY DownloadsInitOK, DownloadsStepOK, PTL DEF DownloadsSpec
<1>. QED BY <1>1, <1>2, <1>3, PTL

-----------------------------------------------------------------------------
(* LoginDevices: helpers                                                     *)

LEMMA DevicesAreNotNull == \A d \in Device : d # NoDevice
  BY DevicesAssumption

LEMMA DeviceCallsAreTyped ==
  ASSUME DevicesTypeOK
  PROVE  \A c \in Call : call[c] # NoDevice => call[c] \in DeviceCall
  BY DEF DevicesTypeOK

(* A check goes on or ends, the other calls stay                             *)
LEMMA ChecksGoOn ==
  ASSUME DevicesTypeOK, NEW c \in Call, call[c] # NoDevice, NEW at \in Progress, NEW notify \in BOOLEAN,
         call' = [call EXCEPT ![c].at = at, ![c].notify = notify]
  PROVE  /\ call' \in [Call -> DeviceCall \cup {NoDevice}]
         /\ call'[c] # NoDevice /\ call'[c].at = at /\ call'[c].notify = notify /\ call'[c].held = call[c].held
         /\ call'[c].session = call[c].session /\ call'[c].device = call[c].device
         /\ \A d \in Call \ {c} : call'[d] = call[d]
<1>. DEFINE r == [call[c] EXCEPT !.at = at, !.notify = notify]
<1>1. call[c] \in DeviceCall BY DeviceCallsAreTyped
<1>2. r \in DeviceCall /\ r.at = at /\ r.notify = notify /\ r.held = call[c].held /\ r.session = call[c].session /\ r.device = call[c].device
  BY <1>1 DEF DeviceCall
<1>3. call' = [call EXCEPT ![c] = r] BY <1>1 DEF DevicesTypeOK
<1>. HIDE DEF r
<1>4. r # NoDevice BY <1>2, DevicesAssumption
<1>. QED BY <1>2, <1>3, <1>4 DEF DevicesTypeOK

LEMMA ChecksEnd ==
  ASSUME DevicesTypeOK, NEW c \in Call, Finished(c)
  PROVE  /\ call' \in [Call -> DeviceCall \cup {NoDevice}] /\ call'[c] = NoDevice
         /\ \A d \in Call \ {c} : call'[d] = call[d]
  BY DEF DevicesTypeOK, Finished

LEMMA DevicesInitOK == DevicesInit => DevicesInv
<1>. SUFFICES ASSUME DevicesInit PROVE DevicesInv OBVIOUS
<1>. USE DEF DevicesInit
<1>1. KnownSessions = {} BY DEF KnownSessions
<1>2. DevicesTypeOK BY DEF DevicesTypeOK, Device
<1>3. DevicesAreNamed BY <1>1 DEF DevicesAreNamed
<1>4. NoticesAreDistinct /\ NoticesAreAboutRecords BY DEF NoticesAreDistinct, NoticesAreAboutRecords
<1>5. ChecksAreUnderWay BY <1>1 DEF ChecksAreUnderWay
<1>6. NewDevicesAreNoticed BY DEF NewDevicesAreNoticed
<1>. QED BY <1>2, <1>3, <1>4, <1>5, <1>6 DEF DevicesInv

-----------------------------------------------------------------------------
(* LoginDevices: every step keeps the invariant                              *)

LEMMA SessionIsKnownOK ==
  ASSUME DevicesInv, NEW s \in Session, SessionIsKnown(s) PROVE DevicesInv'
<1>. USE DEF DevicesInv
<1>1. /\ s \in KnownSessions /\ UNCHANGED <<known, devices, notices, call, lost>>
      /\ \A b \in Browser : token'[b] \in {token[b], known[s]}
      /\ token' \in [Browser -> Device \cup {NoDevice}]
  BY DEF SessionIsKnown, Answered, DevicesTypeOK, KnownSessions
<1>2. KnownSessions' = KnownSessions BY <1>1 DEF KnownSessions
<1>3. DevicesTypeOK' BY <1>1 DEF DevicesTypeOK
<1>4. DevicesAreNamed' BY <1>1, <1>2 DEF DevicesAreNamed
<1>5. NoticesAreDistinct' /\ NoticesAreAboutRecords' BY <1>1 DEF NoticesAreDistinct, NoticesAreAboutRecords
<1>6. ChecksAreUnderWay' BY <1>1, <1>2 DEF ChecksAreUnderWay
<1>7. NewDevicesAreNoticed' BY <1>1 DEF NewDevicesAreNoticed
<1>. QED BY <1>3, <1>4, <1>5, <1>6, <1>7

LEMMA SessionIsNewOK ==
  ASSUME DevicesInv, NEW c \in Call, NEW s \in Session, SessionIsNew(c, s) PROVE DevicesInv'
<1>. USE DEF DevicesInv
<1>1. call[c] = NoDevice /\ UNCHANGED <<token, known, devices, notices, lost>> BY DEF SessionIsNew
<1>2. PICK sent \in {token[Home[s]], NoDevice} :
        call' = [call EXCEPT ![c] =
          [session |-> s, device |-> IF sent # NoDevice THEN sent ELSE s, held |-> sent # NoDevice, at |-> "missed", notify |-> FALSE]]
  BY DEF SessionIsNew, MadeUpFor
<1>. DEFINE r == [session |-> s, device |-> IF sent # NoDevice THEN sent ELSE s, held |-> sent # NoDevice, at |-> "missed", notify |-> FALSE]
<1>3. Home[s] \in Browser BY DevicesAssumption
<1>4. sent # NoDevice => sent \in Device /\ sent \in Old \cup KnownSessions
  BY <1>3 DEF DevicesTypeOK, DevicesAreNamed
<1>5. r \in DeviceCall /\ r.at = "missed" /\ (~r.held => r.device = r.session) /\ (r.held => r.device \in Old \cup KnownSessions)
  BY <1>4 DEF DeviceCall, Progress, Device
<1>6. call' = [call EXCEPT ![c] = r] BY <1>2
<1>. HIDE DEF r
<1>7. /\ call' \in [Call -> DeviceCall \cup {NoDevice}] /\ call'[c] = r /\ \A d \in Call \ {c} : call'[d] = call[d]
  BY <1>5, <1>6 DEF DevicesTypeOK
<1>8. KnownSessions' = KnownSessions BY <1>1 DEF KnownSessions
<1>9. DevicesTypeOK' BY <1>1, <1>7 DEF DevicesTypeOK
<1>10. DevicesAreNamed' BY <1>1, <1>5, <1>7, <1>8 DEF DevicesAreNamed
<1>11. NoticesAreDistinct' /\ NoticesAreAboutRecords' BY <1>1 DEF NoticesAreDistinct, NoticesAreAboutRecords
<1>12. ChecksAreUnderWay' BY <1>1, <1>7, <1>8 DEF ChecksAreUnderWay
<1>13. NewDevicesAreNoticed' BY <1>1, <1>5, <1>7 DEF NewDevicesAreNoticed
<1>. QED BY <1>9, <1>10, <1>11, <1>12, <1>13

LEMMA NoteOK ==
  ASSUME DevicesInv, NEW c \in Call, Note(c) PROVE DevicesInv'
<1>. USE DEF DevicesInv
<1>. DEFINE s == call[c].session
            d == call[c].device
<1>1. /\ call[c] # NoDevice /\ call[c] \in DeviceCall /\ call[c].at = "missed" /\ s \in Session /\ d \in Device
      /\ known' = [known EXCEPT ![s] = d] /\ call' = [call EXCEPT ![c].at = "checking"]
      /\ UNCHANGED <<devices, notices, lost>>
  BY DeviceCallsAreTyped DEF Note, DeviceCall
<1>2. /\ call' \in [Call -> DeviceCall \cup {NoDevice}]
      /\ call'[c] # NoDevice /\ call'[c].at = "checking" /\ call'[c].session = s /\ call'[c].device = d
      /\ \A o \in Call \ {c} : call'[o] = call[o]
  <2>1. call' = [call EXCEPT ![c].at = "checking", ![c].notify = call[c].notify] BY <1>1 DEF DevicesTypeOK, DeviceCall
  <2>2. call[c].notify \in BOOLEAN /\ "checking" \in Progress BY <1>1 DEF DeviceCall, Progress
  <2>. QED BY <1>1, <2>1, <2>2, ChecksGoOn
<1>3. known'[s] = d /\ d # NoDevice /\ known' \in [Session -> Device \cup {NoDevice}] /\ \A r \in Session \ {s} : known'[r] = known[r]
  BY <1>1, DevicesAreNotNull DEF DevicesTypeOK
<1>4. KnownSessions' = KnownSessions \cup {s} BY <1>1, <1>3 DEF KnownSessions
<1>5. d \in Old \cup KnownSessions' BY <1>1, <1>4 DEF DevicesAreNamed
<1>6. token' \in [Browser -> Device \cup {NoDevice}] /\ \A b \in Browser : token'[b] \in {token[b], d}
  BY <1>1 DEF Note, Answered, DevicesTypeOK
<1>7. DevicesTypeOK' BY <1>1, <1>2, <1>3, <1>6 DEF DevicesTypeOK
<1>8. DevicesAreNamed' BY <1>1, <1>2, <1>3, <1>4, <1>5, <1>6 DEF DevicesAreNamed
<1>9. NoticesAreDistinct' /\ NoticesAreAboutRecords' BY <1>1 DEF NoticesAreDistinct, NoticesAreAboutRecords
<1>10. ChecksAreUnderWay' BY <1>1, <1>2, <1>3, <1>4 DEF ChecksAreUnderWay, KnownSessions
<1>11. NewDevicesAreNoticed' BY <1>1, <1>2 DEF NewDevicesAreNoticed
<1>. QED BY <1>7, <1>8, <1>9, <1>10, <1>11

LEMMA CheckGoesOnOK ==
  ASSUME DevicesInv, NEW c \in Call, DeviceIsNew(c) \/ CountDevices(c) PROVE DevicesInv'
<1>. USE DEF DevicesInv
<1>1. /\ call[c] # NoDevice /\ call[c] \in DeviceCall /\ call[c].at \in {"checking", "counting"}
      /\ UNCHANGED <<token, known, devices, notices, lost>>
  BY DeviceCallsAreTyped DEF DeviceIsNew, CountDevices
<1>2. PICK at \in Progress, notify \in BOOLEAN :
        /\ call' = [call EXCEPT ![c].at = at, ![c].notify = notify]
        /\ at # "missed" /\ (at = "recording" => notify = (devices # {} /\ call[c].session \in Fresh))
  <2>1. CASE DeviceIsNew(c)
    <3>1. call' = [call EXCEPT ![c].at = "counting", ![c].notify = call[c].notify]
      BY <1>1, <2>1 DEF DeviceIsNew, DevicesTypeOK, DeviceCall
    <3>2. call[c].notify \in BOOLEAN /\ "counting" \in Progress BY <1>1 DEF DeviceCall, Progress
    <3>. QED BY <3>1, <3>2
  <2>2. CASE CountDevices(c)
    <3>1. call' = [call EXCEPT ![c].at = "recording", ![c].notify = devices # {} /\ call[c].session \in Fresh]
      BY <2>2 DEF CountDevices
    <3>2. (devices # {} /\ call[c].session \in Fresh) \in BOOLEAN /\ "recording" \in Progress BY DEF Progress
    <3>. QED BY <3>1, <3>2
  <2>. QED BY <2>1, <2>2
<1>3. /\ call' \in [Call -> DeviceCall \cup {NoDevice}]
      /\ call'[c] # NoDevice /\ call'[c].at = at /\ call'[c].notify = notify
      /\ call'[c].session = call[c].session /\ call'[c].device = call[c].device
      /\ \A d \in Call \ {c} : call'[d] = call[d]
  BY <1>1, <1>2, ChecksGoOn
<1>4. KnownSessions' = KnownSessions BY <1>1 DEF KnownSessions
<1>5. DevicesTypeOK' BY <1>1, <1>3 DEF DevicesTypeOK
<1>6. DevicesAreNamed' BY <1>1, <1>2, <1>3, <1>4 DEF DevicesAreNamed
<1>7. NoticesAreDistinct' /\ NoticesAreAboutRecords' BY <1>1 DEF NoticesAreDistinct, NoticesAreAboutRecords
<1>8. ChecksAreUnderWay'
  <2>1. SUFFICES ASSUME NEW s \in KnownSessions, known[s] \notin devices, s \notin lost
        PROVE  \E e \in Call : /\ call'[e] # NoDevice /\ call'[e].at # "missed"
                               /\ call'[e].session = s /\ call'[e].device = known[s]
    BY <1>1, <1>4 DEF ChecksAreUnderWay
  <2>2. PICK e \in Call : call[e] # NoDevice /\ call[e].at # "missed" /\ call[e].session = s /\ call[e].device = known[s]
    BY <2>1 DEF ChecksAreUnderWay
  <2>3. e = c \/ call'[e] = call[e] BY <1>3
  <2>. QED BY <1>2, <1>3, <2>2, <2>3
<1>9. NewDevicesAreNoticed'
  <2>1. Old # {} /\ Fresh = Session => devices # {} /\ call[c].session \in Fresh BY <1>1 DEF DevicesTypeOK, DeviceCall
  <2>. QED BY <1>1, <1>2, <1>3, <2>1 DEF NewDevicesAreNoticed
<1>. QED BY <1>5, <1>6, <1>7, <1>8, <1>9

LEMMA CheckEndsOK ==
  ASSUME DevicesInv, NEW c \in Call, DeviceIsKnown(c) \/ CheckFails(c) PROVE DevicesInv'
<1>. USE DEF DevicesInv
<1>1. /\ call[c] # NoDevice /\ call[c] \in DeviceCall /\ Finished(c) /\ UNCHANGED <<token, known, devices, notices>>
      /\ lost \subseteq lost' /\ lost' \subseteq lost \cup {call[c].session}
      /\ call[c].device \in devices \/ call[c].session \in lost'
  BY DeviceCallsAreTyped DEF DeviceIsKnown, CheckFails
<1>2. /\ call' \in [Call -> DeviceCall \cup {NoDevice}] /\ call'[c] = NoDevice
      /\ \A d \in Call \ {c} : call'[d] = call[d]
  BY <1>1, ChecksEnd
<1>3. KnownSessions' = KnownSessions BY <1>1 DEF KnownSessions
<1>4. DevicesTypeOK' BY <1>1, <1>2 DEF DevicesTypeOK, DeviceCall
<1>5. DevicesAreNamed' BY <1>1, <1>2, <1>3 DEF DevicesAreNamed
<1>6. NoticesAreDistinct' /\ NoticesAreAboutRecords' BY <1>1 DEF NoticesAreDistinct, NoticesAreAboutRecords
<1>7. ChecksAreUnderWay' BY <1>1, <1>2, <1>3 DEF ChecksAreUnderWay
<1>8. NewDevicesAreNoticed' BY <1>1, <1>2 DEF NewDevicesAreNoticed
<1>. QED BY <1>4, <1>5, <1>6, <1>7, <1>8

LEMMA RecordDeviceOK ==
  ASSUME DevicesInv, NEW c \in Call, RecordDevice(c) PROVE DevicesInv'
<1>. USE DEF DevicesInv
<1>. DEFINE s == call[c].session
            d == call[c].device
            n == <<s, d>>
<1>1. /\ call[c] # NoDevice /\ call[c] \in DeviceCall /\ call[c].at = "recording" /\ Finished(c) /\ UNCHANGED <<token, known, lost>>
      /\ s \in Session /\ d \in Device /\ call[c].notify \in BOOLEAN
  BY DeviceCallsAreTyped DEF RecordDevice, DeviceCall
<1>2. /\ call' \in [Call -> DeviceCall \cup {NoDevice}] /\ call'[c] = NoDevice
      /\ \A o \in Call \ {c} : call'[o] = call[o]
  BY <1>1, ChecksEnd
<1>3. /\ devices' = devices \cup {d}
      /\ \/ notices' = notices /\ (d \in devices \/ ~call[c].notify)
         \/ notices' = notices \cup {n} /\ d \notin devices
  BY DEF RecordDevice
<1>4. n \in Session \X Device /\ n[2] = d BY <1>1
<1>5. KnownSessions' = KnownSessions BY <1>1 DEF KnownSessions
<1>6. d \in Old \cup KnownSessions BY <1>1 DEF DevicesAreNamed
<1>. HIDE DEF s, d, n
<1>7. DevicesTypeOK' BY <1>1, <1>2, <1>3, <1>4 DEF DevicesTypeOK
<1>8. DevicesAreNamed'
  <2>1. d \notin devices => d \in KnownSessions BY <1>6 DEF DevicesTypeOK
  <2>2. \A m \in notices' : m[2] \in KnownSessions BY <1>3, <1>4, <2>1 DEF DevicesAreNamed
  <2>. QED BY <1>1, <1>2, <1>5, <2>2 DEF DevicesAreNamed
<1>9. NoticesAreDistinct' BY <1>3, <1>4 DEF NoticesAreDistinct, NoticesAreAboutRecords
<1>10. NoticesAreAboutRecords' BY <1>3, <1>4 DEF NoticesAreAboutRecords
<1>11. ChecksAreUnderWay' BY <1>1, <1>2, <1>3, <1>5 DEF ChecksAreUnderWay, d
<1>12. NewDevicesAreNoticed' BY <1>1, <1>2, <1>3, <1>4 DEF NewDevicesAreNoticed
<1>. QED BY <1>7, <1>8, <1>9, <1>10, <1>11, <1>12

LEMMA DevicesStepOK == DevicesInv /\ [DevicesNext]_deviceVars => DevicesInv'
<1>. SUFFICES ASSUME DevicesInv, [DevicesNext]_deviceVars PROVE DevicesInv' OBVIOUS
<1>1. CASE UNCHANGED deviceVars
  <2>1. UNCHANGED <<token, known, devices, notices, call, lost>> BY <1>1 DEF deviceVars
  <2>. QED
    BY <2>1 DEF DevicesInv, DevicesTypeOK, DevicesAreNamed, NoticesAreDistinct, NoticesAreAboutRecords,
                ChecksAreUnderWay, NewDevicesAreNoticed, KnownSessions
<1>2. CASE \E s \in Session : SessionIsKnown(s) BY <1>2, SessionIsKnownOK
<1>3. CASE \E c \in Call, s \in Session : SessionIsNew(c, s) BY <1>3, SessionIsNewOK
<1>4. CASE \E c \in Call : Note(c) \/ RecordDevice(c) BY <1>4, NoteOK, RecordDeviceOK
<1>5. CASE \E c \in Call : DeviceIsNew(c) \/ CountDevices(c) BY <1>5, CheckGoesOnOK
<1>6. CASE \E c \in Call : DeviceIsKnown(c) \/ CheckFails(c) BY <1>6, CheckEndsOK
<1>. QED BY <1>1, <1>2, <1>3, <1>4, <1>5, <1>6 DEF DevicesNext

LEMMA DevicesInvNotices == DevicesInv => LoginsAreNoticedOnce
<1>. SUFFICES ASSUME DevicesInv PROVE LoginsAreNoticedOnce OBVIOUS
<1>. USE DEF DevicesInv
<1>1. NoticedOnce
  <2>. DEFINE about == [n \in notices |-> n[2]]
  <2>1. about \in Injection(notices, KnownSessions)
    BY DEF NoticesAreDistinct, DevicesAreNamed, Injection, IsInjective
  <2>2. IsFiniteSet(KnownSessions)
    <3>1. KnownSessions \in SUBSET Session BY DEF KnownSessions
    <3>. QED BY <3>1, FS_Subset, DevicesAssumption
  <2>. HIDE DEF about
  <2>3. Cardinality(notices) <= Cardinality(KnownSessions) BY <2>1, <2>2, FS_Injection
  <2>. QED BY <2>3 DEF NoticedOnce, KnownSessions
<1>2. NothingIsMissed
  BY DEF NothingIsMissed, ChecksEnded, ChecksAreUnderWay, KnownSessions, NewDevicesAreNoticed
<1>. QED BY <1>1, <1>2 DEF LoginsAreNoticedOnce

-----------------------------------------------------------------------------
(* SignUps: helpers                                                          *)

SignUpRow ==
  [at : {"unasked", "read", "continue", "created", "refused"}, read : UserRow \cup {Nobody},
   overlapped : BOOLEAN, administered : BOOLEAN]

LEMMA PeopleAreNotNull == (\A a \in Account : a # Nobody) /\ (\A r \in UserRow : r # Nobody)
  BY SignUpsAssumption

LEMMA UsersAreTyped == ASSUME SignUpsTypeOK, user # Nobody PROVE user \in UserRow /\ user.authId \in Account
  BY DEF SignUpsTypeOK, UserRow

(* A sign-up goes on: what overlapped it and was administered since is kept, *)
(* unless it is refused                                                      *)
LEMMA SignUpsGoOn ==
  ASSUME SignUpsTypeOK, NEW a \in Account, NEW to \in {"continue", "created", "refused"}, Goes(a, to)
  PROVE  /\ signUp' \in [Account -> SignUpRow] /\ signUp'[a].at = to
         /\ to # "refused" => /\ signUp'[a].overlapped = signUp[a].overlapped
                              /\ signUp'[a].administered = signUp[a].administered
         /\ \A b \in Account \ {a} : signUp'[b] = signUp[b]
<1>1. signUp[a] \in SignUpRow /\ signUp \in [Account -> SignUpRow] BY DEF SignUpsTypeOK, SignUpRow
<1>2. CASE to = "refused"
  <2>. DEFINE r == [NotAsked EXCEPT !.at = "refused"]
  <2>1. r \in SignUpRow /\ r.at = "refused" BY DEF SignUpRow, NotAsked
  <2>2. signUp' = [signUp EXCEPT ![a] = r] BY <1>2 DEF Goes
  <2>. HIDE DEF r
  <2>. QED BY <1>1, <1>2, <2>1, <2>2
<1>3. CASE to # "refused"
  <2>. DEFINE r == [signUp[a] EXCEPT !.at = to, !.read = Nobody]
  <2>1. r \in SignUpRow /\ r.at = to /\ r.overlapped = signUp[a].overlapped /\ r.administered = signUp[a].administered
    BY <1>1 DEF SignUpRow
  <2>2. signUp' = [signUp EXCEPT ![a] = r] BY <1>1, <1>3 DEF Goes
  <2>. HIDE DEF r
  <2>. QED BY <1>1, <1>3, <2>1, <2>2
<1>. QED BY <1>2, <1>3

LEMMA SignUpsInitOK == SignUpsInit => SignUpsInv
<1>. SUFFICES ASSUME SignUpsInit PROVE SignUpsInv OBVIOUS
<1>. USE DEF SignUpsInit
<1>1. \A a \in Account : signUp[a] = NotAsked /\ signUp[a].at = "unasked" BY DEF NotAsked
<1>2. \A s \in SignIn : login[s] = NoLogin /\ login[s].at = "none" BY DEF NoLogin
<1>3. SignUpsTypeOK BY DEF SignUpsTypeOK, NotAsked, NoLogin
<1>4. AccountsWereSignedUp BY <1>2 DEF AccountsWereSignedUp
<1>5. RowsStay BY <1>1 DEF RowsStay
<1>6. OthersOverlap BY <1>1 DEF OthersOverlap, Running
<1>7. ReadingsHold BY <1>1, PeopleAreNotNull DEF ReadingsHold
<1>8. LogsAreInTurn /\ LoginsAreLogged BY <1>2 DEF NoLogin, LogsAreInTurn, LoginsAreLogged
<1>. QED BY <1>3, <1>4, <1>5, <1>6, <1>7, <1>8 DEF SignUpsInv

(* Logins rest on sign-ups that have created their accounts                  *)
LoginsRest ==
  \A a \in Account : signUp[a].at = "created" =>
    /\ signUp'[a].at = "created"
    /\ signUp[a].overlapped => signUp'[a].overlapped
    /\ signUp[a].administered => signUp'[a].administered

LEMMA LoginsStay ==
  ASSUME SignUpsInv, UNCHANGED login, LoginsRest, account' # Nobody => account' \in Account /\ signUp'[account'].at = "created"
  PROVE  AccountsWereSignedUp' /\ LogsAreInTurn' /\ LoginsAreLogged'
<1>. USE DEF SignUpsInv
<1>1. AccountsWereSignedUp' BY DEF AccountsWereSignedUp, LoginsRest
<1>2. LogsAreInTurn' BY DEF LogsAreInTurn
<1>3. LoginsAreLogged' BY DEF LoginsAreLogged, LoginsRest, AccountsWereSignedUp
<1>. QED BY <1>1, <1>2, <1>3

(* The account's row and what the running sign-ups read                      *)
LEMMA AccountsAreTyped ==
  ASSUME SignUpsInv
  PROVE  /\ account # Nobody => account \in Account /\ signUp[account].at = "created"
         /\ signUp \in [Account -> SignUpRow] /\ \A a \in Account : signUp[a] \in SignUpRow
  BY DEF SignUpsInv, SignUpsTypeOK, AccountsWereSignedUp, SignUpRow

-----------------------------------------------------------------------------
(* SignUps: every step keeps the invariant                                   *)

LEMMA ReadUserOK ==
  ASSUME SignUpsInv, NEW a \in Account, ReadUser(a) PROVE SignUpsInv'
<1>. USE DEF SignUpsInv
<1>. DEFINE others == { b \in Account \ {a} : Running(b) }
            r == [at |-> "read", read |-> user, overlapped |-> signUp[a].overlapped \/ others # {}, administered |-> FALSE]
<1>1. /\ account = Nobody /\ signUp[a].at \in {"unasked", "continue"} /\ UNCHANGED <<account, user, shown, login>>
      /\ signUp' = [b \in Account |-> IF b = a THEN r ELSE IF b \in others THEN [signUp[b] EXCEPT !.overlapped = TRUE] ELSE signUp[b]]
  BY DEF ReadUser
<1>2. r \in SignUpRow /\ r.at = "read" /\ r.read = user /\ r.overlapped = (signUp[a].overlapped \/ others # {}) /\ r.administered = FALSE
  <2>1. signUp[a] \in SignUpRow /\ signUp[a].overlapped \in BOOLEAN BY AccountsAreTyped DEF SignUpRow
  <2>. QED BY <2>1 DEF SignUpRow, SignUpsTypeOK
<1>3. \A b \in Account : LET q == [signUp[b] EXCEPT !.overlapped = TRUE] IN
        q \in SignUpRow /\ q.at = signUp[b].at /\ q.read = signUp[b].read /\ q.overlapped = TRUE /\ q.administered = signUp[b].administered
  BY AccountsAreTyped DEF SignUpRow
<1>. HIDE DEF r
<1>4. signUp'[a] = r BY <1>1
<1>5. \A b \in Account \ {a} :
        /\ signUp'[b] \in SignUpRow /\ signUp'[b].at = signUp[b].at /\ signUp'[b].read = signUp[b].read
        /\ signUp'[b].administered = signUp[b].administered
        /\ signUp'[b].overlapped = (signUp[b].overlapped \/ Running(b))
  <2>1. \A b \in Account \ {a} : signUp'[b] = IF b \in others THEN [signUp[b] EXCEPT !.overlapped = TRUE] ELSE signUp[b]
    BY <1>1
  <2>2. \A b \in Account : signUp[b] \in SignUpRow /\ signUp[b].overlapped \in BOOLEAN BY AccountsAreTyped DEF SignUpRow
  <2>. QED BY <1>3, <2>1, <2>2
<1>6. signUp' \in [Account -> SignUpRow]
  <2>1. \A b \in Account : signUp'[b] \in SignUpRow BY <1>2, <1>4, <1>5
  <2>. QED BY <1>1, <2>1
<1>7. SignUpsTypeOK' BY <1>1, <1>6 DEF SignUpsTypeOK, SignUpRow
<1>8. LoginsRest BY <1>1, <1>5 DEF LoginsRest
<1>9. RowsStay' BY <1>1, <1>2, <1>4, <1>5 DEF RowsStay
<1>10. OthersOverlap'
  <2>. SUFFICES ASSUME NEW b \in Account, NEW o \in Account, b # o, Running(o)', Running(b)' \/ account = b
       PROVE  signUp'[b].overlapped
    BY <1>1 DEF OthersOverlap
  <2>1. account # b BY <1>1, PeopleAreNotNull
  <2>2. CASE b = a
    <3>1. o \in others BY <1>5, <2>2 DEF Running
    <3>. QED BY <1>2, <1>4, <2>2, <3>1
  <2>3. CASE b # a BY <1>5, <2>1, <2>3 DEF Running
  <2>. QED BY <2>2, <2>3
<1>11. ReadingsHold'
  <2>. SUFFICES ASSUME NEW b \in Account, ~signUp'[b].overlapped
       PROVE  /\ signUp'[b].at = "read" =>
                   IF signUp'[b].read = Nobody THEN user = Nobody
                   ELSE user.authId = signUp'[b].read.authId /\ (signUp'[b].administered \/ user = signUp'[b].read)
              /\ signUp'[b].at = "continue" \/ account = b => Linked(b)'
    BY <1>1 DEF ReadingsHold
  <2>1. account # b BY <1>1, PeopleAreNotNull
  <2>2. CASE b = a BY <1>2, <1>4, <2>1, <2>2
  <2>3. CASE b # a BY <1>5, <2>1, <2>3 DEF Running
  <2>. QED BY <2>2, <2>3
<1>. QED BY <1>1, <1>7, <1>8, <1>9, <1>10, <1>11, LoginsStay

(* A sign-up that is alone knows the row: what it writes makes the row its    *)
(* account's                                                                 *)
LEMMA AnsweringOK ==
  ASSUME SignUpsInv, NEW a \in Account, signUp[a].at = "read", Goes(a, "continue"), UNCHANGED <<account, shown, login>>,
         user' \in UserRow, ~signUp[a].overlapped => Linked(a)'
  PROVE  SignUpsInv'
<1>. USE DEF SignUpsInv
<1>1. /\ signUp' \in [Account -> SignUpRow] /\ signUp'[a].at = "continue"
      /\ signUp'[a].overlapped = signUp[a].overlapped /\ signUp'[a].administered = signUp[a].administered
      /\ \A b \in Account \ {a} : signUp'[b] = signUp[b]
  BY SignUpsGoOn
<1>2. user' # Nobody BY PeopleAreNotNull
<1>3. SignUpsTypeOK' BY <1>1 DEF SignUpsTypeOK, SignUpRow
<1>4. LoginsRest BY <1>1 DEF LoginsRest
<1>5. account # Nobody => signUp'[account].at = "created" BY <1>1, AccountsAreTyped
<1>6. RowsStay' BY <1>1, <1>2 DEF RowsStay
<1>7. \A b \in Account : Running(b)' <=> Running(b) BY <1>1 DEF Running
<1>8. OthersOverlap' BY <1>1, <1>7 DEF OthersOverlap
<1>9. ReadingsHold'
  <2>1. \A b \in Account : account = b => b # a BY AccountsAreTyped, PeopleAreNotNull
  <2>2. \A b \in Account \ {a} : Running(b) \/ account = b => signUp[b].overlapped BY DEF OthersOverlap, Running
  <2>3. SUFFICES ASSUME NEW b \in Account, ~signUp'[b].overlapped
        PROVE  /\ signUp'[b].at = "read" =>
                    IF signUp'[b].read = Nobody THEN user' = Nobody
                    ELSE user'.authId = signUp'[b].read.authId /\ (signUp'[b].administered \/ user' = signUp'[b].read)
               /\ signUp'[b].at = "continue" \/ account = b => Linked(b)'
    BY DEF ReadingsHold
  <2>4. CASE b = a BY <1>1, <2>3, <2>4
  <2>5. CASE b # a BY <1>1, <2>2, <2>3, <2>5 DEF Running
  <2>. QED BY <2>4, <2>5
<1>10. account # Nobody => account \in Account BY AccountsAreTyped
<1>. QED BY <1>3, <1>4, <1>5, <1>6, <1>8, <1>9, <1>10, LoginsStay

(* A sign-up that is refused, or an account that is created                  *)
LEMMA RefusingOK ==
  ASSUME SignUpsInv, NEW a \in Account, Running(a), Goes(a, "refused"), UNCHANGED <<account, user, shown, login>>
  PROVE  SignUpsInv'
<1>. USE DEF SignUpsInv
<1>1. /\ signUp' \in [Account -> SignUpRow] /\ signUp'[a].at = "refused"
      /\ \A b \in Account \ {a} : signUp'[b] = signUp[b]
  BY SignUpsGoOn
<1>2. SignUpsTypeOK' BY <1>1 DEF SignUpsTypeOK, SignUpRow
<1>3. LoginsRest BY <1>1 DEF LoginsRest, Running
<1>4. account # Nobody => account \in Account /\ signUp'[account].at = "created" /\ account # a
  BY <1>1, AccountsAreTyped DEF Running
<1>5. RowsStay' BY <1>1 DEF RowsStay
<1>6. OthersOverlap' BY <1>1, <1>4, PeopleAreNotNull DEF OthersOverlap, Running
<1>7. ReadingsHold' BY <1>1, <1>4, PeopleAreNotNull DEF ReadingsHold, Linked
<1>. QED BY <1>2, <1>3, <1>4, <1>5, <1>6, <1>7, LoginsStay

LEMMA CreateUserOK ==
  ASSUME SignUpsInv, NEW a \in Account, CreateUser(a) PROVE SignUpsInv'
<1>1. CASE user # Nobody
  <2>1. Running(a) /\ Goes(a, "refused") /\ UNCHANGED <<account, user, shown, login>> BY <1>1 DEF CreateUser, Running
  <2>. QED BY <2>1, RefusingOK
<1>2. CASE user = Nobody
  <2>1. /\ signUp[a].at = "read" /\ Goes(a, "continue") /\ UNCHANGED <<account, shown, login>>
        /\ user' = [authId |-> a, active |-> TRUE, gone |-> FALSE]
    BY <1>2 DEF CreateUser
  <2>2. user' \in UserRow /\ Linked(a)' BY <2>1 DEF UserRow, Linked
  <2>. QED BY <2>1, <2>2, AnsweringOK
<1>. QED BY <1>1, <1>2

LEMMA UpdateUserOK ==
  ASSUME SignUpsInv, NEW a \in Account, RestoreUser(a) \/ RelinkUser(a) PROVE SignUpsInv'
<1>. DEFINE read == signUp[a].read
<1>1. /\ signUp[a].at = "read" /\ Goes(a, "continue") /\ UNCHANGED <<account, shown, login>> /\ read # Nobody
  BY DEF RestoreUser, RelinkUser
<1>2. user # Nobody BY <1>1 DEF SignUpsInv, RowsStay
<1>3. user \in UserRow /\ read \in UserRow BY <1>1, <1>2, UsersAreTyped, AccountsAreTyped DEF SignUpsInv, SignUpRow
<1>4. signUp'[a].administered = signUp[a].administered BY <1>1, SignUpsGoOn DEF SignUpsInv
<1>5. ~signUp[a].overlapped => user.authId = read.authId /\ (signUp[a].administered \/ user = read)
  BY <1>1 DEF SignUpsInv, ReadingsHold
<1>. HIDE DEF read
<1>6. CASE RestoreUser(a)
  <2>1. user' = [authId |-> IF read.authId = a THEN user.authId ELSE a,
                 active |-> ~read.active \/ user.active,
                 gone   |-> ~read.gone /\ user.gone]
    BY <1>6 DEF RestoreUser, read
  <2>2. user' \in UserRow BY <1>3, <2>1 DEF UserRow
  <2>3. ~signUp[a].overlapped => Linked(a)' BY <1>3, <1>4, <1>5, <2>1 DEF Linked, UserRow
  <2>. QED BY <1>1, <2>2, <2>3, AnsweringOK
<1>7. CASE RelinkUser(a)
  <2>1. user' = (IF read.authId = a THEN user ELSE [user EXCEPT !.authId = a]) /\ ~ComesBack(read)
    BY <1>7 DEF RelinkUser, read
  <2>2. user' \in UserRow /\ user'.active = user.active /\ user'.gone = user.gone
        /\ user'.authId = IF read.authId = a THEN user.authId ELSE a
    BY <1>3, <2>1 DEF UserRow
  <2>3. ~signUp[a].overlapped => Linked(a)' BY <1>3, <1>4, <1>5, <2>1, <2>2 DEF Linked, UserRow, ComesBack
  <2>. QED BY <1>1, <2>2, <2>3, AnsweringOK
<1>. QED BY <1>6, <1>7

LEMMA CreateAccountOK ==
  ASSUME SignUpsInv, NEW a \in Account, CreateAccount(a) PROVE SignUpsInv'
<1>1. CASE account # Nobody
  <2>1. Running(a) /\ Goes(a, "refused") /\ UNCHANGED <<account, user, shown, login>> BY <1>1 DEF CreateAccount, Running
  <2>. QED BY <2>1, RefusingOK
<1>2. CASE account = Nobody
  <2>. USE DEF SignUpsInv
  <2>1. signUp[a].at = "continue" /\ account' = a /\ Goes(a, "created") /\ UNCHANGED <<user, shown, login>>
    BY <1>2 DEF CreateAccount
  <2>2. /\ signUp' \in [Account -> SignUpRow] /\ signUp'[a].at = "created"
        /\ signUp'[a].overlapped = signUp[a].overlapped /\ signUp'[a].administered = signUp[a].administered
        /\ \A b \in Account \ {a} : signUp'[b] = signUp[b]
    BY <2>1, SignUpsGoOn
  <2>3. SignUpsTypeOK' BY <2>1, <2>2 DEF SignUpsTypeOK, SignUpRow
  <2>4. LoginsRest BY <2>1, <2>2 DEF LoginsRest
  <2>5. RowsStay' BY <2>1, <2>2 DEF RowsStay
  <2>6. OthersOverlap' BY <2>1, <2>2 DEF OthersOverlap, Running
  <2>7. ReadingsHold' BY <2>1, <2>2 DEF ReadingsHold, Linked
  <2>. QED BY <2>1, <2>2, <2>3, <2>4, <2>5, <2>6, <2>7, LoginsStay
<1>. QED BY <1>1, <1>2

LEMMA DeleteAccountOK == ASSUME SignUpsInv, DeleteAccount PROVE SignUpsInv'
<1>. USE DEF SignUpsInv
<1>1. account' = Nobody /\ shown' = {} /\ UNCHANGED <<user, signUp, login>> BY DEF DeleteAccount
<1>2. SignUpsTypeOK' BY <1>1 DEF SignUpsTypeOK
<1>3. LoginsRest BY <1>1 DEF LoginsRest
<1>4. RowsStay' BY <1>1 DEF RowsStay
<1>5. OthersOverlap' BY <1>1, PeopleAreNotNull DEF OthersOverlap, Running
<1>6. ReadingsHold' BY <1>1, PeopleAreNotNull DEF ReadingsHold, Linked
<1>. QED BY <1>1, <1>2, <1>3, <1>4, <1>5, <1>6, LoginsStay

LEMMA AdministerOK == ASSUME SignUpsInv, Administer PROVE SignUpsInv'
<1>. USE DEF SignUpsInv
<1>1. /\ user # Nobody /\ UNCHANGED <<account, shown, login>>
      /\ user' \in {[user EXCEPT !.active = ~user.active], [user EXCEPT !.gone = TRUE]}
      /\ signUp' = [a \in Account |-> [signUp[a] EXCEPT !.administered = signUp[a].at \notin {"unasked", "refused"}]]
  BY DEF Administer
<1>2. user \in UserRow BY <1>1, UsersAreTyped
<1>3. user' \in UserRow /\ user'.authId = user.authId BY <1>1, <1>2 DEF UserRow
<1>4. user' # Nobody BY <1>3, PeopleAreNotNull
<1>5. \A a \in Account : /\ signUp'[a] \in SignUpRow /\ signUp'[a].at = signUp[a].at /\ signUp'[a].read = signUp[a].read
                         /\ signUp'[a].overlapped = signUp[a].overlapped
                         /\ signUp[a].at \notin {"unasked", "refused"} => signUp'[a].administered
  <2>. TAKE a \in Account
  <2>1. signUp[a] \in SignUpRow BY AccountsAreTyped
  <2>2. signUp'[a] = [signUp[a] EXCEPT !.administered = signUp[a].at \notin {"unasked", "refused"}] BY <1>1
  <2>3. (signUp[a].at \notin {"unasked", "refused"}) \in BOOLEAN OBVIOUS
  <2>. QED BY <2>1, <2>2, <2>3 DEF SignUpRow
<1>6. signUp' \in [Account -> SignUpRow] BY <1>1, <1>5
<1>7. SignUpsTypeOK' BY <1>1, <1>3, <1>6 DEF SignUpsTypeOK, SignUpRow
<1>8. LoginsRest BY <1>5 DEF LoginsRest
<1>9. RowsStay' BY <1>4 DEF RowsStay
<1>10. OthersOverlap' BY <1>1, <1>5 DEF OthersOverlap, Running
<1>11. account # Nobody => account \in Account /\ signUp'[account].at = "created" BY <1>5, AccountsAreTyped
<1>12. ReadingsHold' BY <1>1, <1>3, <1>5, <1>11, PeopleAreNotNull DEF ReadingsHold, Linked
<1>. QED BY <1>1, <1>7, <1>8, <1>9, <1>10, <1>11, <1>12, LoginsStay

LoginRow ==
  [at : {"none", "found", "logging", "filling", "over"}, account : Account \cup {Nobody},
   logged : BOOLEAN, client : BOOLEAN, tries : Nat, cut : BOOLEAN]

Logged(r) ==
  \/ r.logged /\ (r.client \/ r.tries = MaxTries)
  \/ /\ ~r.logged
     /\ signUp[r.account].overlapped \/ signUp[r.account].administered

(* A login goes on                                                           *)
LEMMA LoginGoesOn ==
  ASSUME SignUpsInv, NEW s \in SignIn, NEW r \in LoginRow, login' = [login EXCEPT ![s] = r],
         UNCHANGED <<account, user, signUp, shown>>,
         r.account \in Account, signUp[r.account].at = "created",
         r.at # "none", r.at = "filling" => r.logged = TRUE, r.at = "over" /\ ~r.cut => Logged(r)
  PROVE  SignUpsInv'
<1>. USE DEF SignUpsInv
<1>1. login'[s] = r /\ \A o \in SignIn \ {s} : login'[o] = login[o] BY DEF SignUpsTypeOK
<1>2. SignUpsTypeOK' BY DEF SignUpsTypeOK, LoginRow
<1>3. AccountsWereSignedUp' BY <1>1 DEF AccountsWereSignedUp
<1>4. RowsStay' BY DEF RowsStay
<1>5. OthersOverlap' BY DEF OthersOverlap, Running
<1>6. ReadingsHold' BY DEF ReadingsHold, Linked
<1>7. LogsAreInTurn' BY <1>1 DEF LogsAreInTurn
<1>8. LoginsAreLogged' BY <1>1 DEF LoginsAreLogged, Logged
<1>. QED BY <1>2, <1>3, <1>4, <1>5, <1>6, <1>7, <1>8

LEMMA LoginsAreTyped == ASSUME SignUpsTypeOK PROVE \A s \in SignIn : login[s] \in LoginRow
  BY DEF SignUpsTypeOK, LoginRow

LEMMA FindUserOK == ASSUME SignUpsInv, NEW s \in SignIn, FindUser(s) PROVE SignUpsInv'
<1>. DEFINE r == [login[s] EXCEPT !.account = account, !.at = IF LinkedTo(account) THEN "found" ELSE "over"]
<1>1. /\ account # Nobody /\ login[s].at = "none" /\ UNCHANGED <<account, user, signUp, shown>>
      /\ login[s] \in LoginRow /\ account \in Account /\ signUp[account].at = "created"
  BY LoginsAreTyped, AccountsAreTyped DEF FindUser, SignUpsInv
<1>2. r \in LoginRow /\ r.account = account /\ r.at = (IF LinkedTo(account) THEN "found" ELSE "over") /\ r.logged = login[s].logged
  BY <1>1 DEF LoginRow
<1>3. login' = [login EXCEPT ![s] = r] BY <1>1 DEF FindUser, SignUpsInv, SignUpsTypeOK
<1>4. login[s].logged = FALSE BY <1>1 DEF SignUpsInv, LogsAreInTurn
<1>. HIDE DEF r
<1>5. r.at = "over" => Logged(r)
  <2>1. SUFFICES ASSUME ~LinkedTo(account) PROVE signUp[account].overlapped \/ signUp[account].administered
    BY <1>2, <1>4 DEF Logged
  <2>2. user # Nobody BY <1>1 DEF SignUpsInv, RowsStay
  <2>. QED BY <1>1, <2>1, <2>2 DEF SignUpsInv, ReadingsHold, Linked, LinkedTo
<1>. QED BY <1>1, <1>2, <1>3, <1>5, LoginGoesOn

LEMMA LoggingOK ==
  ASSUME SignUpsInv, NEW s \in SignIn, ReadClient(s) \/ WriteLog(s) \/ TryFill(s) \/ CutFill(s) PROVE SignUpsInv'
<1>. DEFINE l == login[s]
<1>1. /\ l \in LoginRow /\ l.at \in {"found", "logging", "filling"} /\ UNCHANGED <<account, user, signUp, shown>>
      /\ l.account \in Account /\ signUp[l.account].at = "created" /\ (l.at = "filling" => l.logged = TRUE)
  BY LoginsAreTyped DEF ReadClient, WriteLog, TryFill, CutFill, SignUpsInv, AccountsWereSignedUp, LogsAreInTurn
<1>2. ASSUME NEW r \in LoginRow, login' = [login EXCEPT ![s] = r], r.account = l.account, r.at # "none",
             r.at = "filling" => r.logged = TRUE, r.at = "over" /\ ~r.cut => r.logged /\ (r.client \/ r.tries = MaxTries)
      PROVE  SignUpsInv'
  BY <1>1, <1>2, LoginGoesOn DEF Logged
<1>3. CASE ReadClient(s)
  <2>1. PICK seen \in BOOLEAN : login' = [login EXCEPT ![s].at = "logging", ![s].client = seen]
    BY <1>3 DEF ReadClient
  <2>. DEFINE r == [l EXCEPT !.at = "logging", !.client = seen]
  <2>2. r \in LoginRow /\ r.account = l.account /\ r.at = "logging" BY <1>1 DEF LoginRow
  <2>3. login' = [login EXCEPT ![s] = r] BY <2>1 DEF SignUpsInv, SignUpsTypeOK
  <2>. HIDE DEF r
  <2>. QED BY <1>2, <2>2, <2>3
<1>4. CASE WriteLog(s)
  <2>. DEFINE r == [l EXCEPT !.logged = TRUE, !.at = IF l.client THEN "over" ELSE "filling"]
              q == [l EXCEPT !.client = FALSE, !.at = "over", !.cut = TRUE]
  <2>1. \/ login' = [login EXCEPT ![s] = r]
        \/ login' = [login EXCEPT ![s] = q]
    BY <1>4 DEF WriteLog, SignUpsInv, SignUpsTypeOK
  <2>2. /\ r \in LoginRow /\ r.account = l.account /\ r.logged = TRUE /\ r.client = l.client /\ r.at = IF l.client THEN "over" ELSE "filling"
        /\ q \in LoginRow /\ q.account = l.account /\ q.at = "over" /\ q.cut = TRUE
    BY <1>1 DEF LoginRow
  <2>. HIDE DEF r, q
  <2>3. r.at = "over" => r.client = TRUE BY <1>1, <2>2 DEF LoginRow
  <2>4. r.at \in {"over", "filling"} BY <2>2
  <2>. QED BY <1>2, <2>1, <2>2, <2>3, <2>4
<1>5. CASE TryFill(s)
  <2>. DEFINE r == [l EXCEPT !.tries = l.tries + 1, !.client = s \in shown,
                             !.at = IF s \in shown \/ l.tries + 1 = MaxTries THEN "over" ELSE "filling"]
  <2>1. login' = [login EXCEPT ![s] = r] BY <1>5 DEF TryFill, SignUpsInv, SignUpsTypeOK
  <2>6. l.logged = TRUE BY <1>1, <1>5 DEF TryFill
  <2>2. l.tries + 1 \in Nat /\ (s \in shown) \in BOOLEAN BY <1>1 DEF LoginRow
  <2>3. /\ r \in LoginRow /\ r.account = l.account /\ r.logged = l.logged /\ r.tries = l.tries + 1 /\ r.client = (s \in shown)
        /\ r.at = IF s \in shown \/ l.tries + 1 = MaxTries THEN "over" ELSE "filling"
    BY <1>1, <2>2 DEF LoginRow
  <2>. HIDE DEF r
  <2>4. r.at = "over" => r.client \/ r.tries = MaxTries BY <2>3
  <2>5. r.at \in {"over", "filling"} BY <2>3
  <2>. QED BY <1>2, <2>1, <2>3, <2>4, <2>5, <2>6
<1>6. CASE CutFill(s)
  <2>. DEFINE r == [l EXCEPT !.at = "over", !.cut = TRUE]
  <2>1. r \in LoginRow /\ r.account = l.account /\ r.at = "over" /\ r.cut = TRUE BY <1>1 DEF LoginRow
  <2>2. login' = [login EXCEPT ![s] = r] BY <1>6 DEF CutFill, SignUpsInv, SignUpsTypeOK
  <2>. HIDE DEF r
  <2>. QED BY <1>2, <2>1, <2>2
<1>. QED BY <1>3, <1>4, <1>5, <1>6

LEMMA SessionsComeAndGoOK == ASSUME SignUpsInv, NEW s \in SignIn, ShowSession(s) \/ EndSession(s) PROVE SignUpsInv'
<1>. USE DEF SignUpsInv
<1>1. UNCHANGED <<account, user, signUp, login>> /\ shown' \subseteq SignIn
  BY DEF ShowSession, EndSession, SignUpsTypeOK
<1>2. SignUpsTypeOK' BY <1>1 DEF SignUpsTypeOK
<1>3. LoginsRest BY <1>1 DEF LoginsRest
<1>4. RowsStay' /\ OthersOverlap' BY <1>1 DEF RowsStay, OthersOverlap, Running
<1>5. ReadingsHold' BY <1>1 DEF ReadingsHold, Linked
<1>. QED BY <1>1, <1>2, <1>3, <1>4, <1>5, AccountsAreTyped, LoginsStay

LEMMA SignUpsStepOK == SignUpsInv /\ [SignUpsNext]_signUpVars => SignUpsInv'
<1>. SUFFICES ASSUME SignUpsInv, [SignUpsNext]_signUpVars PROVE SignUpsInv' OBVIOUS
<1>1. CASE UNCHANGED signUpVars
  <2>. USE DEF SignUpsInv
  <2>1. UNCHANGED <<account, user, signUp, shown, login>> BY <1>1 DEF signUpVars
  <2>2. SignUpsTypeOK' BY <2>1 DEF SignUpsTypeOK
  <2>3. LoginsRest BY <2>1 DEF LoginsRest
  <2>4. RowsStay' /\ OthersOverlap' BY <2>1 DEF RowsStay, OthersOverlap, Running
  <2>5. ReadingsHold' BY <2>1 DEF ReadingsHold, Linked
  <2>. QED BY <2>1, <2>2, <2>3, <2>4, <2>5, AccountsAreTyped, LoginsStay
<1>2. CASE \E a \in Account : ReadUser(a) \/ CreateUser(a) \/ RestoreUser(a) \/ RelinkUser(a)
  BY <1>2, ReadUserOK, CreateUserOK, UpdateUserOK
<1>3. CASE \E a \in Account : HookFails(a) \/ NeverCreated(a)
  BY <1>3, RefusingOK DEF HookFails, NeverCreated, Running
<1>4. CASE \E a \in Account : CreateAccount(a) BY <1>4, CreateAccountOK
<1>5. CASE DeleteAccount \/ Administer BY <1>5, DeleteAccountOK, AdministerOK
<1>6. CASE \E s \in SignIn : ShowSession(s) \/ EndSession(s) \/ FindUser(s) BY <1>6, SessionsComeAndGoOK, FindUserOK
<1>7. CASE \E s \in SignIn : ReadClient(s) \/ WriteLog(s) \/ TryFill(s) \/ CutFill(s) BY <1>7, LoggingOK
<1>. QED BY <1>1, <1>2, <1>3, <1>4, <1>5, <1>6, <1>7 DEF SignUpsNext

(* A login is noticed once and logged, and accounts keep to their rows, for    *)
(* any sessions, requests, devices and accounts (LoginsAreRight).             *)
THEOREM LoginsAndSignUps == DevicesSpec /\ SignUpsSpec => []LoginsAreRight
<1>1. SignUpsInv => AccountsAgree
  <2>1. SignUpsInv => RowsFollowAccounts
    BY AccountsAreTyped DEF SignUpsInv, RowsFollowAccounts, RowsStay, ReadingsHold, Linked
  <2>. QED BY <2>1 DEF SignUpsInv, AccountsAgree
<1>2. DevicesInv /\ SignUpsInv => LoginsAreRight BY <1>1, DevicesInvNotices DEF LoginsAreRight
<1>3. DevicesSpec => []DevicesInv BY DevicesInitOK, DevicesStepOK, PTL DEF DevicesSpec
<1>4. SignUpsSpec => []SignUpsInv BY SignUpsInitOK, SignUpsStepOK, PTL DEF SignUpsSpec
<1>. QED BY <1>2, <1>3, <1>4, PTL

-----------------------------------------------------------------------------
(* Departments: what recursive functions yield                               *)

(* Induction, over a set of numbers                                          *)
LEMMA FromZero ==
  ASSUME NEW T, 0 \in T, \A n \in Nat : n \in T => n + 1 \in T
  PROVE  Nat \subseteq T
<1> SUFFICES ASSUME Nat \ T # {} PROVE FALSE
  OBVIOUS
<1> DEFINE R == OpToRel(<, Nat)
<1>1. IsWellFoundedOn(R, Nat)
  BY NatLessThanWellFounded
<1>2. \A a, b \in Nat : a < b => <<a, b>> \in R
  BY DEF OpToRel
<1>3. PICK n \in Nat \ T : \A m \in Nat \ T : <<m, n>> \notin R
  BY <1>1, WFMin
<1> HIDE DEF R
<1>4. n # 0 /\ n - 1 \in Nat /\ n - 1 < n /\ n - 1 + 1 = n
  BY <1>3
<1>5. n - 1 \in T
  BY <1>2, <1>3, <1>4
<1> QED
  BY <1>3, <1>4, <1>5

(* ... up to a bound                                                          *)
LEMMA UpTo ==
  ASSUME NEW N \in Nat, NEW T, 0 \in T, \A n \in 0..(N - 1) : n \in T => n + 1 \in T
  PROVE  0..N \subseteq T
<1> DEFINE S == { n \in Nat : n <= N => n \in T }
<1>1. 0 \in S /\ \A n \in Nat : n \in S => n + 1 \in S
  OBVIOUS
<1> HIDE DEF S
<1>2. Nat \subseteq S
  BY <1>1, FromZero
<1> QED
  BY <1>2 DEF S

(* A function that is told by its first value and by how it goes on, exists   *)
Stepping(f, N, V, first, next) == f \in [0..N -> V] /\ f[0] = first /\ \A n \in 1..N : f[n] = next[f[n - 1]]
LEMMA Stepwise ==
  ASSUME NEW N \in Nat, NEW V, NEW first \in V, NEW next \in [V -> V]
  PROVE  \E f : Stepping(f, N, V, first, next)
<1> DEFINE Good(n) == \E f \in [0..n -> V] : f[0] = first /\ \A k \in 1..n : f[k] = next[f[k - 1]]
           T == { n \in Nat : Good(n) }
<1>1. Good(0)
  <2> DEFINE f == [k \in 0..0 |-> first]
  <2>1. f \in [0..0 -> V] /\ f[0] = first /\ \A k \in 1..0 : FALSE
    OBVIOUS
  <2> QED
    BY <2>1
<1>2. ASSUME NEW n \in Nat, Good(n) PROVE Good(n + 1)
  <2>1. PICK f \in [0..n -> V] : f[0] = first /\ \A k \in 1..n : f[k] = next[f[k - 1]]
    BY <1>2
  <2> DEFINE g == [k \in 0..(n + 1) |-> IF k = n + 1 THEN next[f[n]] ELSE f[k]]
  <2>2. g \in [0..(n + 1) -> V] /\ g[n + 1] = next[f[n]] /\ \A k \in 0..n : g[k] = f[k]
    BY <2>1
  <2> HIDE DEF g
  <2>3. g[0] = first /\ g[n + 1] = next[g[n]]
    BY <2>1, <2>2
  <2>4. \A k \in 1..n : g[k] = next[g[k - 1]]
    BY <2>1, <2>2
  <2>5. ASSUME NEW k \in 1..(n + 1) PROVE g[k] = next[g[k - 1]]
    <3>1. CASE k = n + 1
      <4>1. k - 1 = n
        BY <3>1
      <4> QED
        BY <2>3, <3>1, <4>1
    <3>2. CASE k \in 1..n
      BY <2>4, <3>2
    <3> QED
      BY <3>1, <3>2
  <2> QED
    BY <2>2, <2>3, <2>5
<1>3. Good(N)
  <2> HIDE DEF Good
  <2>1. 0 \in T /\ \A n \in Nat : n \in T => n + 1 \in T
    BY <1>1, <1>2
  <2> HIDE DEF T
  <2>2. N \in T
    BY <2>1, FromZero
  <2> QED
    BY <2>2 DEF T
<1> QED
  BY <1>3 DEF Stepping

LEMMA SizeOfDept ==
  ASSUME DepartmentsAssumption
  PROVE  IsFiniteSet(Dept) /\ Cardinality(Dept) \in Nat /\ Null \notin Dept
  BY FS_CardinalityType DEF DepartmentsAssumption

Leads(after, C) == \A x \in C : after[x] \subseteq C

(* What is reached from S is the least set that holds S and leads nowhere    *)
(* else, among the departments and null                                      *)
LEMMA ReachedIs ==
  ASSUME DepartmentsAssumption, NEW U, Dept \subseteq U, U \subseteq Dept \cup {Null},
         NEW S \in SUBSET U, NEW after \in [U -> SUBSET U],
         U = Dept \/ S # {}
  PROVE  /\ Reached(S, after) \in SUBSET U
         /\ S \subseteq Reached(S, after)
         /\ Leads(after, Reached(S, after))
         /\ \A C \in SUBSET U : S \subseteq C /\ Leads(after, C) => Reached(S, after) \subseteq C
<1> DEFINE N == Cardinality(Dept)
           Grow(T) == T \cup UNION { after[x] : x \in T }
           next == [T \in SUBSET U |-> Grow(T)]
<1>1. N \in Nat /\ IsFiniteSet(Dept)
  BY SizeOfDept
<1>2. IsFiniteSet(U) /\ Cardinality(U) \in Nat /\ Cardinality(U) <= N + (IF U = Dept THEN 0 ELSE 1)
  <2>1. CASE U = Dept
    BY <1>1, <2>1
  <2>2. CASE U # Dept
    <3>1. U = Dept \cup {Null}
      BY <2>2
    <3>2. IsFiniteSet(Dept \cup {Null}) /\ Cardinality(Dept \cup {Null}) = N + 1
      BY <1>1, SizeOfDept, FS_AddElement
    <3> QED
      BY <1>1, <2>2, <3>1, <3>2
  <2> QED
    BY <2>1, <2>2
<1>3. \A T \in SUBSET U : Grow(T) \in SUBSET U /\ T \subseteq Grow(T) /\ next[T] = Grow(T)
  OBVIOUS
<1>4. next \in [SUBSET U -> SUBSET U]
  BY <1>3
<1> HIDE DEF N, next
<1>5. PICK f \in [0..N -> SUBSET U] : f[0] = S /\ \A n \in 1..N : f[n] = next[f[n - 1]]
  <2> DEFINE V == SUBSET U
  <2>1. S \in V /\ next \in [V -> V]
    BY <1>4
  <2> HIDE DEF V
  <2>2. PICK f : Stepping(f, N, V, S, next)
    BY <1>1, <2>1, Stepwise
  <2> QED
    BY <2>2 DEF V, Stepping
<1> DEFINE P(h) == h = [n \in 0..N |-> IF n = 0 THEN S ELSE LET T == h[n - 1] IN T \cup UNION { after[x] : x \in T }]
<1>6. P(f)
  <2>1. \A n \in 1..N : f[n] = Grow(f[n - 1])
    BY <1>1, <1>3, <1>5
  <2> QED
    BY <1>5, <2>1
<1> DEFINE step == CHOOSE h : P(h)
<1>7. Reached(S, after) = step[N]
  BY DEF Reached, N
<1> HIDE DEF P
<1>8. P(step)
  BY <1>6
<1> HIDE DEF step
<1>9. step[0] = S /\ \A n \in 0..(N - 1) : step[n + 1] = Grow(step[n])
  <2>1. \A n \in 0..N : step[n] = IF n = 0 THEN S ELSE Grow(step[n - 1])
    BY <1>8 DEF P
  <2> HIDE DEF Grow
  <2>2. ASSUME NEW n \in 0..(N - 1) PROVE step[n + 1] = Grow(step[n])
    <3>1. n + 1 \in 0..N /\ n + 1 # 0 /\ n + 1 - 1 = n
      BY <1>1
    <3> QED
      BY <2>1, <3>1
  <2> QED
    BY <1>1, <2>1, <2>2
<1> HIDE DEF Grow
<1> DEFINE A == { n \in 0..N : step[n] \in SUBSET U /\ S \subseteq step[n] }
<1>10. 0..N \subseteq A
  <2>1. 0 \in A
    BY <1>1, <1>9
  <2>2. \A n \in 0..(N - 1) : n \in A => n + 1 \in A
    BY <1>1, <1>3, <1>9
  <2> HIDE DEF A
  <2> QED
    BY <1>1, <2>1, <2>2, UpTo
<1>11. \A n \in 0..N : step[n] \in SUBSET U /\ S \subseteq step[n] /\ IsFiniteSet(step[n]) /\ Cardinality(step[n]) \in Nat
  BY <1>2, <1>10, FS_Subset, FS_CardinalityType
<1> DEFINE Ended(n) == Leads(after, step[n])
           B == { n \in 0..N : Ended(n) \/ Cardinality(step[n]) >= n + (IF S = {} THEN 0 ELSE 1) }
<1>12. S = {} => \A n \in 0..N : step[n] = {}
  <2> SUFFICES ASSUME S = {} PROVE \A n \in 0..N : step[n] = {}
    OBVIOUS
  <2> DEFINE D == { n \in 0..N : step[n] = {} }
  <2>1. 0 \in D
    BY <1>1, <1>9
  <2>2. Grow({}) = {}
    BY DEF Grow
  <2>3. ASSUME NEW n \in 0..(N - 1), n \in D PROVE n + 1 \in D
    <3>1. step[n + 1] = Grow(step[n]) /\ step[n] = {} /\ n + 1 \in 0..N
      BY <1>1, <1>9, <2>3
    <3>2. step[n + 1] = {}
      BY <2>2, <3>1
    <3> QED
      BY <3>1, <3>2
  <2> HIDE DEF D
  <2>4. 0..N \subseteq D
    BY <1>1, <2>1, <2>3, UpTo
  <2> QED
    BY <2>4 DEF D
<1>13. S # {} => 0..N \subseteq B
  <2> SUFFICES ASSUME S # {} PROVE 0..N \subseteq B
    OBVIOUS
  <2>1. 0 \in B
    <3>1. Cardinality(step[0]) # 0
      BY <1>1, <1>9, <1>11, FS_EmptySet
    <3> QED
      BY <1>1, <1>11, <3>1
  <2>2. ASSUME NEW n \in 0..(N - 1), n \in B PROVE n + 1 \in B
    <3>1. n \in 0..N /\ n + 1 \in 0..N
      BY <1>1
    <3>2. CASE Ended(n)
      <4>1. Grow(step[n]) = step[n]
        BY <3>2 DEF Grow, Leads
      <4> QED
        BY <1>9, <3>1, <3>2, <4>1
    <3>3. CASE ~Ended(n)
      <4>1. PICK y \in step[n + 1] : y \notin step[n]
        BY <1>9, <3>3 DEF Grow, Leads
      <4>2. step[n] \subseteq step[n + 1]
        BY <1>9 DEF Grow
      <4>3. Cardinality(step[n] \cup {y}) = Cardinality(step[n]) + 1 /\ IsFiniteSet(step[n] \cup {y})
        BY <1>11, <3>1, <4>1, FS_AddElement
      <4>4. Cardinality(step[n] \cup {y}) <= Cardinality(step[n + 1])
        BY <1>11, <3>1, <4>1, <4>2, FS_Subset
      <4>5. Cardinality(step[n]) >= n + 1
        BY <2>2, <3>3
      <4> QED
        BY <1>11, <3>1, <4>3, <4>4, <4>5
    <3> QED
      BY <3>2, <3>3
  <2> HIDE DEF B
  <2> QED
    BY <1>1, <2>1, <2>2, UpTo
<1>14. Ended(N)
  <2>1. N \in 0..N
    BY <1>1
  <2>2. CASE S = {}
    BY <1>12, <2>1, <2>2 DEF Leads
  <2>3. CASE S # {}
    <3>1. Ended(N) \/ Cardinality(step[N]) >= N + 1
      BY <1>13, <2>1, <2>3
    <3>2. ASSUME Cardinality(step[N]) >= N + 1 PROVE Ended(N)
      <4>1. Cardinality(step[N]) = Cardinality(U)
        <5>1. Cardinality(step[N]) <= Cardinality(U)
          BY <1>2, <1>11, <2>1, FS_Subset
        <5> QED
          BY <1>1, <1>2, <1>11, <2>1, <3>2, <5>1
      <4>2. step[N] = U
        BY <1>2, <1>11, <2>1, <4>1, FS_Subset
      <4> QED
        BY <4>2 DEF Leads
    <3> QED
      BY <3>1, <3>2
  <2> QED
    BY <2>2, <2>3
<1>15. ASSUME NEW C \in SUBSET U, S \subseteq C, Leads(after, C) PROVE step[N] \subseteq C
  <2> DEFINE E == { n \in 0..N : step[n] \subseteq C }
  <2>1. 0 \in E
    BY <1>1, <1>9, <1>15
  <2>2. ASSUME NEW n \in 0..(N - 1), n \in E PROVE n + 1 \in E
    <3>1. n + 1 \in 0..N /\ step[n] \subseteq C /\ step[n + 1] = Grow(step[n])
      BY <1>1, <1>9, <2>2
    <3>2. Grow(step[n]) \subseteq C
      BY <1>15, <3>1 DEF Grow, Leads
    <3> QED
      BY <3>1, <3>2
  <2> HIDE DEF E
  <2>3. 0..N \subseteq E
    BY <1>1, <2>1, <2>2, UpTo
  <2>4. N \in E
    BY <1>1, <2>3
  <2> QED
    BY <2>4 DEF E
<1> QED
  BY <1>1, <1>7, <1>11, <1>14, <1>15

-----------------------------------------------------------------------------
(* The way up from a department                                              *)

DeptOK == DepartmentsAssumption /\ dept \in [Dept -> Department \cup {Null}]

(* Whoever exists has a row *)
LEMMA RowIs ==
  ASSUME DeptOK, NEW d \in Dept, Exists(d)
  PROVE  dept[d] \in Department /\ dept[d].parent \in Dept \cup {Null} /\ dept[d].path \in Seq(Dept)
         /\ dept[d].deleted \in BOOLEAN
<1>1. dept[d] \in Department
  BY DEF DeptOK, Exists
<1> QED
  BY <1>1 DEF Department

(* Going up from C one stays in C *)
GoesUp(e) == dept[e].parent # Null /\ Lives(dept[e].parent)
HoldsAbove(C) == \A e \in C : GoesUp(e) => dept[e].parent \in C

(* A way: from one department to its parent, over those that live, without    *)
(* a department twice                                                         *)
IsWay(c, d) ==
  /\ c \in Seq(Dept) /\ Len(c) > 0 /\ c[1] = d
  /\ \A i \in 1..Len(c) : Exists(c[i])
  /\ \A i \in 1..(Len(c) - 1) : dept[c[i]].parent = c[i + 1] /\ Lives(c[i + 1])
  /\ \A i, j \in 1..Len(c) : c[i] = c[j] => i = j

LastOf(c) == c[Len(c)]
IsOver(c) == GoesUp(LastOf(c)) => dept[LastOf(c)].parent \in Range(c)
OneUp(c) == IF IsOver(c) THEN c ELSE Append(c, dept[LastOf(c)].parent)

LEMMA OneUpIsAWay ==
  ASSUME DeptOK, NEW d \in Dept, NEW c, IsWay(c, d)
  PROVE  /\ IsWay(OneUp(c), d)
         /\ ~IsOver(c) => OneUp(c) = Append(c, dept[LastOf(c)].parent) /\ Range(OneUp(c)) = Range(c) \cup {dept[LastOf(c)].parent}
<1> DEFINE p == dept[LastOf(c)].parent
           b == Append(c, p)
<1>1. c \in Seq(Dept) /\ Len(c) \in Nat /\ Len(c) > 0 /\ LastOf(c) \in Dept /\ Exists(LastOf(c))
  BY DEF IsWay, LastOf
<1>2. CASE IsOver(c)
  BY <1>2 DEF OneUp
<1>3. CASE ~IsOver(c)
  <2>1. p \in Dept /\ Lives(p) /\ Exists(p) /\ p \notin Range(c)
    BY <1>1, <1>3, RowIs DEF IsOver, GoesUp, Lives
  <2> HIDE DEF p
  <2>2. /\ b \in Seq(Dept) /\ Len(b) = Len(c) + 1 /\ b[Len(c) + 1] = p
        /\ \A i \in 1..Len(c) : b[i] = c[i]
    BY <1>1, <2>1
  <2>3. OneUp(c) = b
    BY <1>3 DEF OneUp, p
  <2>4. \A i \in 1..Len(c) : c[i] \in Range(c) /\ c[i] # p
    BY <1>1, <2>1 DEF Range
  <2>5. 1..Len(b) = 1..Len(c) \cup {Len(c) + 1}
    BY <1>1, <2>2
  <2>6. Range(b) = Range(c) \cup {p}
    <3>1. DOMAIN b = 1..Len(b) /\ DOMAIN c = 1..Len(c)
      BY <1>1, <2>2
    <3> HIDE DEF b
    <3> QED
      BY <2>2, <2>5, <3>1 DEF Range
  <2> HIDE DEF b
  <2>7. Len(b) > 0 /\ b[1] = d
    BY <1>1, <2>2 DEF IsWay
  <2>8. \A i \in 1..Len(b) : Exists(b[i])
    BY <2>1, <2>2, <2>5 DEF IsWay
  <2>9. ASSUME NEW i \in 1..(Len(b) - 1) PROVE dept[b[i]].parent = b[i + 1] /\ Lives(b[i + 1])
    <3>1. CASE i = Len(c)
      BY <1>1, <2>1, <2>2, <3>1 DEF p, LastOf
    <3>2. CASE i # Len(c)
      <4>1. i \in 1..(Len(c) - 1) /\ i + 1 \in 1..Len(c) /\ i \in 1..Len(c)
        BY <1>1, <2>2, <3>2
      <4> QED
        BY <2>2, <4>1 DEF IsWay
    <3> QED
      BY <3>1, <3>2
  <2>10. \A i, j \in 1..Len(b) : b[i] = b[j] => i = j
    BY <1>1, <2>2, <2>4, <2>5 DEF IsWay
  <2>11. IsWay(b, d)
    BY <2>2, <2>7, <2>8, <2>9, <2>10 DEF IsWay
  <2> QED
    BY <2>3, <2>6, <2>11 DEF b, p
<1> QED
  BY <1>2, <1>3

(* The chain of a department is a way that ends where there is nothing more  *)
LEMMA ChainIs ==
  ASSUME DeptOK, NEW d \in Dept, Exists(d)
  PROVE  /\ IsWay(ChainOf(d), d)
         /\ d \in Range(ChainOf(d)) /\ Range(ChainOf(d)) \subseteq Dept
         /\ HoldsAbove(Range(ChainOf(d)))
<1> DEFINE N == Cardinality(Dept)
           V == { c \in Seq(Dept) : IsWay(c, d) }
           first == <<d>>
           next == [c \in V |-> OneUp(c)]
<1>1. N \in Nat /\ IsFiniteSet(Dept)
  BY SizeOfDept DEF DeptOK
<1>2. first \in V
  <2>1. first \in Seq(Dept) /\ Len(first) = 1 /\ first[1] = d
    OBVIOUS
  <2> HIDE DEF first
  <2>2. IsWay(first, d)
    BY <2>1 DEF IsWay
  <2> QED
    BY <2>1, <2>2
<1>3. \A c \in V : OneUp(c) \in V /\ next[c] = OneUp(c)
  BY OneUpIsAWay DEF IsWay
<1>4. next \in [V -> V]
  BY <1>3
<1>5. \A c \in V : c \in Seq(Dept) /\ IsWay(c, d)
  OBVIOUS
<1> HIDE DEF N, V, next
<1>6. PICK f : Stepping(f, N, V, first, next)
  BY <1>1, <1>2, <1>4, Stepwise
<1> DEFINE P(h) == h = [n \in 0..N |->
             IF n = 0 THEN <<d>>
             ELSE LET chain == h[n - 1]
                      p == dept[chain[Len(chain)]].parent
                  IN  IF p = Null \/ ~Lives(p) \/ p \in Range(chain) THEN chain ELSE Append(chain, p)]
<1>7. \A c : OneUp(c) = LET p == dept[c[Len(c)]].parent
                        IN  IF p = Null \/ ~Lives(p) \/ p \in Range(c) THEN c ELSE Append(c, p)
  BY DEF OneUp, IsOver, GoesUp, LastOf
<1>8. P(f)
  <2>1. f = [n \in 0..N |-> f[n]] /\ f[0] = <<d>>
    BY <1>6 DEF Stepping
  <2>2. \A n \in 0..N : n # 0 => n \in 1..N /\ n - 1 \in 0..N
    BY <1>1
  <2>3. \A n \in 0..N : n # 0 => f[n] = OneUp(f[n - 1])
    BY <1>3, <1>6, <2>2 DEF Stepping
  <2> QED
    BY <1>7, <2>1, <2>3
<1> DEFINE up == CHOOSE h : P(h)
<1>9. ChainOf(d) = up[N]
  BY DEF ChainOf, N
<1> HIDE DEF P
<1>10. P(up)
  BY <1>8
<1> HIDE DEF up
<1>11. up[0] = first /\ \A n \in 0..(N - 1) : up[n + 1] = OneUp(up[n])
  <2>1. \A n \in 0..N : up[n] = IF n = 0 THEN <<d>> ELSE OneUp(up[n - 1])
    BY <1>7, <1>10 DEF P
  <2>2. ASSUME NEW n \in 0..(N - 1) PROVE up[n + 1] = OneUp(up[n])
    <3>1. n + 1 \in 0..N /\ n + 1 # 0 /\ n + 1 - 1 = n
      BY <1>1
    <3> QED
      BY <2>1, <3>1
  <2> QED
    BY <1>1, <2>1, <2>2
<1>12. Range(first) = {d}
  BY DEF Range
<1> HIDE DEF first
<1> DEFINE A == { n \in 0..N : up[n] \in V }
<1>13. 0..N \subseteq A
  <2>1. 0 \in A
    BY <1>1, <1>2, <1>11
  <2>2. ASSUME NEW n \in 0..(N - 1), n \in A PROVE n + 1 \in A
    <3>1. n + 1 \in 0..N /\ up[n] \in V
      BY <1>1, <2>2
    <3> QED
      BY <1>3, <1>11, <3>1
  <2> HIDE DEF A
  <2> QED
    BY <1>1, <2>1, <2>2, UpTo
<1>14. \A n \in 0..N : up[n] \in V /\ Range(up[n]) \subseteq Dept /\ IsFiniteSet(Range(up[n])) /\ Cardinality(Range(up[n])) \in Nat
  <2> SUFFICES ASSUME NEW n \in 0..N
               PROVE  up[n] \in V /\ Range(up[n]) \subseteq Dept /\ IsFiniteSet(Range(up[n])) /\ Cardinality(Range(up[n])) \in Nat
    OBVIOUS
  <2>1. up[n] \in V
    BY <1>13
  <2>2. up[n] \in Seq(Dept)
    BY <1>5, <2>1
  <2>3. Range(up[n]) \subseteq Dept
    BY <2>2 DEF Range
  <2> QED
    BY <1>1, <2>1, <2>3, FS_Subset, FS_CardinalityType
<1> DEFINE B == { n \in 0..N : IsOver(up[n]) \/ Cardinality(Range(up[n])) >= n + 1 }
<1>15. 0..N \subseteq B
  <2>1. 0 \in B
    <3>1. Range(up[0]) # {}
      BY <1>11, <1>12
    <3>2. Cardinality(Range(up[0])) # 0
      BY <1>1, <1>14, <3>1, FS_EmptySet
    <3> QED
      BY <1>1, <1>14, <3>2
  <2>2. ASSUME NEW n \in 0..(N - 1), n \in B PROVE n + 1 \in B
    <3>1. n \in 0..N /\ n + 1 \in 0..N /\ up[n + 1] = OneUp(up[n]) /\ IsWay(up[n], d)
      BY <1>1, <1>5, <1>11, <1>14
    <3>2. CASE IsOver(up[n])
      <4>1. up[n + 1] = up[n]
        BY <3>1, <3>2 DEF OneUp
      <4> QED
        BY <3>1, <3>2, <4>1
    <3>3. CASE ~IsOver(up[n])
      <4> DEFINE p == dept[LastOf(up[n])].parent
      <4>1. Range(up[n + 1]) = Range(up[n]) \cup {p}
        BY <3>1, <3>3, OneUpIsAWay
      <4>2. p \notin Range(up[n])
        BY <3>3 DEF IsOver
      <4> HIDE DEF p
      <4>3. Cardinality(Range(up[n]) \cup {p}) = Cardinality(Range(up[n])) + 1
        BY <1>14, <3>1, <4>2, FS_AddElement
      <4>4. Cardinality(Range(up[n])) >= n + 1
        BY <2>2, <3>3
      <4>5. Cardinality(Range(up[n])) \in Nat /\ n \in Nat
        BY <1>1, <1>14, <3>1
      <4>6. Cardinality(Range(up[n + 1])) >= (n + 1) + 1
        BY <4>1, <4>3, <4>4, <4>5
      <4> QED
        BY <3>1, <4>6
    <3> QED
      BY <3>2, <3>3
  <2> HIDE DEF B
  <2> QED
    BY <1>1, <2>1, <2>2, UpTo
<1>16. IsOver(up[N])
  <2>1. N \in 0..N
    BY <1>1
  <2>2. Cardinality(Range(up[N])) <= N
    BY <1>1, <1>14, <2>1, FS_Subset DEF N
  <2>3. IsOver(up[N]) \/ Cardinality(Range(up[N])) >= N + 1
    BY <1>15, <2>1
  <2> QED
    BY <1>1, <1>14, <2>1, <2>2, <2>3
<1> DEFINE c == up[N]
<1>17. IsWay(c, d) /\ IsOver(c) /\ Range(c) \subseteq Dept
  BY <1>1, <1>5, <1>14, <1>16
<1> HIDE DEF c
<1>18. c \in Seq(Dept) /\ DOMAIN c = 1..Len(c) /\ Len(c) \in Nat /\ Len(c) > 0 /\ c[1] = d
  BY <1>17 DEF IsWay
<1>19. d \in Range(c)
  BY <1>18 DEF Range
<1>20. HoldsAbove(Range(c))
  <2> SUFFICES ASSUME NEW i \in 1..Len(c), GoesUp(c[i]) PROVE dept[c[i]].parent \in Range(c)
    BY <1>18 DEF HoldsAbove, Range
  <2>1. CASE i = Len(c)
    <3>1. GoesUp(LastOf(c)) => dept[LastOf(c)].parent \in Range(c)
      BY <1>17 DEF IsOver
    <3>2. c[i] = LastOf(c)
      BY <2>1 DEF LastOf
    <3> QED
      BY <3>1, <3>2 DEF GoesUp
  <2>2. CASE i # Len(c)
    <3> DEFINE n == Len(c)
    <3>3. n \in Nat /\ DOMAIN c = 1..n /\ i \in 1..n /\ i # n
      BY <1>18, <2>2
    <3> HIDE DEF n
    <3>4. i \in 1..(n - 1) /\ i + 1 \in 1..n
      BY <3>3
    <3>1. i \in 1..(Len(c) - 1) /\ i + 1 \in DOMAIN c
      BY <3>3, <3>4 DEF n
    <3>2. dept[c[i]].parent = c[i + 1]
      BY <1>17, <3>1 DEF IsWay
    <3> QED
      BY <3>1, <3>2 DEF Range
  <2> QED
    BY <2>1, <2>2
<1>21. ChainOf(d) = c
  BY <1>9 DEF c
<1> QED
  BY <1>17, <1>19, <1>20, <1>21

(* Who holds what is above, holds the rest of a way that comes along         *)
LEMMA RestOfAWay ==
  ASSUME DeptOK, NEW d \in Dept, NEW c, IsWay(c, d), NEW C, HoldsAbove(C),
         NEW i \in 1..Len(c), c[i] \in C
  PROVE  \A j \in i..Len(c) : c[j] \in C
<1> DEFINE T == { k \in 0..(Len(c) - i) : c[i + k] \in C }
<1>1. Len(c) \in Nat /\ i \in Nat /\ Len(c) - i \in Nat
  BY DEF IsWay
<1>2. 0 \in T
  BY <1>1
<1>3. ASSUME NEW k \in 0..((Len(c) - i) - 1), k \in T PROVE k + 1 \in T
  <2>1. i + k \in 1..(Len(c) - 1) /\ i + (k + 1) = (i + k) + 1 /\ k + 1 \in 0..(Len(c) - i)
    BY <1>1
  <2>2. c[(i + k) + 1] \in Dept /\ c[i + k] \in C /\ dept[c[i + k]].parent = c[(i + k) + 1] /\ Lives(c[(i + k) + 1])
    BY <1>1, <1>3, <2>1 DEF IsWay
  <2>3. c[(i + k) + 1] \in C
    BY <2>2, SizeOfDept DEF HoldsAbove, GoesUp, DeptOK
  <2> QED
    BY <2>1, <2>3
<1> HIDE DEF T
<1>4. 0..(Len(c) - i) \subseteq T
  BY <1>1, <1>2, <1>3, UpTo
<1>5. ASSUME NEW j \in i..Len(c) PROVE c[j] \in C
  <2>1. j - i \in 0..(Len(c) - i) /\ i + (j - i) = j
    BY <1>1
  <2> QED
    BY <1>4, <2>1 DEF T
<1> QED
  BY <1>5

LEMMA ChainIsLeast ==
  ASSUME DeptOK, NEW d \in Dept, Exists(d), NEW C, HoldsAbove(C), d \in C
  PROVE  Range(ChainOf(d)) \subseteq C
<1> DEFINE c == ChainOf(d)
<1>1. IsWay(c, d)
  BY ChainIs
<1> HIDE DEF c
<1>2. DOMAIN c = 1..Len(c) /\ 1 \in 1..Len(c) /\ c[1] \in C
  BY <1>1 DEF IsWay
<1>3. \A j \in 1..Len(c) : c[j] \in C
  BY <1>1, <1>2, RestOfAWay
<1> QED
  BY <1>2, <1>3 DEF Range, c

(* Who is above, is above with all that is above it                          *)
LEMMA ChainsGrow ==
  ASSUME DeptOK, NEW d \in Dept, Exists(d), NEW e \in Range(ChainOf(d))
  PROVE  /\ e \in Dept /\ Exists(e) /\ (Lives(d) => Lives(e))
         /\ Range(ChainOf(e)) \subseteq Range(ChainOf(d))
<1> DEFINE c == ChainOf(d)
<1>1. IsWay(c, d) /\ HoldsAbove(Range(c)) /\ Range(c) \subseteq Dept
  BY ChainIs
<1> HIDE DEF c
<1>2. c \in Seq(Dept) /\ Len(c) \in Nat /\ DOMAIN c = 1..Len(c)
  BY <1>1 DEF IsWay
<1>3. PICK i \in 1..Len(c) : c[i] = e
  BY <1>2 DEF c, Range
<1>4. e \in Dept /\ Exists(e)
  BY <1>1, <1>2, <1>3 DEF IsWay
<1>5. Lives(d) => Lives(e)
  <2>1. CASE i = 1
    BY <1>1, <1>3, <2>1 DEF IsWay
  <2>2. CASE i # 1
    <3> DEFINE k == i - 1
    <3>1. k \in 1..(Len(c) - 1) /\ k + 1 = i
      BY <1>2, <2>2
    <3> HIDE DEF k
    <3>2. Lives(c[k + 1])
      BY <1>1, <3>1 DEF IsWay
    <3> QED
      BY <1>3, <3>1, <3>2
  <2> QED
    BY <2>1, <2>2
<1>6. Range(ChainOf(e)) \subseteq Range(c)
  BY <1>1, <1>4, ChainIsLeast DEF c
<1> QED
  BY <1>4, <1>5, <1>6 DEF c

-----------------------------------------------------------------------------
(* The way down                                                              *)

LEMMA BelowIs ==
  ASSUME NEW S \in SUBSET Dept
  PROVE  /\ Below(S) \in [Dept -> SUBSET Dept]
         /\ \A p \in Dept : Below(S)[p] = { d \in S : dept[d].parent = p }
  BY DEF Below

HoldsBelow(C) == \A d \in Listed : dept[d].parent \in C => d \in C

LEMMA SubtreeIs ==
  ASSUME DeptOK, NEW own \in Listed
  PROVE  /\ Subtree(own) \in SUBSET Listed /\ own \in Subtree(own) /\ HoldsBelow(Subtree(own))
         /\ \A C \in SUBSET Dept : own \in C /\ HoldsBelow(C) => Subtree(own) \subseteq C
<1> DEFINE after == Below(Listed)
           R == Reached({own}, after)
<1>1. Listed \subseteq Dept /\ {own} \in SUBSET Dept
  BY DEF Listed
<1>2. after \in [Dept -> SUBSET Dept] /\ \A p \in Dept : after[p] = { d \in Listed : dept[d].parent = p }
  BY <1>1, BelowIs
<1>3. Subtree(own) = R
  BY DEF Subtree
<1> HIDE DEF after
<1>4. /\ R \in SUBSET Dept /\ {own} \subseteq R /\ Leads(after, R)
      /\ \A C \in SUBSET Dept : {own} \subseteq C /\ Leads(after, C) => R \subseteq C
  BY <1>1, <1>2, ReachedIs DEF DeptOK
<1> HIDE DEF R
<1>5. \A C \in SUBSET Dept : HoldsBelow(C) => Leads(after, C)
  BY <1>2 DEF HoldsBelow, Leads
<1>6. HoldsBelow(R)
  <2> SUFFICES ASSUME NEW d \in Listed, dept[d].parent \in R PROVE d \in R
    BY DEF HoldsBelow
  <2>1. d \in after[dept[d].parent]
    BY <1>2, <1>4
  <2> QED
    BY <1>4, <2>1 DEF Leads
<1>7. HoldsBelow(Listed)
  BY DEF HoldsBelow
<1> QED
  BY <1>1, <1>3, <1>4, <1>5, <1>6, <1>7

(* Whoever is on the way up from a department, has it below                  *)
LEMMA AboveIsBelow ==
  ASSUME DeptOK, NEW own \in Listed, NEW d \in Listed
  PROVE  own \in Range(ChainOf(d)) <=> d \in Subtree(own)
<1>1. \A e \in Listed : e \in Dept /\ Lives(e) /\ Exists(e)
  BY DEF Listed, Lives
<1>2. ASSUME d \notin Subtree(own) PROVE own \notin Range(ChainOf(d))
  <2> DEFINE C == Listed \ Subtree(own)
  <2>1. ASSUME NEW e \in C, GoesUp(e) PROVE dept[e].parent \in C
    <3>1. dept[e].parent \in Listed
      BY <1>1, <2>1, RowIs DEF GoesUp, Listed
    <3>2. dept[e].parent \notin Subtree(own)
      BY <2>1, SubtreeIs DEF HoldsBelow
    <3> QED
      BY <3>1, <3>2
  <2>2. HoldsAbove(C)
    BY <2>1 DEF HoldsAbove
  <2>3. Range(ChainOf(d)) \subseteq C
    BY <1>1, <1>2, <2>2, ChainIsLeast
  <2> QED
    BY <2>3, SubtreeIs
<1>3. ASSUME d \in Subtree(own) PROVE own \in Range(ChainOf(d))
  <2> DEFINE C == { e \in Listed : own \in Range(ChainOf(e)) }
  <2>1. own \in C
    BY <1>1, ChainIs
  <2>2. ASSUME NEW e \in Listed, dept[e].parent \in C PROVE e \in C
    <3> DEFINE p == dept[e].parent
    <3>1. p \in Listed /\ own \in Range(ChainOf(p)) /\ GoesUp(e)
      BY <1>1, <2>2, SizeOfDept DEF GoesUp, DeptOK
    <3>2. p \in Range(ChainOf(e))
      BY <1>1, <3>1, ChainIs DEF HoldsAbove
    <3>3. Range(ChainOf(p)) \subseteq Range(ChainOf(e))
      BY <1>1, <3>2, ChainsGrow
    <3> QED
      BY <3>1, <3>3
  <2>3. HoldsBelow(C) /\ C \in SUBSET Dept
    BY <1>1, <2>2 DEF HoldsBelow
  <2>4. Subtree(own) \subseteq C
    BY <2>1, <2>3, SubtreeIs
  <2> QED
    BY <1>3, <2>4
<1> QED
  BY <1>2, <1>3

(* A path that fits leads to where the parents lead                          *)
LEMMA PathsLeadBelow ==
  ASSUME DeptOK, PathsFit, NEW x \in Listed
  PROVE  Scope(x) = Subtree(x)
<1> DEFINE own == OwnPath(x)
           L == Len(own)
<1>1. \A e \in Listed : e \in Dept /\ Lives(e) /\ Exists(e) /\ dept[e].path \in Seq(Dept) /\ dept[e].parent \in Dept \cup {Null}
  BY RowIs DEF Listed, Lives
<1>2. /\ own \in Seq(Dept) /\ L \in Nat /\ L > 0 /\ own[L] = x
      /\ DOMAIN own = 1..L
  BY <1>1 DEF OwnPath
<1>3. ASSUME NEW e \in Listed, dept[e].parent # Null
      PROVE  /\ dept[e].parent \in Listed /\ dept[dept[e].parent].path \in Seq(Dept)
             /\ dept[e].path = Append(dept[dept[e].parent].path, dept[e].parent)
  <2>1. dept[e].parent \in Listed
    BY <1>1, <1>3 DEF PathsFit, Listed
  <2>2. dept[e].path = PathUnder(dept[e].parent)
    BY DEF PathsFit
  <2> QED
    BY <1>1, <1>3, <2>1, <2>2 DEF PathUnder, OwnPath
<1>4. ASSUME NEW e \in Listed, dept[e].parent = Null PROVE Len(dept[e].path) = 0
  BY <1>4 DEF PathsFit, PathUnder
<1> HIDE DEF own, L
<1>5. Scope(x) = {x} \cup { e \in Listed : BeginsWith(dept[e].path, own) }
  BY DEF Scope, Listed, own
<1>6. \A path : BeginsWith(path, own) <=> L <= Len(path) /\ \A i \in 1..L : path[i] = own[i]
  BY <1>2 DEF BeginsWith, L
<1>7. ASSUME NEW e \in Listed, dept[e].parent \in Scope(x) PROVE e \in Scope(x)
  <2> DEFINE p == dept[e].parent
  <2>1. p \in Listed /\ p # Null
    BY <1>1, <1>5, <1>7, SizeOfDept DEF DeptOK
  <2>2. dept[p].path \in Seq(Dept) /\ dept[e].path = Append(dept[p].path, p)
    BY <1>3, <2>1
  <2>3. CASE p = x
    <3>1. dept[e].path = own
      BY <2>2, <2>3 DEF own, OwnPath
    <3>2. BeginsWith(dept[e].path, own)
      BY <1>2, <1>6, <3>1 DEF L
    <3> QED
      BY <1>5, <3>2
  <2>4. CASE p # x
    <3> DEFINE path == dept[p].path
    <3>1. BeginsWith(path, own)
      BY <1>5, <1>7, <2>4
    <3> HIDE DEF path
    <3>2. path \in Seq(Dept) /\ dept[e].path = Append(path, p)
      BY <2>2 DEF path
    <3> HIDE DEF p
    <3>3. Len(Append(path, p)) = Len(path) + 1 /\ \A i \in 1..Len(path) : Append(path, p)[i] = path[i]
      BY <3>2
    <3>4. BeginsWith(Append(path, p), own)
      <4> DEFINE b == Append(path, p)
      <4>1. Len(path) \in Nat /\ L <= Len(path) /\ \A i \in 1..L : path[i] = own[i]
        BY <1>6, <3>1, <3>2
      <4>2. Len(b) = Len(path) + 1 /\ \A i \in 1..Len(path) : b[i] = path[i]
        BY <3>3
      <4> HIDE DEF b
      <4>3. L <= Len(b) /\ \A i \in 1..L : b[i] = own[i]
        BY <1>2, <4>1, <4>2
      <4> QED
        BY <1>6, <4>3 DEF b
    <3> QED
      BY <1>5, <3>2, <3>4
  <2> QED
    BY <2>3, <2>4
<1>8. Subtree(x) \subseteq Scope(x)
  <2>1. HoldsBelow(Scope(x)) /\ x \in Scope(x) /\ Scope(x) \in SUBSET Dept
    BY <1>1, <1>5, <1>7 DEF HoldsBelow
  <2> QED
    BY <2>1, SubtreeIs
<1> DEFINE T == { n \in Nat : \A e \in Listed : Len(dept[e].path) <= n /\ BeginsWith(dept[e].path, own) => e \in Subtree(x) }
<1>9. 0 \in T
  BY <1>1, <1>2, <1>6
<1>10. ASSUME NEW n \in Nat, n \in T PROVE n + 1 \in T
  <2> SUFFICES ASSUME NEW e \in Listed, Len(dept[e].path) <= n + 1, BeginsWith(dept[e].path, own) PROVE e \in Subtree(x)
    OBVIOUS
  <2> DEFINE p == dept[e].parent
             path == dept[p].path
  <2>1. Len(dept[e].path) \in Nat /\ L <= Len(dept[e].path) /\ \A i \in 1..L : dept[e].path[i] = own[i]
    BY <1>1, <1>6
  <2>2. p # Null
    BY <1>2, <1>4, <2>1
  <2>3. p \in Listed /\ path \in Seq(Dept) /\ dept[e].path = Append(path, p)
    BY <1>3, <2>2
  <2> HIDE DEF p, path
  <2>4. /\ Len(path) \in Nat /\ Len(dept[e].path) = Len(path) + 1 /\ dept[e].path[Len(path) + 1] = p
        /\ \A i \in 1..Len(path) : dept[e].path[i] = path[i]
    BY <2>3
  <2>5. p \in Subtree(x)
    <3>1. CASE L = Len(path) + 1
      <4>1. p = x
        BY <1>2, <2>1, <2>4, <3>1
      <4> QED
        BY <4>1, SubtreeIs
    <3>2. CASE L # Len(path) + 1
      <4>1. L <= Len(path) /\ \A i \in 1..L : path[i] = own[i]
        BY <1>2, <2>1, <2>4, <3>2
      <4>2. BeginsWith(path, own) /\ Len(path) <= n
        BY <1>6, <2>4, <4>1
      <4> QED
        BY <1>10, <2>3, <4>2 DEF path
    <3> QED
      BY <3>1, <3>2
  <2> QED
    BY <2>5, SubtreeIs DEF p, HoldsBelow
<1> HIDE DEF T
<1>11. Nat \subseteq T
  BY <1>9, <1>10, FromZero
<1>12. ASSUME NEW e \in Listed, BeginsWith(dept[e].path, own) PROVE e \in Subtree(x)
  <2>1. Len(dept[e].path) \in Nat
    BY <1>1
  <2> QED
    BY <1>11, <1>12, <2>1 DEF T
<1> QED
  BY <1>5, <1>8, <1>12, SubtreeIs

(* The calendar's two directions agree, and the reports with them             *)
LEMMA ScopesDoAgree ==
  ASSUME DeptOK
  PROVE  ScopesAgree
<1>1. \A e \in Listed : e \in Dept /\ Lives(e) /\ Exists(e) /\ e # Null
  BY SizeOfDept DEF Listed, Lives, DeptOK
<1>2. \A own, d \in Listed : MaySee(own, d) <=> d \in Subtree(own)
  BY AboveIsBelow DEF MaySee
<1>3. ASSUME NEW own \in Listed, NEW d \in Listed
      PROVE  /\ MaySee(own, d) <=> d \in CalendarOf(own, Null, TRUE)
             /\ \A below \in BOOLEAN : \A e \in CalendarOf(own, d, below) : MaySee(own, e)
  <2>1. CalendarOf(own, Null, TRUE) = Subtree(own)
    BY <1>1 DEF CalendarOf
  <2>2. ASSUME MaySee(own, d), NEW e \in Subtree(d) PROVE MaySee(own, e)
    <3>1. e \in Listed
      BY SubtreeIs
    <3>2. d \in Range(ChainOf(e)) /\ own \in Range(ChainOf(d))
      BY <2>2, <3>1, AboveIsBelow DEF MaySee
    <3>3. Range(ChainOf(d)) \subseteq Range(ChainOf(e))
      BY <1>1, <3>1, <3>2, ChainsGrow
    <3> QED
      BY <3>2, <3>3 DEF MaySee
  <2> QED
    BY <1>1, <1>2, <2>1, <2>2 DEF CalendarOf
<1>4. ASSUME PathsFit, NEW own \in Listed, NEW d \in Listed \cup {Null} PROVE ReportOf(own, d) = CalendarOf(own, d, TRUE)
  <2>1. \A e \in Listed : Scope(e) = Subtree(e)
    BY <1>4, PathsLeadBelow
  <2> QED
    BY <1>1, <1>2, <2>1 DEF ReportOf, CalendarOf
<1> QED
  BY <1>3, <1>4 DEF ScopesAgree

-----------------------------------------------------------------------------
(* The workflow that runs                                                    *)

RankIn(w, chain) ==
  IF w.dept = Null THEN Len(chain) + 1
  ELSE IF w.dept \in Range(chain) THEN CHOOSE i \in DOMAIN chain : chain[i] = w.dept ELSE 0
NoWorse(w, v, chain) ==
  RankIn(w, chain) < RankIn(v, chain) \/ (RankIn(w, chain) = RankIn(v, chain) /\ w.priority >= v.priority)

LEMMA PickIs ==
  ASSUME NEW running, NEW d
  PROVE  pickWorkflowVersion(running, d) =
           { w \in running : /\ RankIn(w, departmentChain(d)) > 0
                             /\ \A v \in running : RankIn(v, departmentChain(d)) > 0 => NoWorse(w, v, departmentChain(d)) }
  BY DEF pickWorkflowVersion, RankIn, NoWorse

LEMMA RankIs ==
  ASSUME DepartmentsAssumption, NEW chain \in Seq(Dept), NEW w \in Workflow
  PROVE  /\ RankIn(w, chain) \in Nat /\ w.priority \in Int
         /\ w.dept = Null => RankIn(w, chain) = Len(chain) + 1
         /\ w.dept # Null /\ RankIn(w, chain) > 0 =>
              RankIn(w, chain) \in 1..Len(chain) /\ chain[RankIn(w, chain)] = w.dept
         /\ w.dept # Null => (RankIn(w, chain) > 0 <=> w.dept \in Range(chain))
<1>1. DOMAIN chain = 1..Len(chain) /\ Len(chain) \in Nat
  OBVIOUS
<1>2. w.dept \in Dept \cup {Null} /\ w.priority \in Int
  BY DEF Workflow, DepartmentsAssumption
<1>3. CASE w.dept = Null
  BY <1>1, <1>2, <1>3 DEF RankIn
<1>4. CASE w.dept # Null /\ w.dept \notin Range(chain)
  <2>1. RankIn(w, chain) = 0
    BY <1>4 DEF RankIn
  <2> QED
    BY <1>2, <1>4, <2>1
<1>5. CASE w.dept # Null /\ w.dept \in Range(chain)
  <2> DEFINE place == CHOOSE i \in DOMAIN chain : chain[i] = w.dept
  <2>1. \E i \in DOMAIN chain : chain[i] = w.dept
    BY <1>5 DEF Range
  <2>2. place \in DOMAIN chain /\ chain[place] = w.dept
    BY <2>1
  <2>3. RankIn(w, chain) = place
    BY <1>5 DEF RankIn
  <2> HIDE DEF place
  <2> QED
    BY <1>1, <1>2, <1>5, <2>2, <2>3
<1> QED
  BY <1>3, <1>4, <1>5

(* Of two there is one that is no worse                                      *)
LEMMA SomeIsPicked ==
  ASSUME DepartmentsAssumption, NEW d, departmentChain(d) \in Seq(Dept),
         NEW v \in Workflow, NEW w \in Workflow
  PROVE  pickWorkflowVersion({v, w}, d) # {} <=>
           \E u \in {v, w} : u.dept = Null \/ u.dept \in Range(departmentChain(d))
<1> DEFINE chain == departmentChain(d)
           r(u) == RankIn(u, chain)
<1>1. \A u \in {v, w} :
        /\ r(u) \in Nat /\ u.priority \in Int
        /\ r(u) > 0 <=> u.dept = Null \/ u.dept \in Range(chain)
  <2>1. chain \in Seq(Dept) /\ Len(chain) \in Nat
    OBVIOUS
  <2> HIDE DEF chain
  <2>2. ASSUME NEW u \in {v, w}
        PROVE  r(u) \in Nat /\ u.priority \in Int /\ (r(u) > 0 <=> u.dept = Null \/ u.dept \in Range(chain))
    <3>1. u \in Workflow
      OBVIOUS
    <3>2. /\ r(u) \in Nat /\ u.priority \in Int
          /\ u.dept = Null => r(u) = Len(chain) + 1
          /\ u.dept # Null => (r(u) > 0 <=> u.dept \in Range(chain))
      BY <2>1, <3>1, RankIs
    <3> QED
      BY <2>1, <3>2
  <2> QED
    BY <2>2
<1>2. pickWorkflowVersion({v, w}, d) =
        { u \in {v, w} : r(u) > 0 /\ \A x \in {v, w} : r(x) > 0 => r(u) < r(x) \/ (r(u) = r(x) /\ u.priority >= x.priority) }
  BY PickIs DEF NoWorse
<1> HIDE DEF r, chain
<1>3. ASSUME NEW u \in {v, w}, r(u) > 0 PROVE pickWorkflowVersion({v, w}, d) # {}
  <2> DEFINE best(a, b) == r(a) > 0 /\ (r(b) > 0 => r(a) < r(b) \/ (r(a) = r(b) /\ a.priority >= b.priority))
  <2>1. best(v, w) \/ best(w, v)
    BY <1>1, <1>3
  <2>2. CASE best(v, w)
    <3>2. r(v) > 0 /\ r(v) = r(v) /\ v.priority >= v.priority
      BY <1>1, <2>2
    <3>3. \A x \in {v, w} : r(x) > 0 => r(v) < r(x) \/ (r(v) = r(x) /\ v.priority >= x.priority)
      BY <2>2, <3>2
    <3>1. v \in pickWorkflowVersion({v, w}, d)
      BY <1>2, <3>2, <3>3
    <3> QED
      BY <3>1
  <2>3. CASE best(w, v)
    <3>2. r(w) > 0 /\ r(w) = r(w) /\ w.priority >= w.priority
      BY <1>1, <2>3
    <3>3. \A x \in {v, w} : r(x) > 0 => r(w) < r(x) \/ (r(w) = r(x) /\ w.priority >= x.priority)
      BY <2>3, <3>2
    <3>1. w \in pickWorkflowVersion({v, w}, d)
      BY <1>2, <3>2, <3>3
    <3> QED
      BY <3>1
  <2> QED
    BY <2>1, <2>2, <2>3
<1>4. pickWorkflowVersion({v, w}, d) # {} => \E u \in {v, w} : r(u) > 0
  BY <1>2
<1> QED
  BY <1>1, <1>3, <1>4 DEF chain

LEMMA WorkflowsAreAlwaysFound ==
  ASSUME DeptOK
  PROVE  WorkflowsAreFound
<1> SUFFICES ASSUME NEW own \in Dept, Exists(own)
             PROVE  LET units == getSubmitUnits(own) IN
                    /\ \A unit \in units : resolveSubmitUnit(own, unit) = unit
                    /\ \A running \in { {v, w} : v, w \in Workflow } :
                         LET picked == pickWorkflowVersion(running, own) IN
                         /\ picked # {} => hasWorkflow(running)
                         /\ (\E v \in running : v.dept = Null) => picked # {}
                         /\ \A unit \in units : pickWorkflowVersion(running, unit) # {} => picked # {}
                         /\ \A p \in picked :
                              /\ p.dept # Null => p.dept \in units /\ p \in pickWorkflowVersion(running, p.dept)
                              /\ \A q \in running \ {p} :
                                   \/ p.dept = q.dept /\ p.priority >= q.priority
                                   \/ p.dept # Null /\ p.dept # q.dept /\ (q.dept \in units => q.dept \in getSubmitUnits(p.dept))
                                   \/ p.dept = Null /\ q.dept \notin units
  BY DEF WorkflowsAreFound
<1> DEFINE units == getSubmitUnits(own)
           chain == departmentChain(own)
<1>1. DepartmentsAssumption /\ Null \notin Dept
  BY SizeOfDept DEF DeptOK
<1>2. /\ chain \in Seq(Dept) /\ Len(chain) \in Nat
      /\ Lives(own) => chain = ChainOf(own) /\ IsWay(chain, own)
      /\ ~Lives(own) => chain = <<>> /\ units = {}
  <2>1. CASE Lives(own)
    BY <2>1, ChainIs DEF departmentChain, IsWay
  <2>2. CASE ~Lives(own)
    BY <2>2 DEF departmentChain, getSubmitUnits, Range
  <2> QED
    BY <2>1, <2>2
<1>3. units = Range(chain) /\ units \subseteq Dept
  BY <1>2 DEF getSubmitUnits, Range
<1>4. ASSUME NEW unit \in units
      PROVE  /\ Lives(own) /\ Lives(unit) /\ Exists(unit) /\ unit \in Dept
             /\ getSubmitUnits(unit) \subseteq units
             /\ departmentChain(unit) = ChainOf(unit) /\ IsWay(ChainOf(unit), unit) /\ ChainOf(unit) \in Seq(Dept)
             /\ getSubmitUnits(unit) = Range(ChainOf(unit)) /\ HoldsAbove(Range(ChainOf(unit))) /\ unit \in Range(ChainOf(unit))
  <2>1. Lives(own) /\ units = Range(ChainOf(own))
    BY <1>2, <1>3, <1>4
  <2>2. unit \in Dept /\ Lives(unit) /\ Exists(unit) /\ Range(ChainOf(unit)) \subseteq units
    BY <1>4, <2>1, ChainsGrow DEF Lives
  <2>3. departmentChain(unit) = ChainOf(unit) /\ getSubmitUnits(unit) = Range(ChainOf(unit))
    BY <2>2 DEF departmentChain, getSubmitUnits
  <2>4. IsWay(ChainOf(unit), unit) /\ HoldsAbove(Range(ChainOf(unit))) /\ unit \in Range(ChainOf(unit))
    BY <2>2, ChainIs
  <2> QED
    BY <2>1, <2>2, <2>3, <2>4 DEF IsWay
<1>5. \A unit \in units : resolveSubmitUnit(own, unit) = unit
  BY <1>1, <1>3 DEF resolveSubmitUnit
<1> HIDE DEF units, chain
<1> DEFINE wellPicked(running, p) ==
             /\ p.dept # Null => p.dept \in units /\ p \in pickWorkflowVersion(running, p.dept)
             /\ \A q \in running \ {p} :
                  \/ p.dept = q.dept /\ p.priority >= q.priority
                  \/ p.dept # Null /\ p.dept # q.dept /\ (q.dept \in units => q.dept \in getSubmitUnits(p.dept))
                  \/ p.dept = Null /\ q.dept \notin units
           isFound(running) ==
             LET picked == pickWorkflowVersion(running, own) IN
             /\ picked # {} => hasWorkflow(running)
             /\ (\E u \in running : u.dept = Null) => picked # {}
             /\ \A unit \in units : pickWorkflowVersion(running, unit) # {} => picked # {}
             /\ \A p \in picked : wellPicked(running, p)
<1>6. ASSUME NEW v \in Workflow, NEW w \in Workflow
      PROVE  isFound({v, w})
  <2> DEFINE running == {v, w}
             picked == pickWorkflowVersion(running, own)
  <2> SUFFICES /\ picked # {} => hasWorkflow(running)
               /\ (\E u \in running : u.dept = Null) => picked # {}
               /\ \A unit \in units : pickWorkflowVersion(running, unit) # {} => picked # {}
               /\ \A p \in picked : wellPicked(running, p)
    OBVIOUS
  <2>1. picked # {} <=> \E u \in running : u.dept = Null \/ u.dept \in units
    BY <1>1, <1>2, <1>3, SomeIsPicked DEF chain
  <2>2. ASSUME NEW unit \in units, pickWorkflowVersion(running, unit) # {} PROVE picked # {}
    <3>1. departmentChain(unit) \in Seq(Dept) /\ Range(departmentChain(unit)) \subseteq units
      BY <1>4
    <3>2. \E u \in running : u.dept = Null \/ u.dept \in Range(departmentChain(unit))
      BY <1>1, <2>2, <3>1, SomeIsPicked
    <3> QED
      BY <2>1, <3>1, <3>2
  <2>3. hasWorkflow(running)
    BY DEF hasWorkflow
  <2>4. \A u \in running : u \in Workflow /\ u.dept \in Dept \cup {Null}
    BY DEF Workflow
  <2> HIDE DEF running
  <2>5. ASSUME NEW p \in picked PROVE wellPicked(running, p)
    <3> DEFINE r(u) == RankIn(u, chain)
    <3>1. /\ p \in running /\ r(p) > 0
          /\ \A u \in running : r(u) > 0 => r(p) < r(u) \/ (r(p) = r(u) /\ p.priority >= u.priority)
      BY <2>5, PickIs DEF NoWorse, chain
    <3>2. \A u \in running :
            /\ r(u) \in Nat /\ u.priority \in Int
            /\ u.dept = Null => r(u) = Len(chain) + 1
            /\ u.dept # Null /\ r(u) > 0 => r(u) \in 1..Len(chain) /\ chain[r(u)] = u.dept
            /\ u.dept # Null => (r(u) > 0 <=> u.dept \in units)
      BY <1>1, <1>2, <1>3, <2>4, RankIs
    <3>3. \A u, x \in running : u.dept = x.dept => r(u) = r(x)
      BY DEF RankIn
    <3> HIDE DEF r, picked
    <3>4. ASSUME p.dept # Null PROVE p.dept \in units /\ p \in pickWorkflowVersion(running, p.dept)
      <4> DEFINE unit == p.dept
                 c == departmentChain(unit)
      <4>1. unit \in units
        BY <3>1, <3>2, <3>4
      <4>2. c \in Seq(Dept) /\ IsWay(c, unit) /\ unit \in Range(c)
        BY <1>4, <4>1
      <4> HIDE DEF c
      <4>3. \A u \in running :
              /\ RankIn(u, c) \in Nat
              /\ u.dept = Null => RankIn(u, c) = Len(c) + 1
              /\ u.dept # Null /\ RankIn(u, c) > 0 => RankIn(u, c) \in 1..Len(c) /\ c[RankIn(u, c)] = u.dept
              /\ u.dept # Null => (RankIn(u, c) > 0 <=> u.dept \in Range(c))
        BY <1>1, <2>4, <4>2, RankIs
      <4>4. /\ Len(c) \in Nat /\ Len(c) > 0 /\ c[1] = unit
            /\ \A i, j \in 1..Len(c) : c[i] = c[j] => i = j
        BY <4>2 DEF IsWay
      <4>5. RankIn(p, c) = 1
        <5>1. RankIn(p, c) \in 1..Len(c) /\ c[RankIn(p, c)] = unit
          BY <3>1, <3>4, <4>2, <4>3
        <5>2. 1 \in 1..Len(c)
          BY <4>4
        <5> QED
          BY <4>4, <5>1, <5>2
      <4>6. ASSUME NEW u \in running, RankIn(u, c) > 0 PROVE NoWorse(p, u, c)
        <5>1. CASE RankIn(u, c) = 1
          <6>1. u.dept = unit
            BY <4>3, <4>4, <4>6, <5>1
          <6>2. r(u) = r(p) /\ r(u) > 0 /\ r(u) \in Nat
            BY <3>1, <3>2, <3>3, <6>1
          <6>3. p.priority >= u.priority
            BY <3>1, <3>2, <6>2
          <6> QED
            BY <4>5, <5>1, <6>3 DEF NoWorse
        <5>2. CASE RankIn(u, c) # 1
          BY <4>3, <4>5, <4>6, <5>2 DEF NoWorse
        <5> QED
          BY <5>1, <5>2
      <4>7. p \in pickWorkflowVersion(running, unit)
        BY <3>1, <4>5, <4>6, PickIs DEF c
      <4> QED
        BY <4>1, <4>7
    <3>5. ASSUME NEW q \in running \ {p}
          PROVE  \/ p.dept = q.dept /\ p.priority >= q.priority
                 \/ p.dept # Null /\ p.dept # q.dept /\ (q.dept \in units => q.dept \in getSubmitUnits(p.dept))
                 \/ p.dept = Null /\ q.dept \notin units
      <4>1. CASE p.dept = q.dept
        <5>1. r(q) = r(p) /\ r(q) > 0 /\ r(q) \in Nat
          BY <3>1, <3>2, <3>3, <4>1
        <5> QED
          BY <3>1, <3>2, <4>1, <5>1
      <4>2. CASE p.dept = Null /\ p.dept # q.dept
        <5>1. ASSUME q.dept \in units PROVE FALSE
          <6>1. r(q) > 0 /\ r(q) \in 1..Len(chain) /\ r(p) = Len(chain) + 1
            BY <3>1, <3>2, <4>2, <5>1
          <6> QED
            BY <1>2, <3>1, <6>1
        <5> QED
          BY <4>2, <5>1
      <4>3. CASE p.dept # Null /\ p.dept # q.dept
        <5>1. ASSUME q.dept \in units PROVE q.dept \in getSubmitUnits(p.dept)
          <6>1. p.dept \in units /\ q.dept # Null
            BY <1>1, <1>3, <3>4, <4>3, <5>1
          <6>2. /\ r(p) \in 1..Len(chain) /\ chain[r(p)] = p.dept
                /\ r(q) \in 1..Len(chain) /\ chain[r(q)] = q.dept /\ r(q) > 0
            BY <3>1, <3>2, <4>3, <5>1, <6>1
          <6>3. r(p) < r(q)
            BY <3>1, <4>3, <6>2
          <6>4. Lives(own) /\ HoldsAbove(getSubmitUnits(p.dept)) /\ p.dept \in getSubmitUnits(p.dept) /\ IsWay(chain, own)
            BY <1>2, <1>4, <6>1
          <6>5. \A j \in r(p)..Len(chain) : chain[j] \in getSubmitUnits(p.dept)
            BY <6>2, <6>4, RestOfAWay
          <6>6. r(q) \in r(p)..Len(chain)
            BY <1>2, <6>2, <6>3
          <6> QED
            BY <6>2, <6>5, <6>6
        <5> QED
          BY <4>3, <5>1
      <4> QED
        BY <4>1, <4>2, <4>3
    <3> QED
      BY <3>4, <3>5
  <2>6. \A unit \in units : pickWorkflowVersion(running, unit) # {} => picked # {}
    BY <2>2
  <2>7. (\E u \in running : u.dept = Null) => picked # {}
    BY <2>1
  <2>8. \A p \in picked : wellPicked(running, p)
    <3> HIDE DEF picked, wellPicked
    <3> QED
      BY <2>5
  <2> HIDE DEF picked, wellPicked
  <2> QED
    BY <2>3, <2>6, <2>7, <2>8
<1>7. \A running \in { {v, w} : v, w \in Workflow } : isFound(running)
  <2> HIDE DEF isFound
  <2> QED
    BY <1>6
<1> QED
  BY <1>5, <1>7 DEF units
-----------------------------------------------------------------------------
(* The tree                                                                  *)

(* Going up from any of the departments that live, one leaves them           *)
NoCircles == \A U \in SUBSET Listed : U # {} => \E d \in U : dept[d].parent \notin U
OneTop == \A d, e \in Dept : Root(d) /\ Root(e) => d = e

ParentsExist ==
  /\ \A d \in Dept : Exists(d) /\ dept[d].parent # Null => Exists(dept[d].parent)
  /\ \A a \in Manager : Hangs(a) =>
       /\ request[a].parent # Null => Exists(request[a].parent)
       /\ request[a].what = "update" => Exists(request[a].dept)

(* Going up from p one stays among C                                         *)
ClosedAbove(C) == \A e \in C : Lives(e) => dept[e].parent \in C \cup {Null}
StillFits(w) ==
  IF w.what = "create"
  THEN w.parent = Null => \A e \in Dept \ {w.dept} : ~Root(e)
  ELSE w.parent # Null => \E C \in SUBSET Dept : w.parent \in C /\ w.dept \notin C /\ ClosedAbove(C)

TreeInv ==
  /\ DepartmentsTypeOK
  /\ ParentsExist
  /\ ~raced => NoCircles /\ OneTop /\ \A a \in Manager : Hangs(a) => StillFits(request[a])

(* Of departments without a circle the tree shows all, whatever the filter   *)
LEMMA TreeShowsAll ==
  ASSUME DeptOK, NoCircles, NEW S \in SUBSET Listed
  PROVE  TreeShows(S) = S
<1> DEFINE R == Reached(Tops(S), Below(S))
<1>1. S \in SUBSET Dept /\ Tops(S) \in SUBSET S /\ Tops(S) \in SUBSET Dept
  BY DEF Listed, Tops
<1>2. /\ Below(S) \in [Dept -> SUBSET Dept]
      /\ \A p \in Dept : Below(S)[p] = { d \in S : dept[d].parent = p }
  BY <1>1, BelowIs
<1>3. /\ R \in SUBSET Dept /\ Tops(S) \subseteq R /\ Leads(Below(S), R)
      /\ \A C \in SUBSET Dept : Tops(S) \subseteq C /\ Leads(Below(S), C) => R \subseteq C
  BY <1>1, <1>2, ReachedIs DEF DeptOK
<1> HIDE DEF R
<1>4. R \subseteq S
  <2>1. Leads(Below(S), S)
    BY <1>1, <1>2 DEF Leads
  <2> QED
    BY <1>1, <1>3, <2>1
<1>5. S \subseteq R
  <2> SUFFICES ASSUME S \ R # {} PROVE FALSE
    OBVIOUS
  <2>1. PICK d \in S \ R : dept[d].parent \notin S \ R
    <3>1. S \ R \in SUBSET Listed
      OBVIOUS
    <3> QED
      BY <3>1 DEF NoCircles
  <2>2. dept[d].parent \in S
    BY <1>3, <2>1 DEF Tops
  <2>3. dept[d].parent \in R /\ d \in Below(S)[dept[d].parent]
    BY <1>1, <1>2, <2>1, <2>2
  <2> QED
    BY <1>3, <2>1, <2>3 DEF Leads
<1> QED
  BY <1>4, <1>5 DEF TreeShows, R

LEMMA TreeIsAForest ==
  ASSUME DepartmentsAssumption, TreeInv
  PROVE  FormAForest
<1> SUFFICES ASSUME ~raced PROVE FormAForest
  BY DEF FormAForest
<1>1. DeptOK /\ NoCircles /\ OneTop
  BY DEF DeptOK, TreeInv, DepartmentsTypeOK
<1>2. ASSUME NEW found \in SUBSET Listed
      PROVE  loadTree(found) = found /\ loadActiveTree(found) = { d \in found : dept[d].active }
  <2>1. found \cap Listed = found /\ { d \in found : dept[d].active } \in SUBSET Listed
    OBVIOUS
  <2> QED
    BY <1>1, <2>1, TreeShowsAll DEF loadTree, loadActiveTree
<1> QED
  BY <1>1, <1>2 DEF FormAForest, OneTop

(* What validateNoCycle has looked at is closed upwards                       *)
LEMMA UpwardsIs ==
  ASSUME DeptOK, NEW p \in Dept
  PROVE  \E C \in SUBSET Dept : p \in C /\ C \subseteq Upwards(p) /\ ClosedAbove(C)
<1> DEFINE U == Dept \cup {Null}
           after == [e \in Dept \cup {Null} |-> IF e # Null /\ Lives(e) THEN {dept[e].parent} ELSE {}]
<1>1. DepartmentsAssumption /\ Null \notin Dept
  BY SizeOfDept DEF DeptOK
<1>2. \A e \in Dept : Lives(e) => dept[e].parent \in U
  BY RowIs DEF Lives
<1>3. after \in [U -> SUBSET U] /\ \A e \in Dept : after[e] = IF Lives(e) THEN {dept[e].parent} ELSE {}
  BY <1>1, <1>2
<1>4. Upwards(p) = Reached({p}, after)
  BY DEF Upwards
<1> HIDE DEF after
<1>5. Upwards(p) \in SUBSET U /\ p \in Upwards(p) /\ Leads(after, Upwards(p))
  <2>1. Dept \subseteq U /\ U \subseteq Dept \cup {Null} /\ {p} \in SUBSET U /\ {p} # {}
    OBVIOUS
  <2> HIDE DEF U
  <2> QED
    BY <1>1, <1>3, <1>4, <2>1, ReachedIs
<1>6. ClosedAbove(Upwards(p) \ {Null})
  <2> SUFFICES ASSUME NEW e \in Upwards(p) \ {Null}, Lives(e) PROVE dept[e].parent \in Upwards(p) \cup {Null}
    BY DEF ClosedAbove
  <2>1. e \in Dept /\ after[e] = {dept[e].parent} /\ after[e] \subseteq Upwards(p)
    BY <1>3, <1>5 DEF Leads
  <2> QED
    BY <2>1
<1>7. Upwards(p) \ {Null} \in SUBSET Dept /\ p \in Upwards(p) \ {Null} /\ Upwards(p) \ {Null} \subseteq Upwards(p)
  BY <1>1, <1>5
<1> QED
  BY <1>6, <1>7

-----------------------------------------------------------------------------
(* What an administrator's request may be                                    *)

LEMMA WritesAre ==
  ASSUME DepartmentsAssumption
  PROVE  /\ \A a \in Manager : request[a] # Null /\ request[a] \in DepartmentWrite /\ request[a].what \in {"create", "update"} =>
              request[a].dept \in Dept /\ request[a].parent \in Dept \cup {Null} /\ request[a].path \in Seq(Dept)
         /\ \A a \in Manager : request[a] \in DepartmentWrite /\ request[a].what = "status" => request[a].active \in BOOLEAN
  BY DEF DepartmentWrite

LEMMA TreeStarts ==
  ASSUME DepartmentsAssumption, DepartmentsInit
  PROVE  TreeInv
<1>1. DepartmentsTypeOK
  BY DEF DepartmentsInit, DepartmentsTypeOK
<1>2. \A d \in Dept : ~Exists(d) /\ ~Lives(d)
  BY DEF DepartmentsInit, Exists, Lives
<1>3. \A a \in Manager : ~Hangs(a)
  BY DEF DepartmentsInit, Hangs
<1>4. NoCircles /\ OneTop
  BY <1>2 DEF NoCircles, OneTop, Root, Listed
<1> QED
  BY <1>1, <1>2, <1>3, <1>4 DEF TreeInv, ParentsExist

(* A check leaves the departments as they are *)
LEMMA ACheckFits ==
  ASSUME DepartmentsAssumption, TreeInv, NEW a \in Manager, NEW w \in DepartmentWrite, Checked(a, w),
         w.what \in {"create", "update"} =>
           /\ StillFits(w) /\ (w.parent # Null => Exists(w.parent))
           /\ w.what = "update" => Exists(w.dept)
  PROVE  TreeInv'
<1>1. /\ request' = [request EXCEPT ![a] = w] /\ request \in [Manager -> DepartmentWrite \cup {Null}]
      /\ dept' = dept /\ users' = users /\ raced' = raced /\ w # Null
  BY DEF Checked, TreeInv, DepartmentsTypeOK, DepartmentsAssumption
<1>2. DepartmentsTypeOK'
  BY <1>1 DEF TreeInv, DepartmentsTypeOK
<1>3. \A b \in Manager : request'[b] = IF b = a THEN w ELSE request[b]
  BY <1>1
<1>4. NoCircles /\ OneTop => (NoCircles /\ OneTop)'
  BY <1>1 DEF Exists, Lives, Root, NoCircles, Listed, OneTop
<1>5. \A b \in Manager : Hangs(b)' => request'[b] \in DepartmentWrite /\ (b # a => Hangs(b) /\ request'[b] = request[b])
  BY <1>1, <1>3 DEF Hangs
<1>6. ParentsExist'
  <2>1. \A d \in Dept : Exists(d) /\ dept[d].parent # Null => Exists(dept[d].parent)
    BY DEF TreeInv, ParentsExist
  <2>2. ASSUME NEW b \in Manager, Hangs(b)'
        PROVE  /\ request'[b].parent # Null => Exists(request'[b].parent)
               /\ request'[b].what = "update" => Exists(request'[b].dept)
    <3>1. CASE b = a
      BY <1>1, <1>3, <2>2, <3>1 DEF Hangs
    <3>2. CASE b # a
      BY <1>5, <2>2, <3>2 DEF TreeInv, ParentsExist
    <3> QED
      BY <3>1, <3>2
  <2> QED
    BY <1>1, <2>1, <2>2 DEF ParentsExist, Exists
<1>7. ASSUME ~raced', NEW b \in Manager, Hangs(b)' PROVE StillFits(request[b])'
  <2>1. StillFits(request'[b])
    <3>1. CASE b = a
      BY <1>1, <1>3, <1>7, <3>1 DEF Hangs
    <3>2. CASE b # a
      BY <1>1, <1>5, <1>7, <3>2 DEF TreeInv
    <3> QED
      BY <3>1, <3>2
  <2> QED
    BY <1>1, <2>1 DEF StillFits, ClosedAbove, Root, Lives, Exists
<1>8. ~raced' => (NoCircles /\ OneTop)'
  BY <1>1, <1>4 DEF TreeInv
<1> QED
  BY <1>2, <1>6, <1>7, <1>8 DEF TreeInv

LEMMA CreateKeepsTheTree ==
  ASSUME DepartmentsAssumption, TreeInv, NEW a \in Manager, NEW d \in Dept, NEW p \in Dept \cup {Null},
         CreateDepartment(a, d, p)
  PROVE  TreeInv'
<1> DEFINE w == [what |-> "create", dept |-> d, parent |-> p, path |-> PathUnder(p)]
<1>1. DeptOK /\ MayHang(d, p) /\ Checked(a, w)
  BY DEF CreateDepartment, DeptOK, TreeInv, DepartmentsTypeOK
<1>2. p # Null => p \in Dept /\ Exists(p)
  BY <1>1 DEF MayHang, Lives
<1>3. PathUnder(p) \in Seq(Dept)
  BY <1>1, <1>2, RowIs DEF PathUnder, OwnPath
<1>4. w \in DepartmentWrite
  BY <1>3 DEF DepartmentWrite
<1>5. StillFits(w)
  BY <1>1 DEF StillFits, MayHang
<1>6. w.what = "create" /\ w.parent = p
  OBVIOUS
<1> HIDE DEF w
<1> QED
  BY <1>1, <1>2, <1>4, <1>5, <1>6, ACheckFits

LEMMA MoveKeepsTheTree ==
  ASSUME DepartmentsAssumption, TreeInv, NEW a \in Manager, NEW d \in Dept, NEW p \in Dept \cup {Null},
         MoveDepartment(a, d, p)
  PROVE  TreeInv'
<1> DEFINE w == [what |-> "update", dept |-> d, parent |-> p, path |-> PathUnder(p)]
<1>1. DeptOK /\ Exists(d) /\ MayHang(d, p) /\ (p # Null => d \notin Upwards(p)) /\ Checked(a, w)
  BY DEF MoveDepartment, Lives, DeptOK, TreeInv, DepartmentsTypeOK
<1>2. p # Null => p \in Dept /\ Exists(p)
  BY <1>1 DEF MayHang, Lives
<1>3. PathUnder(p) \in Seq(Dept)
  BY <1>1, <1>2, RowIs DEF PathUnder, OwnPath
<1>4. w \in DepartmentWrite
  BY <1>3 DEF DepartmentWrite
<1>5. p # Null => \E C \in SUBSET Dept : p \in C /\ d \notin C /\ ClosedAbove(C)
  BY <1>1, <1>2, UpwardsIs
<1>6. StillFits(w)
  BY <1>5 DEF StillFits
<1>7. w.what = "update" /\ w.parent = p /\ w.dept = d
  OBVIOUS
<1> HIDE DEF w
<1> QED
  BY <1>1, <1>2, <1>4, <1>6, <1>7, ACheckFits

(* What is removed or switched is only what is written down                   *)
LEMMA ScopesAreDepts ==
  ASSUME NEW d \in Dept
  PROVE  Scope(d) \in SUBSET Dept
  BY DEF Scope

LEMMA OthersKeepTheTree ==
  ASSUME DepartmentsAssumption, TreeInv, NEW a \in Manager, NEW d \in Dept,
         RemoveTree(a, d) \/ Deactivate(a, d) \/ Activate(a, d)
  PROVE  TreeInv'
<1>1. PICK w \in DepartmentWrite : Checked(a, w) /\ w.what \in {"remove", "status"}
  <2> DEFINE gone == [what |-> "remove", depts |-> Scope(d)]
             set(b) == [what |-> "status", depts |-> Scope(d), active |-> b]
  <2>1. gone \in DepartmentWrite /\ \A b \in BOOLEAN : set(b) \in DepartmentWrite
    BY ScopesAreDepts DEF DepartmentWrite
  <2>2. gone.what = "remove" /\ \A b \in BOOLEAN : set(b).what = "status"
    OBVIOUS
  <2>3. Checked(a, gone) \/ Checked(a, set(FALSE)) \/ Checked(a, set(TRUE))
    BY DEF RemoveTree, Deactivate, Activate
  <2> HIDE DEF gone, set
  <2> QED
    BY <2>1, <2>2, <2>3
<1> QED
  BY <1>1, ACheckFits

(* After a write the one who wrote has nothing left to write                  *)
LEMMA WriterIsDone ==
  ASSUME DepartmentsAssumption, DepartmentsTypeOK, NEW a \in Manager, NEW kinds, DoneWith(a, kinds)
  PROVE  /\ request[a] \in DepartmentWrite /\ request[a].what \in kinds /\ request[a] # Null
         /\ request' \in [Manager -> DepartmentWrite \cup {Null}] /\ users' = users
         /\ \A b \in Manager : Hangs(b)' => b # a /\ Hangs(b) /\ request'[b] = request[b]
<1>1. /\ request \in [Manager -> DepartmentWrite \cup {Null}] /\ request[a] # Null /\ request[a].what \in kinds
      /\ request' = [request EXCEPT ![a] = Null] /\ users' = users
  BY DEF DoneWith, DepartmentsTypeOK
<1>2. \A b \in Manager : request'[b] = IF b = a THEN Null ELSE request[b]
  BY <1>1
<1> QED
  BY <1>1, <1>2 DEF Hangs

LEMMA RacesShow ==
  ASSUME NEW a \in Manager, Races(a), raced \in BOOLEAN
  PROVE  /\ raced' \in BOOLEAN
         /\ ~raced' => ~raced /\ \A b \in Manager \ {a} : ~Hangs(b)
  BY DEF Races

(* The new department hangs below one that was there; nothing hangs below it  *)
LEMMA WriteCreateKeepsTheTree ==
  ASSUME DepartmentsAssumption, TreeInv, NEW a \in Manager, WriteCreate(a)
  PROVE  TreeInv'
<1> DEFINE w == request[a]
           d == w.dept
           p == w.parent
           row == [parent |-> p, path |-> w.path, active |-> TRUE, deleted |-> FALSE]
<1>1. /\ DeptOK /\ DepartmentsTypeOK /\ ParentsExist /\ raced \in BOOLEAN
      /\ DoneWith(a, {"create"}) /\ Races(a)
      /\ dept' = IF Exists(d) THEN dept ELSE [dept EXCEPT ![d] = row]
  BY DEF WriteCreate, TreeInv, DepartmentsTypeOK, DeptOK
<1>2. /\ w \in DepartmentWrite /\ w.what = "create" /\ w # Null
      /\ request' \in [Manager -> DepartmentWrite \cup {Null}] /\ users' = users
      /\ \A b \in Manager : Hangs(b)' => b # a /\ Hangs(b) /\ request'[b] = request[b]
  BY <1>1, WriterIsDone
<1>3. raced' \in BOOLEAN /\ (~raced' => ~raced /\ \A b \in Manager \ {a} : ~Hangs(b))
  BY <1>1, RacesShow
<1>4. d \in Dept /\ p \in Dept \cup {Null} /\ w.path \in Seq(Dept) /\ Hangs(a) /\ (p # Null => Exists(p))
  BY <1>1, <1>2, WritesAre DEF Hangs, ParentsExist
<1>5. row \in Department /\ row # Null /\ row.parent = p /\ row.deleted = FALSE
  <2>1. row \in Department
    BY <1>4 DEF Department
  <2> QED
    BY <2>1 DEF DepartmentsAssumption
<1>6. ~raced' => NoCircles /\ OneTop /\ (p = Null => \A e \in Dept \ {d} : ~Root(e))
  BY <1>2, <1>3, <1>4 DEF TreeInv, StillFits
<1>7. ~raced' => \A b \in Manager : ~Hangs(b)'
  BY <1>2, <1>3
<1> HIDE DEF row
<1>8. dept' \in [Dept -> Department \cup {Null}]
  BY <1>1, <1>5 DEF DeptOK
<1>9. DepartmentsTypeOK'
  BY <1>1, <1>2, <1>3, <1>8 DEF DepartmentsTypeOK
<1>10. CASE Exists(d)
  <2>1. dept' = dept
    BY <1>1, <1>10
  <2>2. ParentsExist'
    BY <1>1, <1>2, <2>1 DEF ParentsExist, Exists
  <2>3. ~raced' => (NoCircles /\ OneTop)'
    BY <1>6, <2>1 DEF NoCircles, OneTop, Root, Lives, Exists, Listed
  <2> QED
    BY <1>7, <1>9, <2>2, <2>3 DEF TreeInv
<1>11. CASE ~Exists(d)
  <2> HIDE DEF w, d, p
  <2>1. \A e \in Dept : dept'[e] = IF e = d THEN row ELSE dept[e]
    BY <1>1, <1>4, <1>11 DEF DeptOK
  <2>2. /\ \A e \in Dept : dept'[e] # Null <=> e = d \/ Exists(e)
        /\ \A e \in Dept \ {d} : dept'[e] = dept[e]
        /\ dept'[d].parent = p /\ dept'[d] = row
    BY <1>4, <1>5, <2>1 DEF Exists
  <2>3. p # d
    BY <1>1, <1>4, <1>11, SizeOfDept DEF DeptOK
  <2>4. \A e \in Dept : Exists(e) => dept[e].parent # d /\ (dept[e].parent # Null => Exists(dept[e].parent)) /\ dept[e].parent \in Dept \cup {Null}
    BY <1>1, <1>4, <1>11, RowIs, SizeOfDept DEF ParentsExist, DeptOK
  <2>5. ParentsExist'
    <3>1. ASSUME NEW e \in Dept, dept'[e] # Null, dept'[e].parent # Null PROVE dept'[dept'[e].parent] # Null
      BY <1>4, <2>2, <2>4, <3>1
    <3>2. ASSUME NEW b \in Manager, Hangs(b)'
          PROVE  /\ request'[b].parent # Null => dept'[request'[b].parent] # Null
                 /\ request'[b].what = "update" => dept'[request'[b].dept] # Null
      <4>1. Hangs(b) /\ request'[b] = request[b] /\ request[b] \in DepartmentWrite
        BY <1>1, <1>2, <3>2 DEF DepartmentsTypeOK, Hangs
      <4>2. request[b].dept \in Dept /\ request[b].parent \in Dept \cup {Null}
        BY <4>1, WritesAre DEF Hangs
      <4>3. /\ request[b].parent # Null => Exists(request[b].parent)
            /\ request[b].what = "update" => Exists(request[b].dept)
        BY <1>1, <4>1 DEF ParentsExist
      <4> QED
        BY <2>2, <4>1, <4>2, <4>3
    <3> QED
      BY <3>1, <3>2 DEF ParentsExist, Exists
  <2>6. Listed' = Listed \cup {d} /\ Listed \in SUBSET Dept /\ d \notin Listed
    BY <1>4, <1>5, <1>11, <2>2 DEF Listed, Lives, Exists
  <2>7. ASSUME ~raced' PROVE NoCircles'
    <3> SUFFICES ASSUME NEW U \in SUBSET (Listed \cup {d}), U # {} PROVE \E e \in U : dept'[e].parent \notin U
      BY <2>6 DEF NoCircles
    <3>1. CASE U = {d}
      BY <2>2, <2>3, <3>1
    <3>2. CASE U # {d}
      <4>1. U \ {d} \in SUBSET Listed /\ U \ {d} # {}
        BY <3>2
      <4>2. PICK e \in U \ {d} : dept[e].parent \notin U \ {d}
        BY <1>6, <2>7, <4>1 DEF NoCircles
      <4>3. e \in Dept /\ Exists(e) /\ dept'[e] = dept[e]
        BY <2>2, <2>6, <4>1, <4>2 DEF Listed, Lives
      <4> QED
        BY <2>4, <4>2, <4>3
    <3> QED
      BY <3>1, <3>2
  <2>8. ASSUME ~raced' PROVE OneTop'
    <3> DEFINE roots(e) == dept'[e] # Null /\ ~dept'[e].deleted /\ dept'[e].parent = Null
    <3>1. \A e \in Dept \ {d} : roots(e) <=> Root(e)
      BY <2>2 DEF Root, Lives, Exists
    <3>2. roots(d) => p = Null
      BY <2>2
    <3> HIDE DEF roots
    <3>3. p = Null => \A e \in Dept \ {d} : ~Root(e)
      BY <1>6, <2>8
    <3>4. \A e, f \in Dept \ {d} : Root(e) /\ Root(f) => e = f
      BY <1>6, <2>8 DEF OneTop
    <3>5. ASSUME NEW e \in Dept, NEW f \in Dept, roots(e), roots(f) PROVE e = f
      BY <3>1, <3>2, <3>3, <3>4, <3>5
    <3> QED
      BY <3>5 DEF OneTop, Root, Lives, Exists, roots
  <2> QED
    BY <1>7, <1>9, <2>5, <2>7, <2>8 DEF TreeInv
<1> QED
  BY <1>10, <1>11

(* A department is moved among those that are not below it; it was not top of *)
(* them, and where it is moved to has not come below it                       *)
LEMMA WriteUpdateKeepsTheTree ==
  ASSUME DepartmentsAssumption, TreeInv, NEW a \in Manager, WriteUpdate(a)
  PROVE  TreeInv'
<1> DEFINE w == request[a]
           d == w.dept
           p == IF w.parent = Null THEN dept[d].parent ELSE w.parent
           row == [dept[d] EXCEPT !.parent = p, !.path = w.path]
<1>1. /\ DeptOK /\ DepartmentsTypeOK /\ ParentsExist /\ raced \in BOOLEAN
      /\ DoneWith(a, {"update"}) /\ Races(a)
      /\ dept' = [dept EXCEPT ![d].parent = IF w.parent = Null THEN @ ELSE w.parent, ![d].path = w.path]
  BY DEF WriteUpdate, TreeInv, DepartmentsTypeOK, DeptOK
<1>2. /\ w \in DepartmentWrite /\ w.what = "update" /\ w # Null
      /\ request' \in [Manager -> DepartmentWrite \cup {Null}] /\ users' = users
      /\ \A b \in Manager : Hangs(b)' => b # a /\ Hangs(b) /\ request'[b] = request[b]
  BY <1>1, WriterIsDone
<1>3. raced' \in BOOLEAN /\ (~raced' => ~raced /\ \A b \in Manager \ {a} : ~Hangs(b))
  BY <1>1, RacesShow
<1>4. /\ d \in Dept /\ w.parent \in Dept \cup {Null} /\ w.path \in Seq(Dept) /\ Hangs(a)
      /\ (w.parent # Null => Exists(w.parent)) /\ Exists(d)
  BY <1>1, <1>2, WritesAre DEF Hangs, ParentsExist
<1>5. dept[d] \in Department /\ p \in Dept \cup {Null} /\ (p # Null => Exists(p))
  BY <1>1, <1>4, RowIs DEF ParentsExist
<1>6. ~raced' => /\ NoCircles /\ OneTop
                 /\ w.parent # Null => \E C \in SUBSET Dept : w.parent \in C /\ d \notin C /\ ClosedAbove(C)
  BY <1>2, <1>3, <1>4 DEF TreeInv, StillFits
<1>7. ~raced' => \A b \in Manager : ~Hangs(b)'
  BY <1>2, <1>3
<1>8. w.parent = Null => p = dept[d].parent
  OBVIOUS
<1>9. w.parent # Null => p = w.parent
  OBVIOUS
<1>10. \A e \in Dept : dept'[e] = IF e = d THEN row ELSE dept[e]
  BY <1>1, <1>4, <1>5 DEF DeptOK, Department
<1> HIDE DEF p
<1>11. row \in Department /\ row.parent = p /\ row.deleted = dept[d].deleted
  BY <1>4, <1>5 DEF Department
<1> HIDE DEF row, w, d
<1>12. row # Null
  BY <1>1, <1>11 DEF DeptOK, DepartmentsAssumption
<1>13. /\ \A e \in Dept : dept'[e] # Null <=> Exists(e)
       /\ \A e \in Dept \ {d} : dept'[e] = dept[e]
       /\ dept'[d].parent = p /\ dept'[d].deleted = dept[d].deleted
  BY <1>4, <1>10, <1>11, <1>12 DEF Exists
<1>14. DepartmentsTypeOK'
  <2>1. dept' \in [Dept -> Department \cup {Null}]
    <3>1. DOMAIN dept' = Dept /\ dept' = [e \in Dept |-> dept'[e]]
      BY <1>1 DEF DeptOK
    <3>2. \A e \in Dept : dept'[e] \in Department \cup {Null}
      BY <1>1, <1>10, <1>11 DEF DeptOK
    <3> QED
      BY <3>1, <3>2
  <2> QED
    BY <1>1, <1>2, <1>3, <2>1 DEF DepartmentsTypeOK
<1>15. ParentsExist'
  <2>1. \A e \in Dept : Exists(e) => (dept[e].parent # Null => Exists(dept[e].parent)) /\ dept[e].parent \in Dept \cup {Null}
    BY <1>1, RowIs DEF ParentsExist
  <2>2. ASSUME NEW e \in Dept, dept'[e] # Null, dept'[e].parent # Null PROVE dept'[dept'[e].parent] # Null
    BY <1>4, <1>5, <1>13, <2>1, <2>2
  <2>3. ASSUME NEW b \in Manager, Hangs(b)'
        PROVE  /\ request'[b].parent # Null => dept'[request'[b].parent] # Null
               /\ request'[b].what = "update" => dept'[request'[b].dept] # Null
    <3>1. Hangs(b) /\ request'[b] = request[b] /\ request[b] \in DepartmentWrite
      BY <1>1, <1>2, <2>3 DEF DepartmentsTypeOK, Hangs
    <3>2. request[b].dept \in Dept /\ request[b].parent \in Dept \cup {Null}
      BY <3>1, WritesAre DEF Hangs
    <3>3. /\ request[b].parent # Null => Exists(request[b].parent)
          /\ request[b].what = "update" => Exists(request[b].dept)
      BY <1>1, <3>1 DEF ParentsExist
    <3> QED
      BY <1>13, <3>1, <3>2, <3>3
  <2> QED
    BY <2>2, <2>3 DEF ParentsExist, Exists
<1>16. Listed' = Listed /\ Listed \in SUBSET Dept /\ \A e \in Listed : Lives(e) /\ Exists(e)
  BY <1>13 DEF Listed, Lives, Exists
<1>17. ASSUME ~raced' PROVE NoCircles'
  <2> SUFFICES ASSUME NEW U \in SUBSET Listed, U # {} PROVE \E e \in U : dept'[e].parent \notin U
    BY <1>16 DEF NoCircles
  <2>1. CASE w.parent = Null \/ d \notin U
    <3>1. PICK e \in U : dept[e].parent \notin U
      BY <1>6, <1>17 DEF NoCircles
    <3> QED
      BY <1>8, <1>13, <1>16, <2>1, <3>1
  <2>2. CASE w.parent # Null /\ d \in U /\ p \notin U
    BY <1>13, <2>2
  <2>3. CASE w.parent # Null /\ p \in U
    <3>1. PICK C \in SUBSET Dept : p \in C /\ d \notin C /\ ClosedAbove(C)
      BY <1>6, <1>9, <1>17, <2>3
    <3>2. U \cap C \in SUBSET Listed /\ U \cap C # {}
      BY <2>3, <3>1
    <3>3. PICK e \in U \cap C : dept[e].parent \notin U \cap C
      BY <1>6, <1>17, <3>2 DEF NoCircles
    <3>4. dept[e].parent \in C \cup {Null} /\ dept'[e] = dept[e]
      BY <1>13, <1>16, <3>1, <3>3 DEF ClosedAbove
    <3>5. Null \notin U
      BY <1>1, <1>16, SizeOfDept DEF DeptOK
    <3> QED
      BY <3>3, <3>4, <3>5
  <2> QED
    BY <2>1, <2>2, <2>3
<1>18. ASSUME ~raced' PROVE OneTop'
  <2> DEFINE roots(e) == dept'[e] # Null /\ ~dept'[e].deleted /\ dept'[e].parent = Null
  <2>1. \A e \in Dept \ {d} : roots(e) => Root(e)
    BY <1>13 DEF Root, Lives, Exists
  <2>2. roots(d) => Root(d)
    <3>1. p = Null => dept[d].parent = Null
      BY <1>8, <1>9
    <3> QED
      BY <1>4, <1>13, <3>1 DEF Root, Lives
  <2> HIDE DEF roots
  <2>3. \A e, f \in Dept : Root(e) /\ Root(f) => e = f
    BY <1>6, <1>18 DEF OneTop
  <2>4. ASSUME NEW e \in Dept, NEW f \in Dept, roots(e), roots(f) PROVE e = f
    BY <2>1, <2>2, <2>3, <2>4
  <2> QED
    BY <2>4 DEF OneTop, Root, Lives, Exists, roots
<1> QED
  BY <1>7, <1>14, <1>15, <1>17, <1>18 DEF TreeInv

(* What is removed leaves the tree, and nothing else moves                    *)
LEMMA WriteScopeKeepsTheTree ==
  ASSUME DepartmentsAssumption, TreeInv, NEW a \in Manager, WriteScope(a)
  PROVE  TreeInv'
<1> DEFINE w == request[a]
<1>1. /\ DeptOK /\ DepartmentsTypeOK /\ ParentsExist /\ raced \in BOOLEAN
      /\ DoneWith(a, {"remove", "status"}) /\ raced' = raced
      /\ dept' = [d \in Dept |->
                    IF d \notin w.depts \/ ~Lives(d) THEN dept[d]
                    ELSE IF w.what = "remove" THEN [dept[d] EXCEPT !.deleted = TRUE]
                    ELSE [dept[d] EXCEPT !.active = w.active]]
  BY DEF WriteScope, TreeInv, DepartmentsTypeOK, DeptOK
<1>2. /\ w \in DepartmentWrite /\ w.what \in {"remove", "status"}
      /\ request' \in [Manager -> DepartmentWrite \cup {Null}] /\ users' = users
      /\ \A b \in Manager : Hangs(b)' => b # a /\ Hangs(b) /\ request'[b] = request[b]
  BY <1>1, WriterIsDone
<1>3. w.what = "status" => w.active \in BOOLEAN
  BY <1>2, WritesAre
<1> HIDE DEF w
<1>4. \A d \in Dept : /\ dept'[d] \in Department \cup {Null} /\ (dept'[d] # Null <=> Exists(d))
                      /\ Exists(d) => dept'[d].parent = dept[d].parent /\ (dept[d].deleted => dept'[d].deleted)
  <2> SUFFICES ASSUME NEW d \in Dept
               PROVE  /\ dept'[d] \in Department \cup {Null} /\ (dept'[d] # Null <=> Exists(d))
                      /\ Exists(d) => dept'[d].parent = dept[d].parent /\ (dept[d].deleted => dept'[d].deleted)
    OBVIOUS
  <2>1. CASE dept'[d] = dept[d]
    BY <1>1, <2>1 DEF DeptOK, Exists
  <2>2. CASE dept'[d] # dept[d]
    <3>1. Lives(d) /\ Exists(d) /\ dept[d] \in Department
      BY <1>1, <2>2, RowIs DEF Lives
    <3>2. \/ dept'[d] = [dept[d] EXCEPT !.deleted = TRUE]
          \/ w.active \in BOOLEAN /\ dept'[d] = [dept[d] EXCEPT !.active = w.active]
      BY <1>1, <1>2, <1>3, <2>2
    <3>3. dept'[d] \in Department /\ dept'[d].parent = dept[d].parent /\ (dept[d].deleted => dept'[d].deleted)
      BY <3>1, <3>2 DEF Department
    <3> QED
      BY <1>1, <3>1, <3>3 DEF DeptOK, DepartmentsAssumption
  <2> QED
    BY <2>1, <2>2
<1>5. DepartmentsTypeOK'
  <2>1. dept' \in [Dept -> Department \cup {Null}]
    <3>1. dept' = [d \in Dept |-> dept'[d]]
      BY <1>1
    <3> QED
      BY <1>4, <3>1
  <2> QED
    BY <1>1, <1>2, <2>1 DEF DepartmentsTypeOK
<1>6. ParentsExist'
  <2>1. \A e \in Dept : Exists(e) => (dept[e].parent # Null => Exists(dept[e].parent)) /\ dept[e].parent \in Dept \cup {Null}
    BY <1>1, RowIs DEF ParentsExist
  <2>2. ASSUME NEW e \in Dept, dept'[e] # Null, dept'[e].parent # Null PROVE dept'[dept'[e].parent] # Null
    BY <1>4, <2>1, <2>2
  <2>3. ASSUME NEW b \in Manager, Hangs(b)'
        PROVE  /\ request'[b].parent # Null => dept'[request'[b].parent] # Null
               /\ request'[b].what = "update" => dept'[request'[b].dept] # Null
    <3>1. Hangs(b) /\ request'[b] = request[b] /\ request[b] \in DepartmentWrite
      BY <1>1, <1>2, <2>3 DEF DepartmentsTypeOK, Hangs
    <3>2. request[b].dept \in Dept /\ request[b].parent \in Dept \cup {Null}
      BY <3>1, WritesAre DEF Hangs
    <3>3. /\ request[b].parent # Null => Exists(request[b].parent)
          /\ request[b].what = "update" => Exists(request[b].dept)
      BY <1>1, <3>1 DEF ParentsExist
    <3> QED
      BY <1>4, <3>1, <3>2, <3>3
  <2> QED
    BY <2>2, <2>3 DEF ParentsExist, Exists
<1>7. Listed' \subseteq Listed /\ \A e \in Listed : e \in Dept /\ Lives(e) /\ dept'[e].parent = dept[e].parent
  BY <1>4 DEF Listed, Lives, Exists
<1>8. ASSUME ~raced' PROVE NoCircles'
  <2> SUFFICES ASSUME NEW U \in SUBSET Listed', U # {} PROVE \E e \in U : dept'[e].parent \notin U
    BY DEF NoCircles
  <2>1. PICK e \in U : dept[e].parent \notin U
    BY <1>1, <1>7, <1>8 DEF NoCircles, TreeInv
  <2> QED
    BY <1>7, <2>1
<1> DEFINE livesOn(e) == dept'[e] # Null /\ ~dept'[e].deleted
           roots(e) == livesOn(e) /\ dept'[e].parent = Null
<1>9. \A e \in Dept : /\ livesOn(e) => Lives(e) /\ dept'[e].parent = dept[e].parent
                      /\ roots(e) => Root(e)
  BY <1>4 DEF Root, Lives
<1> HIDE DEF livesOn, roots
<1>10. ASSUME ~raced' PROVE OneTop'
  <2>1. ASSUME NEW e \in Dept, NEW f \in Dept, roots(e), roots(f) PROVE e = f
    BY <1>1, <1>9, <1>10, <2>1 DEF TreeInv, OneTop
  <2> QED
    BY <2>1 DEF OneTop, Root, Lives, Exists, roots, livesOn
<1>11. ASSUME ~raced', NEW b \in Manager, Hangs(b)' PROVE StillFits(request[b])'
  <2> DEFINE v == request[b]
  <2>1. StillFits(v) /\ request'[b] = v
    BY <1>1, <1>2, <1>11 DEF TreeInv
  <2> HIDE DEF v
  <2>2. CASE v.what = "create"
    <3>1. v.parent = Null => \A e \in Dept \ {v.dept} : ~roots(e)
      BY <1>9, <2>1, <2>2 DEF StillFits
    <3> QED
      BY <2>1, <2>2, <3>1 DEF StillFits, Root, Lives, Exists, roots, livesOn
  <2>3. CASE v.what # "create"
    <3>1. ASSUME v.parent # Null
          PROVE  \E C \in SUBSET Dept :
                   v.parent \in C /\ v.dept \notin C /\ \A e \in C : livesOn(e) => dept'[e].parent \in C \cup {Null}
      <4>1. PICK C \in SUBSET Dept : v.parent \in C /\ v.dept \notin C /\ ClosedAbove(C)
        BY <2>1, <2>3, <3>1 DEF StillFits
      <4>2. \A e \in C : livesOn(e) => dept'[e].parent \in C \cup {Null}
        BY <1>9, <4>1 DEF ClosedAbove
      <4> QED
        BY <4>1, <4>2
    <3> QED
      BY <2>1, <2>3, <3>1 DEF StillFits, ClosedAbove, Lives, Exists, livesOn
  <2> QED
    BY <2>2, <2>3
<1> QED
  BY <1>5, <1>6, <1>8, <1>10, <1>11 DEF TreeInv

LEMMA TheRestKeepsTheTree ==
  ASSUME DepartmentsAssumption, TreeInv,
         (\E u \in User, d \in Dept : UserChanges(u, d)) \/ UNCHANGED departmentVars
  PROVE  TreeInv'
<1>1. /\ dept' = dept /\ request' = request /\ raced' = raced
      /\ users' \in [User -> [dept : Dept, active : BOOLEAN] \cup {Null}]
  <2>1. users \in [User -> [dept : Dept, active : BOOLEAN] \cup {Null}]
    BY DEF TreeInv, DepartmentsTypeOK
  <2>2. CASE UNCHANGED departmentVars
    BY <2>1, <2>2 DEF departmentVars
  <2>3. CASE \E u \in User, d \in Dept : UserChanges(u, d)
    BY <2>1, <2>3 DEF UserChanges
  <2> QED
    BY <2>2, <2>3
<1>2. DepartmentsTypeOK'
  BY <1>1 DEF TreeInv, DepartmentsTypeOK
<1>3. ParentsExist'
  BY <1>1 DEF TreeInv, ParentsExist, Hangs, Exists
<1>4. ~raced' => (NoCircles /\ OneTop)'
  BY <1>1 DEF TreeInv, NoCircles, OneTop, Root, Lives, Exists, Listed
<1>5. ASSUME ~raced', NEW b \in Manager, Hangs(b)' PROVE StillFits(request[b])'
  <2>1. StillFits(request[b])
    BY <1>1, <1>5 DEF TreeInv, Hangs
  <2> QED
    BY <1>1, <2>1 DEF StillFits, ClosedAbove, Root, Lives, Exists
<1> QED
  BY <1>2, <1>3, <1>4, <1>5 DEF TreeInv

(* Whatever is created, moved, removed, switched, and whenever: the           *)
(* departments that live are a forest with at most one top, which every list  *)
(* shows whole, unless two requests that create or move have overlapped; the  *)
(* calendar up and down, and the reports where the paths fit, show the same   *)
(* departments even then, and a request runs the workflow of the nearest      *)
(* department above that has one, of the highest priority.                    *)
THEOREM TheTreeHolds ==
  DepartmentsSpec => [](DepartmentsFormATree /\ FormAForest /\ ScopesAgree /\ WorkflowsAreFound)
<1>1. DepartmentsInit => TreeInv
  BY TreeStarts, DepartmentsAssumption
<1>2. TreeInv /\ [DepartmentsNext]_departmentVars => TreeInv'
  <2> SUFFICES ASSUME TreeInv, [DepartmentsNext]_departmentVars PROVE TreeInv'
    OBVIOUS
  <2>1. ASSUME NEW a \in Manager, NEW d \in Dept, NEW p \in Dept \cup {Null}, CreateDepartment(a, d, p) PROVE TreeInv'
    BY <2>1, CreateKeepsTheTree, DepartmentsAssumption
  <2>2. ASSUME NEW a \in Manager, NEW d \in Dept, NEW p \in Dept \cup {Null}, MoveDepartment(a, d, p) PROVE TreeInv'
    BY <2>2, MoveKeepsTheTree, DepartmentsAssumption
  <2>3. ASSUME NEW a \in Manager, NEW d \in Dept, RemoveTree(a, d) \/ Deactivate(a, d) \/ Activate(a, d) PROVE TreeInv'
    BY <2>3, OthersKeepTheTree, DepartmentsAssumption
  <2>4. ASSUME NEW a \in Manager, WriteCreate(a) PROVE TreeInv'
    BY <2>4, WriteCreateKeepsTheTree, DepartmentsAssumption
  <2>5. ASSUME NEW a \in Manager, WriteUpdate(a) PROVE TreeInv'
    BY <2>5, WriteUpdateKeepsTheTree, DepartmentsAssumption
  <2>6. ASSUME NEW a \in Manager, WriteScope(a) PROVE TreeInv'
    BY <2>6, WriteScopeKeepsTheTree, DepartmentsAssumption
  <2>7. ASSUME (\E u \in User, d \in Dept : UserChanges(u, d)) \/ UNCHANGED departmentVars PROVE TreeInv'
    BY <2>7, TheRestKeepsTheTree, DepartmentsAssumption
  <2> QED
    BY <2>1, <2>2, <2>3, <2>4, <2>5, <2>6, <2>7 DEF DepartmentsNext
<1>3. TreeInv => DepartmentsFormATree /\ FormAForest /\ ScopesAgree /\ WorkflowsAreFound
  <2> SUFFICES ASSUME TreeInv PROVE FormAForest /\ ScopesAgree /\ WorkflowsAreFound
    BY DEF DepartmentsFormATree
  <2>1. DeptOK
    BY DepartmentsAssumption DEF DeptOK, TreeInv, DepartmentsTypeOK
  <2> QED
    BY <2>1, DepartmentsAssumption, TreeIsAForest, ScopesDoAgree, WorkflowsAreAlwaysFound
<1> QED
  BY <1>1, <1>2, <1>3, PTL DEF DepartmentsSpec
=============================================================================
