------------------------------- MODULE Downloads -------------------------------
(***************************************************************************)
(* The instant download of a short list (ExportService.prepare, download):   *)
(* prepare leaves a ticket in the cache, the link opened with it takes the   *)
(* ticket, puts a lock on its user and streams the file.                     *)
(*                                                                           *)
(* Ticket and lock are keys of Redis that are read and written by calls of   *)
(* their own, and both expire.  A call that fails is logged and forgotten    *)
(* (RedisService): what was to be read counts as not there, what was to be   *)
(* written or removed is not.  One user; what is in the file is left out.    *)
(***************************************************************************)
EXTENDS FiniteSets, Naturals

CONSTANTS
  Ticket,
  Opener,    \* requests that open a link
  MaxOpens,  \* bound on the links opened
  NoTicket

VARIABLES
  ticket,   \* ticket -> "none", "kept" in the cache, "gone"
  busy,     \* whether the user is downloading, as the cache says
  opening,  \* request -> how far it is, with which ticket
  streams,  \* ticket -> how often its file was sent
  shared,   \* tickets two requests had read before either took it away
  undeleted, \* tickets a request could not take away
  crossed,  \* two requests found no lock before either put it there, the lock
            \* of a running download expired, or one could not be read or put
  opens

downloadVars == <<ticket, busy, opening, streams, shared, undeleted, crossed, opens>>

Unopened == [at |-> "idle", ticket |-> NoTicket]

ASSUME DownloadsAssumption == NoTicket \notin Ticket

DownloadsTypeOK ==
  /\ ticket \in [Ticket -> {"none", "kept", "gone"}]
  /\ busy \in BOOLEAN /\ crossed \in BOOLEAN
  /\ opening \in [Opener -> [at : {"take", "check", "lock", "stream"}, ticket : Ticket] \cup {Unopened}]
  /\ streams \in [Ticket -> Nat] /\ shared \cup undeleted \subseteq Ticket

DownloadsInit ==
  /\ ticket = [t \in Ticket |-> "none"]
  /\ busy = FALSE
  /\ opening = [c \in Opener |-> Unopened]
  /\ streams = [t \in Ticket |-> 0]
  /\ shared = {} /\ undeleted = {} /\ crossed = FALSE /\ opens = 0

At(place) == { c \in Opener : opening[c].at = place }
Moves(c, place) == opening' = [opening EXCEPT ![c].at = place]
Leaves(c) == opening' = [opening EXCEPT ![c] = Unopened]
Alone(c) == At("stream") \cup At("lock") \subseteq {c}

-----------------------------------------------------------------------------

\* prepare: a list of at least one row and less than EXPORT_INSTANT_MAX_ROWS.
\* The caller gets a ticket even if it could not be kept.
Prepare(t) ==
  /\ ticket[t] = "none"
  /\ \E place \in {"kept", "gone"} : ticket' = [ticket EXCEPT ![t] = place]
  /\ UNCHANGED <<busy, opening, streams, shared, undeleted, crossed, opens>>

\* takeTicket: read, then taken away; a link is opened as often as one likes
ReadTicket(c, t) ==
  /\ opening[c] = Unopened /\ opens < MaxOpens /\ opens' = opens + 1
  /\ ticket[t] = "kept"
  /\ opening' = [opening EXCEPT ![c] = [at |-> "take", ticket |-> t]]
  /\ shared' = IF \E o \in At("take") : opening[o].ticket = t THEN shared \cup {t} ELSE shared
  /\ UNCHANGED <<ticket, busy, streams, undeleted, crossed>>

TakeTicket(c) ==
  /\ c \in At("take")
  /\ ticket' = [ticket EXCEPT ![opening[c].ticket] = "gone"]
  /\ Moves(c, "check")
  /\ UNCHANGED <<busy, streams, shared, undeleted, crossed, opens>>

CannotTakeTicket(c) ==
  /\ c \in At("take")
  /\ undeleted' = undeleted \cup {opening[c].ticket}
  /\ Moves(c, "check")
  /\ UNCHANGED <<ticket, busy, streams, shared, crossed, opens>>

\* Another export is still running: the ticket is used up all the same.
Refuse(c) ==
  /\ c \in At("check") /\ busy
  /\ Leaves(c)
  /\ UNCHANGED <<ticket, busy, streams, shared, undeleted, crossed, opens>>

FindNoLock(c) ==
  /\ c \in At("check") /\ ~busy
  /\ Moves(c, "lock")
  /\ crossed' = (crossed \/ At("lock") # {})
  /\ UNCHANGED <<ticket, busy, streams, shared, undeleted, opens>>

CannotReadLock(c) ==
  /\ c \in At("check")
  /\ Moves(c, "lock")
  /\ crossed' = (crossed \/ At("lock") \cup At("stream") # {})
  /\ UNCHANGED <<ticket, busy, streams, shared, undeleted, opens>>

\* The file is sent, with the lock or, if it could not be put, without.
Streams(c) ==
  /\ c \in At("lock")
  /\ streams' = [streams EXCEPT ![opening[c].ticket] = @ + 1]
  /\ Moves(c, "stream")
  /\ UNCHANGED <<ticket, shared, undeleted, opens>>

Lock(c) == Streams(c) /\ busy' = TRUE /\ UNCHANGED crossed
CannotLock(c) == Streams(c) /\ crossed' = (crossed \/ ~busy) /\ UNCHANGED busy

\* It was sent, could not be written, or nobody waits for it any longer: the
\* lock is removed in any case, whoever put it there, or stays until it expires.
Unlock(c) ==
  /\ c \in At("stream")
  /\ busy' \in {FALSE, busy}
  /\ Leaves(c)
  /\ crossed' = (crossed /\ ~Alone(c))
  /\ UNCHANGED <<ticket, streams, shared, undeleted, opens>>

-----------------------------------------------------------------------------
(* The environment                                                           *)

\* TICKET_TTL_SECONDS, LOCK_TTL_SECONDS
TicketExpires(t) ==
  /\ ticket[t] = "kept"
  /\ ticket' = [ticket EXCEPT ![t] = "gone"]
  /\ UNCHANGED <<busy, opening, streams, shared, undeleted, crossed, opens>>

LockExpires ==
  /\ busy /\ busy' = FALSE
  /\ crossed' = (crossed \/ At("stream") # {})
  /\ UNCHANGED <<ticket, opening, streams, shared, undeleted, opens>>

\* The process dies: the lock stays.
Dies(c) ==
  /\ opening[c] # Unopened
  /\ Leaves(c)
  /\ crossed' = (crossed /\ ~Alone(c))
  /\ UNCHANGED <<ticket, busy, streams, shared, undeleted, opens>>

DownloadsNext ==
  \/ LockExpires
  \/ \E t \in Ticket : Prepare(t) \/ TicketExpires(t)
  \/ \E c \in Opener :
       \/ \E t \in Ticket : ReadTicket(c, t)
       \/ TakeTicket(c) \/ CannotTakeTicket(c) \/ Refuse(c) \/ FindNoLock(c) \/ CannotReadLock(c)
       \/ Lock(c) \/ CannotLock(c) \/ Unlock(c) \/ Dies(c)

DownloadsSpec == DownloadsInit /\ [][DownloadsNext]_downloadVars

-----------------------------------------------------------------------------
\* A ticket is good for one download, unless two requests had read it before
\* either took it away, or one could not take it away.
TicketsServeOnce == \A t \in Ticket : streams[t] > 1 => t \in shared \cup undeleted

\* A user has one download at a time, and while it runs the cache says so, unless
\* two requests found no lock before either put it there, a download took longer
\* than its lock, or Redis did not answer when the lock was read or put.
OneDownloadAtATime ==
  \/ crossed
  \/ Cardinality(At("stream")) + Cardinality(At("lock")) <= 1 /\ (At("stream") # {} => busy)

DownloadsAreCounted == TicketsServeOnce /\ OneDownloadAtATime
=============================================================================
