------------------------------ MODULE ListCache ------------------------------
(***************************************************************************)
(* The lists that BaseService keeps in Redis and the user that             *)
(* SupabaseAuthGuard keeps there.                                          *)
(*                                                                         *)
(* Both are cache-aside: a reader that misses loads from the database and  *)
(* stores what it loaded, a writer flushes and then deletes what shows the *)
(* table it wrote. Nothing orders the two, the deletion may be lost (Redis *)
(* only logs a warning, or the process stops), and some writes delete      *)
(* nothing of what shows them: the time to live is the last safety net.    *)
(*                                                                         *)
(* An entry stands for every key that it has (pages, filters, users).      *)
(***************************************************************************)
EXTENDS Naturals

CONSTANTS
    Entry,      \* what is cached: the lists of an entity, the guard's users
    Reader,     \* requests that read an entry
    Writer,     \* requests that write a table
    WriteKind,      \* the kinds of write
    ShownIn,    \* kind of write -> the entries that show what it changes
    Clears,     \* kind of write -> the entries it deletes afterwards
    Ttl,        \* time to live, in ticks
    None

VARIABLES
    cached,     \* entry -> None, or whether it is stale and how long it lives
    reading,    \* reader -> None, or what it found or loaded
    writing     \* writer -> None, or the kind of write whose lists it still has to clear

cacheVars == <<cached, reading, writing>>

CacheTypeOK ==
    /\ cached \in [Entry -> [stale: BOOLEAN, ttl: 1..Ttl] \cup {None}]
    /\ reading \in [Reader -> [entry: Entry, stale: BOOLEAN, hit: BOOLEAN] \cup {None}]
    /\ writing \in [Writer -> WriteKind \cup {None}]

CacheInit ==
    /\ cached = [e \in Entry |-> None]
    /\ reading = [r \in Reader |-> None]
    /\ writing = [w \in Writer |-> None]

-----------------------------------------------------------------------------
(* Reading: cachedList, canActivate.                                       *)

\* cache.get; on a miss the loader reads the database.
Read(r, e) ==
    /\ reading[r] = None
    /\ reading' = [reading EXCEPT ![r] =
           [entry |-> e,
            stale |-> cached[e] # None /\ cached[e].stale,
            hit   |-> cached[e] # None]]
    /\ UNCHANGED <<cached, writing>>

\* As it would be if whatever is answered were stored again.
StoredAgain(r) ==
    [cached EXCEPT ![reading[r].entry] = [stale |-> reading[r].stale, ttl |-> Ttl]]

\* A hit is answered as it is and does not lengthen its life; what was loaded
\* is stored for a whole time to live.
Stored(r) ==
    IF reading[r].hit
    THEN cached
    ELSE [cached EXCEPT ![reading[r].entry] = [stale |-> reading[r].stale, ttl |-> Ttl]]

Answer(r) ==
    /\ reading[r] # None
    /\ cached' = Stored(r)
    /\ reading' = [reading EXCEPT ![r] = None]
    /\ UNCHANGED writing

\* The loader fails, Redis refuses the value or the process stops: nothing is
\* stored.
AnswerUncached(r) ==
    /\ reading[r] # None
    /\ ~reading[r].hit
    /\ reading' = [reading EXCEPT ![r] = None]
    /\ UNCHANGED <<cached, writing>>

-----------------------------------------------------------------------------
(* Writing: addOne, updateOne, remove, and the services' own transactions. *)

\* The flush: from now on whatever shows the table is out of date, and so is
\* what a reader loaded and has not stored yet.
Flush(w, k) ==
    /\ writing[w] = None
    /\ writing' = [writing EXCEPT ![w] = k]
    /\ cached' = [e \in Entry |->
           IF e \in ShownIn[k] /\ cached[e] # None
           THEN [cached[e] EXCEPT !.stale = TRUE]
           ELSE cached[e]]
    /\ reading' = [r \in Reader |->
           IF reading[r] # None /\ reading[r].entry \in ShownIn[k]
           THEN [reading[r] EXCEPT !.stale = TRUE]
           ELSE reading[r]]

\* invalidateLists, cache.del, clearPermissionCache.
Clear(w) ==
    /\ writing[w] # None
    /\ cached' = [e \in Entry |-> IF e \in Clears[writing[w]] THEN None ELSE cached[e]]
    /\ writing' = [writing EXCEPT ![w] = None]
    /\ UNCHANGED reading

\* delByPattern catches what Redis throws; or the process stops after the flush.
ClearIsLost(w) ==
    /\ writing[w] # None
    /\ writing' = [writing EXCEPT ![w] = None]
    /\ UNCHANGED <<cached, reading>>

-----------------------------------------------------------------------------
\* Redis counts the time to live down and drops what reached its end.
Tick ==
    /\ \E e \in Entry : cached[e] # None
    /\ cached' = [e \in Entry |->
           IF cached[e] = None \/ cached[e].ttl = 1
           THEN None
           ELSE [cached[e] EXCEPT !.ttl = @ - 1]]
    /\ UNCHANGED <<reading, writing>>

CacheNext ==
    \/ \E r \in Reader, e \in Entry : Read(r, e)
    \/ \E r \in Reader : Answer(r)
    \/ \E r \in Reader : AnswerUncached(r)
    \/ \E w \in Writer, k \in WriteKind : Flush(w, k)
    \/ \E w \in Writer : Clear(w)
    \/ \E w \in Writer : ClearIsLost(w)
    \/ Tick

\* Time passes; readers and writers owe nothing.
CacheFairness == WF_cacheVars(Tick)

CacheSpec == CacheInit /\ [][CacheNext]_cacheVars /\ CacheFairness

-----------------------------------------------------------------------------
\* A cached list that is out of date does not stay: whatever readers and
\* writers do, and even when its deletion was lost, raced by a reader or never
\* asked for, it expires. ("TTL is only a safety net" of LIST_CACHE_TTL: reading
\* it, however often, must not keep it alive.)
StaleListsExpire ==
    \A e \in Entry :
        (cached[e] # None /\ cached[e].stale) ~> (cached[e] = None \/ ~cached[e].stale)

=============================================================================
