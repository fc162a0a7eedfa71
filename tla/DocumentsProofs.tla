---------------------------- MODULE DocumentsProofs ----------------------------
(***************************************************************************)
(* What was sent of a request stands, for every set of requests, documents,*)
(* tabs and passes and every bound.                                        *)
(*                                                                         *)
(* The argument.  Whatever is done to a row is one of five things: a new    *)
(* row for the round that is being composed, a schedule, a failed attempt,  *)
(* a conversion, a signature; each keeps the chain of versions, if a row    *)
(* whose document was changed once is on a PDF somebody made (then there is *)
(* nothing to convert) and if what is written is a PDF of that document.    *)
(* Nothing of a sent round is written by the requester, because the tab     *)
(* whose copy of the request is current saw the round that is composed now. *)
(***************************************************************************)
EXTENDS Documents, FiniteSetTheorems, WellFoundedInduction, TLAPS

Chain(row) ==
  LET at(i) == IF i = 0 THEN row.original ELSE row.log[i].to
  IN  /\ row.current = at(Len(row.log))
      /\ \A i \in 1..Len(row.log) :
           /\ row.log[i].from = at(i - 1)
           /\ row.log[i].signed => isPdf(row.log[i].from)
           /\ ~row.log[i].signed => i = 1

RowSound(id, row) ==
  /\ row \in Row
  /\ row.convert = "failed" => row.attempts >= MaxAttempts
  /\ Chain(row)
  /\ row.original.doc = id.doc /\ row.current.doc = id.doc /\ ~row.original.made
  /\ \A i \in 1..Len(row.log) : row.log[i].to.made

VersionsOf(row) == {row.original, row.current} \cup { row.log[i].to : i \in 1..Len(row.log) }

RowsAreSound ==
  \A id \in DOMAIN rows :
    /\ RowSound(id, rows[id])
    /\ VersionsOf(rows[id]) \subseteq recorded
    /\ rows[id].log # <<>> => id.round <= round[id.request]

(* Only the round that is composed is ahead of what was sent, and none is    *)
(* while approvers have the request                                          *)
Ahead(r) == IF phase[r] = "pending" THEN round[r] ELSE round[r] + 1
RoundsInTurn ==
  /\ \A r \in Request : phase[r] = "none" => round[r] = 0
  /\ \A id \in DOMAIN rows : id.round <= Ahead(id.request)

(* A tab whose copy is current shows the request as it is                    *)
OpenCopies ==
  \A e \in Editor : editor[e].current =>
    /\ editor[e].request \in Request
    /\ phase[editor[e].request] \in {"draft", "returned"}
    /\ editor[e].round = round[editor[e].request]

WorkersMakePdfs ==
  \A w \in Worker :
    /\ \A id \in worker[w].ids : id.request = worker[w].request
    /\ \A x \in worker[w].results : x.id \in worker[w].ids /\ x.key.made /\ x.key.doc = x.id.doc
    /\ worker[w].pc = "locked" => worker[w].results = {}

(* Only copies are deleted unchecked, and only after something failed        *)
CleaningSpares ==
  \A c \in cleaning : faults > 0 /\ (~c.checked => \A k \in c.keys : ~k.made)

Inv ==
  /\ DocTypeOK
  /\ RowsAreSound
  /\ RoundsInTurn
  /\ OpenCopies
  /\ WorkersMakePdfs
  /\ CleaningSpares
  /\ VersionsAreStored

-----------------------------------------------------------------------------
(* Keys                                                                     *)

LEMMA LeastElement ==
  ASSUME NEW T \in SUBSET Nat, T # {}
  PROVE  \E x \in T : \A y \in T : x <= y
<1> DEFINE R == OpToRel(<, Nat)
<1>1. IsWellFoundedOn(R, Nat)
  BY NatLessThanWellFounded
<1>2. \A a, b \in Nat : a < b => <<a, b>> \in R
  BY DEF OpToRel
<1> HIDE DEF R
<1>3. PICK x \in T : \A y \in T : ~(<<y, x>> \in R)
  BY <1>1, WFMin
<1>4. ASSUME NEW y \in T PROVE x <= y
  <2>1. ~(y < x)
    BY <1>2, <1>3
  <2> QED
    BY <2>1
<1> QED
  BY <1>4

LEMMA FirstIsOne ==
  ASSUME NEW K \in SUBSET Key, K # {}
  PROVE  First(K) \in K
<1> DEFINE T == { k.n : k \in K }
<1>1. T \in SUBSET Nat /\ T # {}
  BY DEF Key
<1>2. PICK x \in T : \A y \in T : x <= y
  BY <1>1, LeastElement
<1>3. \E k \in K : \A o \in K : k.n <= o.n
  BY <1>2
<1> QED
  BY <1>3 DEF First

(* What NewKeys hands out is free, finite in number and for that row         *)
LEMMA NewKeysType ==
  ASSUME NEW id \in RowId, NEW made \in BOOLEAN
  PROVE  /\ NewKeys(id, made) \subseteq Key \ (recorded \cup Held)
         /\ \A k \in NewKeys(id, made) :
              k.doc = id.doc /\ k.made = made /\ k.request = id.request /\ k.round = id.round
         /\ IsFiniteSet(NewKeys(id, made))
<1> DEFINE key(n) == [request |-> id.request, round |-> id.round, doc |-> id.doc, made |-> made, n |-> n]
           K == { key(n) : n \in 1..MaxKey }
<1>1. K \subseteq Key
  BY DEF Key, RowId
<1>2. IsFiniteSet(1..MaxKey)
  BY FS_Interval, DocumentsAssumption
<1>3. IsFiniteSet(K)
  <2> DEFINE f == [n \in 1..MaxKey |-> key(n)]
  <2>1. f \in Surjection(1..MaxKey, K)
    BY DEF Surjection
  <2> HIDE DEF f, K
  <2> QED
    BY <1>2, <2>1, FS_Surjection
<1>4. NewKeys(id, made) \subseteq K
  BY DEF NewKeys
<1>5. IsFiniteSet(NewKeys(id, made))
  BY <1>3, <1>4, FS_Subset
<1> QED
  BY <1>1, <1>4, <1>5 DEF NewKeys

LEMMA FirstKey ==
  ASSUME NEW id \in RowId, NEW made \in BOOLEAN, NewKeys(id, made) # {}
  PROVE  /\ First(NewKeys(id, made)) \in NewKeys(id, made)
         /\ First(NewKeys(id, made)) \in Key
         /\ First(NewKeys(id, made)).doc = id.doc
         /\ First(NewKeys(id, made)).made = made
         /\ First(NewKeys(id, made)).request = id.request
<1>1. First(NewKeys(id, made)) \in NewKeys(id, made)
  BY NewKeysType, FirstIsOne
<1> QED
  BY <1>1, NewKeysType

LEMMA SecondKey ==
  ASSUME NEW id \in RowId, Cardinality(NewKeys(id, TRUE)) >= 2
  PROVE  /\ NewKeys(id, TRUE) # {}
         /\ Second(NewKeys(id, TRUE)) \in NewKeys(id, TRUE) \ {First(NewKeys(id, TRUE))}
<1> DEFINE K == NewKeys(id, TRUE)
<1>0. Cardinality(K) >= 2 /\ IsFiniteSet(K) /\ K \subseteq Key
  BY NewKeysType
<1> SUFFICES K # {} /\ First(K \ {First(K)}) \in K \ {First(K)}
  BY DEF Second
<1> HIDE DEF K
<1>1. K # {}
  BY <1>0, FS_EmptySet
<1>2. First(K) \in K
  BY <1>0, <1>1, FirstIsOne
<1>3. Cardinality(K \ {First(K)}) = Cardinality(K) - 1
  BY <1>0, <1>2, FS_RemoveElement
<1>4. K \ {First(K)} # {}
  <2>1. Cardinality(K) \in Nat
    BY <1>0, FS_CardinalityType
  <2>2. Cardinality(K \ {First(K)}) # 0
    BY <1>0, <1>3, <2>1
  <2> QED
    BY <2>2, FS_EmptySet
<1>5. First(K \ {First(K)}) \in K \ {First(K)}
  <2> DEFINE L == K \ {First(K)}
  <2>1. L \in SUBSET Key /\ L # {}
    BY <1>0, <1>4
  <2> HIDE DEF L
  <2>2. First(L) \in L
    BY <2>1, FirstIsOne
  <2> QED
    BY <2>2 DEF L
<1> QED
  BY <1>1, <1>5

-----------------------------------------------------------------------------
(* Rows: each thing that is done to one keeps it sound                      *)

LEMMA NewRowSound ==
  ASSUME NEW id, NEW k \in Key, k.doc = id.doc, ~k.made
  PROVE  RowSound(id, NewRow(k)) /\ VersionsOf(NewRow(k)) = {k} /\ NewRow(k).log = <<>>
<1>1. <<>> \in Seq(Change) /\ Len(<<>>) = 0 /\ 1..0 = {}
  OBVIOUS
<1>2. NewRow(k) \in Row
  BY <1>1 DEF NewRow, Row
<1>3. Chain(NewRow(k))
  BY <1>1 DEF NewRow, Chain
<1> QED
  BY <1>1, <1>2, <1>3, DocumentsAssumption DEF NewRow, RowSound, VersionsOf

(* A change appended to a chain continues it *)
LEMMA AppendToChain ==
  ASSUME NEW row \in Row, Chain(row), NEW c \in Change, c.from = row.current,
         c.signed => isPdf(row.current), ~c.signed => row.log = <<>>,
         NEW new \in Row, new.original = row.original, new.current = c.to,
         new.log = Append(row.log, c)
  PROVE  /\ Chain(new)
         /\ VersionsOf(new) \subseteq VersionsOf(row) \cup {c.to}
         /\ \A i \in 1..Len(new.log) :
              new.log[i].to = c.to \/ \E j \in 1..Len(row.log) : new.log[i].to = row.log[j].to
<1> DEFINE n == Len(row.log)
<1>1. row.log \in Seq(Change) /\ n \in Nat
  BY DEF Row
<1>2. /\ Len(new.log) = n + 1
      /\ \A i \in 1..n : new.log[i] = row.log[i]
      /\ new.log[n + 1] = c
  BY <1>1
<1>3. \A i \in 1..n + 1 : i \in 1..n \/ i = n + 1
  BY <1>1
<1> HIDE DEF n
<1>6. Chain(new)
  <2>1. new.current = IF n + 1 = 0 THEN new.original ELSE new.log[n + 1].to
    BY <1>1, <1>2
  <2>2. row.current = IF n = 0 THEN row.original ELSE row.log[n].to
    BY DEF Chain, n
  <2>3. \A i \in 1..n : /\ row.log[i].from = IF i - 1 = 0 THEN row.original ELSE row.log[i - 1].to
                        /\ row.log[i].signed => isPdf(row.log[i].from)
                        /\ ~row.log[i].signed => i = 1
    BY DEF Chain, n
  <2>4. ASSUME NEW i \in 1..n + 1
        PROVE  /\ new.log[i].from = IF i - 1 = 0 THEN new.original ELSE new.log[i - 1].to
               /\ new.log[i].signed => isPdf(new.log[i].from)
               /\ ~new.log[i].signed => i = 1
    <3>1. CASE i = n + 1
      <4>1. new.log[i] = c /\ i - 1 = n
        BY <3>1, <1>1, <1>2
      <4>2. n # 0 => n \in 1..n
        BY <1>1
      <4>3. row.log = <<>> => n = 0
        BY DEF n
      <4> QED
        BY <4>1, <4>2, <4>3, <3>1, <2>2, <1>1, <1>2
    <3>2. CASE i \in 1..n
      <4>1. i - 1 # 0 => i - 1 \in 1..n
        BY <3>2, <1>1
      <4> QED
        BY <4>1, <3>2, <2>3, <1>2
    <3> QED
      BY <3>1, <3>2, <1>3
  <2>5. Len(new.log) = n + 1
    BY <1>2
  <2> HIDE DEF n
  <2> QED
    BY ONLY <2>1, <2>4, <2>5 DEF Chain
<1>7. \A i \in 1..Len(new.log) :
        new.log[i].to = c.to \/ \E j \in 1..Len(row.log) : new.log[i].to = row.log[j].to
  BY <1>2, <1>3 DEF n
<1>8. VersionsOf(new) \subseteq VersionsOf(row) \cup {c.to}
  BY <1>7 DEF VersionsOf
<1> QED
  BY <1>6, <1>7, <1>8

(* Where there is something to convert, nothing was changed yet *)
LEMMA NothingChangedYet ==
  ASSUME NEW id, NEW row, RowSound(id, row), needsConversion(row)
  PROVE  row.log = <<>>
<1> SUFFICES ASSUME row.log # <<>> PROVE FALSE
  OBVIOUS
<1>1. row.log \in Seq(Change)
  BY DEF RowSound, Row
<1>2. Len(row.log) \in 1..Len(row.log) /\ Len(row.log) # 0
  BY <1>1
<1>3. row.current = row.log[Len(row.log)].to
  BY <1>2 DEF RowSound, Chain
<1> QED
  BY <1>2, <1>3 DEF RowSound, needsConversion

LEMMA ConvertedSound ==
  ASSUME NEW id, NEW row, RowSound(id, row), needsConversion(row),
         NEW k \in Key, k.made, k.doc = id.doc
  PROVE  /\ RowSound(id, markConverted(row, k))
         /\ VersionsOf(markConverted(row, k)) \subseteq VersionsOf(row) \cup {k}
         /\ markConverted(row, k).original = row.original
         /\ markConverted(row, k).current = k
         /\ markConverted(row, k).log # <<>>
<1> DEFINE new == markConverted(row, k)
           c == [signed |-> FALSE, from |-> row.current, to |-> k]
<1>0. row.log = <<>>
  BY NothingChangedYet
<1>1. row \in Row /\ Chain(row) /\ row.log \in Seq(Change)
  BY DEF RowSound, Row
<1>2. c \in Change /\ c.from = row.current /\ c.to = k /\ ~c.signed
  BY <1>1 DEF Row, Change
<1>3. Append(row.log, c) \in Seq(Change)
  BY <1>1, <1>2
<1>4. new = [row EXCEPT !.current = k, !.convert = "done", !.log = Append(row.log, c)]
  BY DEF markConverted
<1>5. /\ new \in Row /\ new.original = row.original /\ new.current = k
      /\ new.convert = "done" /\ new.log = Append(row.log, c)
  BY <1>1, <1>3, <1>4 DEF Row
<1>8. (c.signed => isPdf(row.current)) /\ (~c.signed => row.log = <<>>)
  BY <1>0, <1>2
<1> HIDE DEF new, c
<1>6. /\ Chain(new) /\ VersionsOf(new) \subseteq VersionsOf(row) \cup {c.to}
      /\ \A i \in 1..Len(new.log) :
           new.log[i].to = c.to \/ \E j \in 1..Len(row.log) : new.log[i].to = row.log[j].to
  BY <1>1, <1>2, <1>5, <1>8, AppendToChain
<1>9. new.log # <<>>
  <2>1. Len(new.log) = Len(row.log) + 1 /\ Len(row.log) \in Nat
    BY <1>1, <1>2, <1>5
  <2>2. Len(<<>>) = 0
    OBVIOUS
  <2> QED
    BY <2>1, <2>2
<1>7. RowSound(id, new)
  <2>1. new.convert = "failed" => new.attempts >= MaxAttempts
    BY <1>5 DEF RowSound
  <2>2. new.original.doc = id.doc /\ new.current.doc = id.doc /\ ~new.original.made
    BY <1>5 DEF RowSound
  <2>3. \A i \in 1..Len(new.log) : new.log[i].to.made
    BY <1>2, <1>6 DEF RowSound
  <2> QED
    BY <1>5, <1>6, <2>1, <2>2, <2>3 DEF RowSound
<1> QED
  BY <1>2, <1>5, <1>6, <1>7, <1>9 DEF new

LEMMA SignedSound ==
  ASSUME NEW id, NEW row, RowSound(id, row), isPdf(row.current),
         NEW k \in Key, k.made, k.doc = id.doc
  PROVE  /\ RowSound(id, Signed(row, k))
         /\ VersionsOf(Signed(row, k)) \subseteq VersionsOf(row) \cup {k}
         /\ Signed(row, k).original = row.original
<1> DEFINE new == Signed(row, k)
           c == [signed |-> TRUE, from |-> row.current, to |-> k]
<1>1. row \in Row /\ Chain(row) /\ row.log \in Seq(Change)
  BY DEF RowSound, Row
<1>2. c \in Change /\ c.from = row.current /\ c.to = k /\ c.signed
  BY <1>1 DEF Row, Change
<1>3. Append(row.log, c) \in Seq(Change)
  BY <1>1, <1>2
<1>4. new = [row EXCEPT !.current = k, !.log = Append(row.log, c)]
  BY DEF Signed
<1>5. /\ new \in Row /\ new.original = row.original /\ new.current = k /\ new.attempts = row.attempts
      /\ new.convert = row.convert /\ new.log = Append(row.log, c)
  BY <1>1, <1>3, <1>4 DEF Row
<1> HIDE DEF new, c
<1>6. /\ Chain(new) /\ VersionsOf(new) \subseteq VersionsOf(row) \cup {c.to}
      /\ \A i \in 1..Len(new.log) :
           new.log[i].to = c.to \/ \E j \in 1..Len(row.log) : new.log[i].to = row.log[j].to
  BY <1>1, <1>2, <1>5, AppendToChain
<1>7. RowSound(id, new)
  <2>1. new.convert = "failed" => new.attempts >= MaxAttempts
    BY <1>5 DEF RowSound
  <2>2. new.original.doc = id.doc /\ new.current.doc = id.doc /\ ~new.original.made
    BY <1>5 DEF RowSound
  <2>3. \A i \in 1..Len(new.log) : new.log[i].to.made
    BY <1>2, <1>6 DEF RowSound
  <2> QED
    BY <1>5, <1>6, <2>1, <2>2, <2>3 DEF RowSound
<1> QED
  BY <1>2, <1>5, <1>6, <1>7 DEF new

(* A schedule and a failed attempt touch no version *)
SameVersions(new, row) == new.original = row.original /\ new.current = row.current /\ new.log = row.log

LEMMA SameVersionsSound ==
  ASSUME NEW id, NEW row, RowSound(id, row), NEW new \in Row, SameVersions(new, row),
         new.convert = "failed" => new.attempts >= MaxAttempts
  PROVE  RowSound(id, new) /\ VersionsOf(new) = VersionsOf(row)
  BY DEF RowSound, SameVersions, VersionsOf, Chain

Scheduled(row) == [row EXCEPT !.convert = "pending", !.attempts = 0]

LEMMA ScheduledSound ==
  ASSUME NEW id, NEW row, RowSound(id, row)
  PROVE  /\ RowSound(id, Scheduled(row))
         /\ VersionsOf(Scheduled(row)) = VersionsOf(row)
         /\ SameVersions(Scheduled(row), row)
<1> DEFINE new == Scheduled(row)
<1>1. row \in Row
  BY DEF RowSound
<1>2. new \in Row /\ SameVersions(new, row) /\ new.convert = "pending"
  BY <1>1 DEF Row, SameVersions, Scheduled
<1> HIDE DEF new
<1>3. RowSound(id, new) /\ VersionsOf(new) = VersionsOf(row)
  BY <1>2, SameVersionsSound
<1> QED
  BY <1>2, <1>3 DEF new

LEMMA FailedSound ==
  ASSUME NEW id, NEW row, RowSound(id, row)
  PROVE  /\ RowSound(id, markFailedAttempt(row))
         /\ VersionsOf(markFailedAttempt(row)) = VersionsOf(row)
         /\ SameVersions(markFailedAttempt(row), row)
<1> DEFINE new == markFailedAttempt(row)
           status == IF row.attempts + 1 >= MaxAttempts THEN "failed" ELSE "pending"
<1>1. row \in Row /\ row.attempts + 1 \in Nat /\ status \in {"failed", "pending"}
  BY DEF RowSound, Row
<1>0. new = [row EXCEPT !.attempts = row.attempts + 1, !.convert = status]
  BY DEF markFailedAttempt
<1> HIDE DEF status
<1>2. /\ new \in Row /\ SameVersions(new, row) /\ new.attempts = row.attempts + 1
      /\ new.convert = status
  BY <1>0, <1>1 DEF Row, SameVersions
<1> HIDE DEF new
<1>3. RowSound(id, new) /\ VersionsOf(new) = VersionsOf(row)
  BY <1>1, <1>2, SameVersionsSound DEF status
<1> QED
  BY <1>2, <1>3 DEF new

-----------------------------------------------------------------------------
(* Tables of rows: R may become the next one if its rows are sound, what    *)
(* they name is in rec, and it holds the sets that were sent as they were    *)

IsTable(R) == R = [id \in DOMAIN R |-> R[id]]

MayBecome(R, rec) ==
  /\ DOMAIN R \subseteq RowId /\ IsTable(R)
  /\ \A id \in DOMAIN R :
       /\ RowSound(id, R[id])
       /\ VersionsOf(R[id]) \subseteq rec
       /\ R[id].log # <<>> => id.round <= round[id.request]
  /\ \A id \in RowId : id.round <= round[id.request] =>
       /\ id \in DOMAIN R <=> id \in DOMAIN rows
       /\ id \in DOMAIN rows => R[id].original = rows[id].original

LEMMA TheSameRows ==
  ASSUME Inv, NEW rec, recorded \subseteq rec
  PROVE  MayBecome(rows, rec)
  BY DEF Inv, DocTypeOK, RowsAreSound, MayBecome, IsTable

LEMMA PutType ==
  ASSUME NEW R, NEW S
  PROVE  /\ DOMAIN Put(R, S) = DOMAIN R \cup DOMAIN S
         /\ \A id \in DOMAIN R \cup DOMAIN S : Put(R, S)[id] = IF id \in DOMAIN S THEN S[id] ELSE R[id]
         /\ IsTable(Put(R, S))
  BY DEF Put, IsTable

(* A schedule *)
LEMMA MarkStep ==
  ASSUME NEW R, NEW rec, MayBecome(R, rec), NEW ids
  PROVE  /\ MayBecome(Mark(R, ids), rec)
         /\ DOMAIN Mark(R, ids) = DOMAIN R
         /\ \A id \in DOMAIN R : SameVersions(Mark(R, ids)[id], R[id])
<1> DEFINE M == Mark(R, ids)
<1>1. /\ DOMAIN M = DOMAIN R /\ IsTable(M)
      /\ \A id \in DOMAIN R :
           M[id] = IF id \in ids THEN Scheduled(R[id]) ELSE R[id]
  BY DEF Mark, Scheduled, IsTable
<1> HIDE DEF M
<1>2. ASSUME NEW id \in DOMAIN R
      PROVE  RowSound(id, M[id]) /\ VersionsOf(M[id]) = VersionsOf(R[id]) /\ SameVersions(M[id], R[id])
  <2>1. RowSound(id, R[id])
    BY DEF MayBecome
  <2>2. CASE id \in ids
    BY <1>1, <2>1, <2>2, ScheduledSound
  <2>3. CASE id \notin ids
    BY <1>1, <2>1, <2>3 DEF SameVersions
  <2> QED
    BY <2>2, <2>3
<1>3. MayBecome(M, rec)
  <2>1. \A id \in RowId : id.round <= round[id.request] =>
          /\ id \in DOMAIN M <=> id \in DOMAIN rows
          /\ id \in DOMAIN rows => M[id].original = rows[id].original
    BY <1>1, <1>2 DEF MayBecome, SameVersions
  <2>2. \A id \in DOMAIN M :
          /\ RowSound(id, M[id])
          /\ VersionsOf(M[id]) \subseteq rec
          /\ M[id].log # <<>> => id.round <= round[id.request]
    BY <1>1, <1>2 DEF MayBecome, SameVersions
  <2> QED
    BY <1>1, <2>1, <2>2 DEF MayBecome
<1> QED
  BY <1>1, <1>2, <1>3 DEF M

(* The requester's set of a round that was not sent *)
LEMMA SetFilesStep ==
  ASSUME Inv, NEW r \in Request, NEW n \in 1..MaxRound, n > round[r],
         NEW files \in SUBSET Key, \A k \in files : ~k.made,
         NEW rec, recorded \cup files \subseteq rec
  PROVE  /\ MayBecome(SetFiles(r, n, files), rec)
         /\ \A x \in DOMAIN SetFiles(r, n, files) : x \in DOMAIN rows \/ (x.request = r /\ x.round = n)
<1> DEFINE id(k) == [request |-> r, round |-> n, doc |-> k.doc]
           rest == { x \in DOMAIN rows : ~(x.request = r /\ x.round = n) }
           of(x) == CHOOSE k \in files : id(k) = x
           R == SetFiles(r, n, files)
<1>1. /\ DOMAIN R = rest \cup { id(k) : k \in files } /\ IsTable(R)
      /\ \A x \in DOMAIN R :
           R[x] = IF x \in rest \/ (x \in DOMAIN rows /\ rows[x].original \in files) THEN rows[x]
                  ELSE NewRow(of(x))
  BY DEF SetFiles, IsTable
<1>2. \A k \in files : id(k) \in RowId
  BY DEF RowId, Key
<1>3. \A x \in { id(k) : k \in files } : of(x) \in files /\ of(x).doc = x.doc
  OBVIOUS
<1>4. DOMAIN rows \subseteq RowId /\ round \in [Request -> 0..MaxRound]
  BY DEF Inv, DocTypeOK
<1>5. \A x \in { id(k) : k \in files } : x.request = r /\ x.round = n
  OBVIOUS
<1> HIDE DEF R, of
<1>6. ASSUME NEW x \in DOMAIN R
      PROVE  /\ RowSound(x, R[x])
             /\ VersionsOf(R[x]) \subseteq rec
             /\ R[x].log # <<>> => x.round <= round[x.request]
  <2>1. CASE x \in DOMAIN rows /\ R[x] = rows[x]
    BY <2>1 DEF Inv, RowsAreSound
  <2>2. CASE x \in { id(k) : k \in files } /\ R[x] = NewRow(of(x))
    BY <2>2, <1>3, NewRowSound
  <2> QED
    BY <1>1, <2>1, <2>2
<1>7. ASSUME NEW x \in RowId, x.round <= round[x.request]
      PROVE  /\ x \in DOMAIN R <=> x \in DOMAIN rows
             /\ x \in DOMAIN rows => R[x].original = rows[x].original
  <2>1. ~(x.request = r /\ x.round = n)
    BY <1>4, <1>7
  <2>2. x \notin { id(k) : k \in files }
    BY <2>1, <1>5
  <2> QED
    BY <1>1, <2>1, <2>2
<1>8. \A x \in DOMAIN R : x \in DOMAIN rows \/ (x.request = r /\ x.round = n)
  BY <1>1, <1>5
<1>9. DOMAIN R \subseteq RowId
  BY <1>1, <1>2, <1>4
<1> QED
  BY <1>1, <1>6, <1>7, <1>8, <1>9 DEF MayBecome, R

LEMMA CopyKeyType ==
  ASSUME NEW r \in Request, NEW n \in 1..MaxRound, NEW ids \in SUBSET RowId, CopiesPossible(r, n, ids)
  PROVE  \A id \in ids :
           /\ CopyKey(r, n, id) \in Key /\ CopyKey(r, n, id).doc = id.doc /\ ~CopyKey(r, n, id).made
           /\ CopyKey(r, n, [request |-> r, round |-> n, doc |-> id.doc]) = CopyKey(r, n, id)
<1> SUFFICES ASSUME NEW id \in ids
             PROVE  /\ CopyKey(r, n, id) \in Key /\ CopyKey(r, n, id).doc = id.doc
                    /\ ~CopyKey(r, n, id).made
                    /\ CopyKey(r, n, [request |-> r, round |-> n, doc |-> id.doc]) = CopyKey(r, n, id)
  OBVIOUS
<1> DEFINE to == [request |-> r, round |-> n, doc |-> id.doc]
<1>1. NewKeys(to, FALSE) # {}
  BY DEF CopiesPossible
<1>2. to \in RowId /\ to.doc = id.doc
  BY DEF RowId
<1>3. CopyKey(r, n, id) = First(NewKeys(to, FALSE)) /\ CopyKey(r, n, to) = CopyKey(r, n, id)
  BY DEF CopyKey
<1>4. First(NewKeys(to, FALSE)) \in Key /\ First(NewKeys(to, FALSE)).doc = to.doc
      /\ First(NewKeys(to, FALSE)).made = FALSE
  <2> HIDE DEF to
  <2> QED
    BY <1>1, <1>2, FirstKey
<1> QED
  BY <1>2, <1>3, <1>4

CopyKeys(r, n, ids) == { CopyKey(r, n, id) : id \in ids }

LEMMA CopyKeysType ==
  ASSUME Inv, NEW r \in Request, NEW n \in 1..MaxRound,
         NEW ids \in SUBSET DOMAIN rows, CopiesPossible(r, n, ids)
  PROVE  CopyKeys(r, n, ids) \in SUBSET Key /\ \A k \in CopyKeys(r, n, ids) : ~k.made
<1>1. ids \in SUBSET RowId
  BY DEF Inv, DocTypeOK
<1>2. \A id \in ids : CopyKey(r, n, id) \in Key /\ ~CopyKey(r, n, id).made
  BY <1>1, CopyKeyType
<1> QED
  BY <1>2 DEF CopyKeys

(* Copies for a round that was not sent *)
LEMMA CopyStep ==
  ASSUME Inv, NEW r \in Request, NEW n \in 1..MaxRound, n > round[r],
         NEW ids \in SUBSET DOMAIN rows, CopiesPossible(r, n, ids),
         NEW rec, recorded \cup CopyKeys(r, n, ids) \subseteq rec
  PROVE  /\ MayBecome(Put(rows, CopyRows(r, n, ids)), rec)
         /\ DOMAIN Put(rows, CopyRows(r, n, ids)) = DOMAIN rows \cup DOMAIN CopyRows(r, n, ids)
         /\ \A x \in DOMAIN CopyRows(r, n, ids) :
              /\ x.request = r /\ x.round = n /\ x \in RowId
              /\ Put(rows, CopyRows(r, n, ids))[x].original.doc = x.doc
<1> DEFINE to(id) == [request |-> r, round |-> n, doc |-> id.doc]
           C == CopyRows(r, n, ids)
           R == Put(rows, C)
<1>1. DOMAIN rows \subseteq RowId /\ round \in [Request -> 0..MaxRound]
  BY DEF Inv, DocTypeOK
<1>2. \A id \in ids : to(id) \in RowId
  BY <1>1 DEF RowId
<1>3. ASSUME NEW id \in ids
      PROVE  /\ CopyKey(r, n, id) \in Key /\ CopyKey(r, n, id).doc = id.doc /\ ~CopyKey(r, n, id).made
             /\ CopyKey(r, n, to(id)) = CopyKey(r, n, id)
  BY <1>1, CopyKeyType
<1>4. DOMAIN C = { to(id) : id \in ids } /\ \A x \in DOMAIN C : C[x] = NewRow(CopyKey(r, n, x))
  BY DEF CopyRows
<1> HIDE DEF C
<1>5. /\ DOMAIN R = DOMAIN rows \cup DOMAIN C /\ IsTable(R)
      /\ \A x \in DOMAIN R : R[x] = IF x \in DOMAIN C THEN C[x] ELSE rows[x]
  <2>1. DOMAIN R = DOMAIN rows \cup DOMAIN C
    BY PutType
  <2>2. IsTable(R)
    BY PutType
  <2>3. \A x \in DOMAIN rows \cup DOMAIN C : R[x] = IF x \in DOMAIN C THEN C[x] ELSE rows[x]
    BY PutType
  <2> HIDE DEF R
  <2> QED
    BY <2>1, <2>2, <2>3
<1>6. \A x \in DOMAIN C : x.request = r /\ x.round = n /\ x \in RowId
  BY <1>2, <1>4
<1> HIDE DEF C, R
<1>7. ASSUME NEW x \in DOMAIN C
      PROVE  RowSound(x, C[x]) /\ VersionsOf(C[x]) \subseteq rec /\ C[x].log = <<>>
  <2>1. PICK id \in ids : x = to(id)
    BY <1>4
  <2>2. CopyKey(r, n, x) = CopyKey(r, n, id) /\ x.doc = id.doc
    BY <2>1, <1>3
  <2>5. CopyKey(r, n, id) \in rec
    BY DEF CopyKeys
  <2>3. CopyKey(r, n, x) \in Key /\ ~CopyKey(r, n, x).made /\ CopyKey(r, n, x).doc = x.doc
    BY <2>2, <1>3
  <2>4. CopyKey(r, n, x) \in rec
    BY <2>2, <2>5
  <2> QED
    BY <2>3, <2>4, <1>4, NewRowSound
<1>8. ASSUME NEW x \in DOMAIN R
      PROVE  /\ RowSound(x, R[x])
             /\ VersionsOf(R[x]) \subseteq rec
             /\ R[x].log # <<>> => x.round <= round[x.request]
  <2>1. CASE x \in DOMAIN C
    BY <2>1, <1>5, <1>7
  <2>2. CASE x \notin DOMAIN C
    BY <2>2, <1>5 DEF Inv, RowsAreSound
  <2> QED
    BY <2>1, <2>2
<1>9. ASSUME NEW x \in RowId, x.round <= round[x.request]
      PROVE  /\ x \in DOMAIN R <=> x \in DOMAIN rows
             /\ x \in DOMAIN rows => R[x].original = rows[x].original
  <2>1. ~(x.request = r /\ x.round = n)
    BY <1>1, <1>9
  <2>2. x \notin DOMAIN C
    BY <2>1, <1>6
  <2> QED
    BY <1>5, <2>2
<1>10. DOMAIN R \subseteq RowId
  BY <1>1, <1>5, <1>6
<1>11. MayBecome(R, rec)
  BY <1>5, <1>8, <1>9, <1>10 DEF MayBecome
<1>12. \A x \in DOMAIN C : R[x].original.doc = x.doc
  BY <1>5, <1>7 DEF RowSound
<1> QED
  BY <1>3, <1>5, <1>6, <1>11, <1>12 DEF R, C

-----------------------------------------------------------------------------
(* The signing box: documents are converted, then signed                    *)

LEMMA KeysLeftType ==
  ASSUME NEW ids \in SUBSET RowId, KeysLeft(ids, 1)
  PROVE  \A id \in ids : NewKeys(id, TRUE) # {}
<1> SUFFICES ASSUME NEW id \in ids, NewKeys(id, TRUE) = {} PROVE FALSE
  OBVIOUS
<1> DEFINE n == Cardinality(NewKeys(id, TRUE))
<1>1. n >= 1
  BY DEF KeysLeft
<1>2. n = 0
  BY FS_EmptySet
<1> HIDE DEF n
<1> QED
  BY <1>1, <1>2

LEMMA DocumentsType ==
  ASSUME Inv, NEW r \in Request
  PROVE  /\ Documents(r) \subseteq DOMAIN rows /\ ToConvert(r) \subseteq Documents(r)
         /\ DOMAIN rows \subseteq RowId
         /\ \A id \in Documents(r) : id.request = r /\ id.round = round[r] /\ id.doc \notin Plain
         /\ \A id \in ToConvert(r) : needsConversion(rows[id])
  BY DEF Inv, DocTypeOK, Documents, ToConvert, RowsOf

LEMMA ConvertStep ==
  ASSUME Inv, NEW r \in Request, KeysLeft(ToConvert(r), 1),
         NEW rec, recorded \cup { convertKey(id) : id \in ToConvert(r) } \subseteq rec
  PROVE  /\ MayBecome(convertDocuments(r), rec)
         /\ DOMAIN convertDocuments(r) = DOMAIN rows
         /\ \A id \in Documents(r) : isPdf(convertDocuments(r)[id].current)
         /\ \A id \in ToConvert(r) : convertKey(id) \in Key /\ convertKey(id).made = TRUE
<1> DEFINE C == [id \in ToConvert(r) |-> markConverted(rows[id], convertKey(id))]
           R == Put(rows, C)
<1>1. R = convertDocuments(r)
  BY DEF convertDocuments
<1>2. /\ Documents(r) \subseteq DOMAIN rows /\ ToConvert(r) \subseteq Documents(r)
      /\ DOMAIN rows \subseteq RowId /\ round \in [Request -> 0..MaxRound]
      /\ \A id \in Documents(r) : id.request = r /\ id.round = round[r] /\ id.doc \notin Plain
      /\ \A id \in ToConvert(r) : needsConversion(rows[id])
  BY DocumentsType DEF Inv, DocTypeOK
<1>3. ASSUME NEW id \in ToConvert(r)
      PROVE  convertKey(id) \in Key /\ convertKey(id).made = TRUE /\ convertKey(id).doc = id.doc
  <2>1. id \in RowId /\ NewKeys(id, TRUE) # {}
    <3>1. ToConvert(r) \in SUBSET RowId
      BY <1>2
    <3> QED
      BY <3>1, KeysLeftType
  <2> QED
    BY <2>1, FirstKey DEF convertKey
<1>4. DOMAIN C = ToConvert(r) /\ \A id \in ToConvert(r) : C[id] = markConverted(rows[id], convertKey(id))
  OBVIOUS
<1> HIDE DEF C
<1>5. IsTable(R) /\ DOMAIN R = DOMAIN rows \cup DOMAIN C
  BY PutType
<1>6. \A id \in DOMAIN rows \cup DOMAIN C : R[id] = IF id \in DOMAIN C THEN C[id] ELSE rows[id]
  BY PutType
<1> HIDE DEF R
<1>7. DOMAIN R = DOMAIN rows
  BY <1>2, <1>4, <1>5
<1>8. ASSUME NEW id \in DOMAIN rows
      PROVE  /\ RowSound(id, R[id])
             /\ VersionsOf(R[id]) \subseteq rec
             /\ R[id].log # <<>> => id.round <= round[id.request]
             /\ R[id].original = rows[id].original
             /\ id \in Documents(r) => isPdf(R[id].current)
  <2>1. /\ RowSound(id, rows[id]) /\ VersionsOf(rows[id]) \subseteq recorded
        /\ rows[id].log # <<>> => id.round <= round[id.request]
    BY DEF Inv, RowsAreSound
  <2>2. CASE id \in ToConvert(r)
    <3>1. R[id] = markConverted(rows[id], convertKey(id)) /\ needsConversion(rows[id])
      BY <2>2, <1>2, <1>4, <1>6
    <3>2. /\ RowSound(id, R[id]) /\ VersionsOf(R[id]) \subseteq VersionsOf(rows[id]) \cup {convertKey(id)}
          /\ R[id].original = rows[id].original /\ R[id].current = convertKey(id)
      <4>1. convertKey(id) \in Key /\ convertKey(id).made /\ convertKey(id).doc = id.doc
        BY <2>2, <1>3
      <4> QED
        BY <2>1, <3>1, <4>1, ConvertedSound
    <3>3. id.round <= round[id.request]
      BY <2>2, <1>2
    <3>4. isPdf(R[id].current)
      BY <2>2, <3>2, <1>3 DEF isPdf
    <3>5. convertKey(id) \in rec
      BY <2>2
    <3> QED
      BY <2>1, <3>2, <3>3, <3>4, <3>5
  <2>3. CASE id \notin ToConvert(r)
    <3>1. R[id] = rows[id]
      BY <2>3, <1>4, <1>6
    <3>2. ASSUME id \in Documents(r) PROVE isPdf(R[id].current)
      <4>1. ~needsConversion(rows[id]) /\ id.doc \in Doc \ Plain
        BY <2>3, <3>2, <1>2 DEF ToConvert, RowId
      <4> QED
        BY <2>1, <3>1, <4>1 DEF needsConversion, isPdf, Doc, RowSound
    <3> QED
      BY <2>1, <3>1, <3>2
  <2> QED
    BY <2>2, <2>3
<1>9. MayBecome(R, rec)
  BY <1>2, <1>5, <1>7, <1>8 DEF MayBecome
<1> QED
  BY <1>1, <1>2, <1>3, <1>7, <1>8, <1>9

(* What Sign makes of the rows                                               *)
SignKey(r, id) == IF id \in ToConvert(r) THEN Second(NewKeys(id, TRUE)) ELSE First(NewKeys(id, TRUE))
SignedRows(r) ==
  Put(convertDocuments(r), [id \in Documents(r) |-> Signed(convertDocuments(r)[id], SignKey(r, id))])
SignKeys(r) == { convertKey(id) : id \in ToConvert(r) } \cup { SignKey(r, id) : id \in Documents(r) }

LEMMA SignStep ==
  ASSUME Inv, NEW r \in Request, KeysLeft(ToConvert(r), 2), KeysLeft(Documents(r), 1)
  PROVE  /\ MayBecome(SignedRows(r), recorded \cup SignKeys(r))
         /\ DOMAIN SignedRows(r) = DOMAIN rows
         /\ SignKeys(r) \subseteq { k \in Key : k.made = TRUE }
<1> DEFINE ready == convertDocuments(r)
           S == [id \in Documents(r) |-> Signed(ready[id], SignKey(r, id))]
           R == SignedRows(r)
           rec == recorded \cup SignKeys(r)
<1>1. /\ Documents(r) \subseteq DOMAIN rows /\ ToConvert(r) \subseteq Documents(r)
      /\ DOMAIN rows \subseteq RowId /\ round \in [Request -> 0..MaxRound]
      /\ \A id \in Documents(r) : id.request = r /\ id.round = round[r]
  BY DocumentsType DEF Inv, DocTypeOK
<1>2. KeysLeft(ToConvert(r), 1)
  <2>1. ASSUME NEW id \in ToConvert(r) PROVE Cardinality(NewKeys(id, TRUE)) >= 1
    <3>1. Cardinality(NewKeys(id, TRUE)) >= 2
      BY DEF KeysLeft
    <3>2. Cardinality(NewKeys(id, TRUE)) \in Nat
      BY <1>1, NewKeysType, FS_CardinalityType
    <3> DEFINE n == Cardinality(NewKeys(id, TRUE))
    <3>3. n >= 2 /\ n \in Nat
      BY <3>1, <3>2
    <3> HIDE DEF n
    <3>4. n >= 1
      BY <3>3
    <3> QED
      BY <3>4 DEF n
  <2> QED
    BY <2>1 DEF KeysLeft
<1>3. recorded \cup { convertKey(id) : id \in ToConvert(r) } \subseteq rec
  BY DEF SignKeys
<1>4. /\ MayBecome(ready, rec) /\ DOMAIN ready = DOMAIN rows
      /\ \A id \in Documents(r) : isPdf(ready[id].current)
      /\ \A id \in ToConvert(r) : convertKey(id) \in Key /\ convertKey(id).made = TRUE
  <2> HIDE DEF rec
  <2> QED
    BY <1>2, <1>3, ConvertStep
<1>5. ASSUME NEW id \in Documents(r)
      PROVE  SignKey(r, id) \in Key /\ SignKey(r, id).made = TRUE /\ SignKey(r, id).doc = id.doc
  <2>1. id \in RowId /\ NewKeys(id, TRUE) # {}
    <3>1. Documents(r) \in SUBSET RowId
      BY <1>1
    <3> QED
      BY <3>1, KeysLeftType
  <2>2. CASE id \in ToConvert(r)
    <3>1. Cardinality(NewKeys(id, TRUE)) >= 2
      BY <2>2 DEF KeysLeft
    <3>2. SignKey(r, id) \in NewKeys(id, TRUE)
      BY <2>1, <2>2, <3>1, SecondKey DEF SignKey
    <3> QED
      BY <2>1, <3>2, NewKeysType
  <2>3. CASE id \notin ToConvert(r)
    BY <2>1, <2>3, FirstKey DEF SignKey
  <2> QED
    BY <2>2, <2>3
<1>6. DOMAIN S = Documents(r) /\ \A id \in Documents(r) : S[id] = Signed(ready[id], SignKey(r, id))
  OBVIOUS
<1>7. R = Put(ready, S)
  BY DEF SignedRows
<1> HIDE DEF S, R, ready
<1>8. IsTable(R) /\ DOMAIN R = DOMAIN ready \cup DOMAIN S
  BY <1>7, PutType
<1>9. \A id \in DOMAIN ready \cup DOMAIN S : R[id] = IF id \in DOMAIN S THEN S[id] ELSE ready[id]
  BY <1>7, PutType
<1>10. DOMAIN R = DOMAIN rows
  BY <1>1, <1>4, <1>6, <1>8
<1>11. ASSUME NEW id \in DOMAIN rows
       PROVE  /\ RowSound(id, R[id])
              /\ VersionsOf(R[id]) \subseteq rec
              /\ R[id].log # <<>> => id.round <= round[id.request]
              /\ R[id].original = ready[id].original
  <2>1. /\ RowSound(id, ready[id]) /\ VersionsOf(ready[id]) \subseteq rec
        /\ ready[id].log # <<>> => id.round <= round[id.request]
    BY <1>4 DEF MayBecome
  <2>2. CASE id \in Documents(r)
    <3>1. R[id] = Signed(ready[id], SignKey(r, id)) /\ isPdf(ready[id].current)
      BY <2>2, <1>4, <1>6, <1>9
    <3>2. /\ RowSound(id, R[id]) /\ VersionsOf(R[id]) \subseteq VersionsOf(ready[id]) \cup {SignKey(r, id)}
          /\ R[id].original = ready[id].original
      <4>1. SignKey(r, id) \in Key /\ SignKey(r, id).made /\ SignKey(r, id).doc = id.doc
        BY <2>2, <1>5
      <4> QED
        BY <2>1, <3>1, <4>1, SignedSound
    <3>3. id.round <= round[id.request]
      BY <2>2, <1>1
    <3>4. SignKey(r, id) \in rec
      BY <2>2 DEF SignKeys
    <3> QED
      BY <2>1, <3>2, <3>3, <3>4
  <2>3. CASE id \notin Documents(r)
    <3>1. R[id] = ready[id]
      BY <2>3, <1>4, <1>6, <1>9
    <3> QED
      BY <2>1, <3>1
  <2> QED
    BY <2>2, <2>3
<1>12. MayBecome(R, rec)
  <2> HIDE DEF rec
  <2>1. \A id \in RowId : id.round <= round[id.request] =>
          /\ id \in DOMAIN R <=> id \in DOMAIN rows
          /\ id \in DOMAIN rows => R[id].original = rows[id].original
    BY <1>4, <1>10, <1>11 DEF MayBecome
  <2> QED
    BY <1>1, <1>8, <1>10, <1>11, <2>1 DEF MayBecome
<1>13. SignKeys(r) \subseteq { k \in Key : k.made = TRUE }
  BY <1>4, <1>5 DEF SignKeys
<1> QED
  BY <1>10, <1>12, <1>13 DEF R

-----------------------------------------------------------------------------
(* The background conversion: results are attached                          *)

LEMMA WorkerType ==
  ASSUME Inv, NEW w \in Worker
  PROVE  /\ worker[w].todo \subseteq Request /\ worker[w].request \in Request \cup {None}
         /\ worker[w].ids \subseteq RowId /\ worker[w].results \subseteq [id : RowId, key : Key]
         /\ worker[w].orphans \subseteq Key
         /\ \A id \in worker[w].ids : id.request = worker[w].request
         /\ \A x \in worker[w].results :
              x.id \in worker[w].ids /\ x.key \in Key /\ x.key.made /\ x.key.doc = x.id.doc
<1>1. worker[w] \in Working \cup {Idle}
  BY DEF Inv, DocTypeOK
<1>2. /\ worker[w].todo \subseteq Request /\ worker[w].request \in Request \cup {None}
      /\ worker[w].ids \subseteq RowId /\ worker[w].results \subseteq [id : RowId, key : Key]
      /\ worker[w].orphans \subseteq Key
  BY <1>1 DEF Working, Idle
<1>3. \A x \in worker[w].results : x.key \in Key
  BY <1>2
<1> QED
  BY <1>2, <1>3 DEF Inv, WorkersMakePdfs

Keys(X) == { x.key : x \in X }
Useful(w) == { x \in worker[w].results : stillNeeded(worker[w].request, x.id) }
Converted(w) == { x.id : x \in Useful(w) }
NotConverted(w) ==
  { id \in worker[w].ids : (\A x \in worker[w].results : x.id # id) /\ stillNeeded(worker[w].request, id) }
AttachedRows(w) ==
  [id \in DOMAIN rows |->
     IF id \in Converted(w) THEN markConverted(rows[id], (CHOOSE x \in Useful(w) : x.id = id).key)
     ELSE IF id \in NotConverted(w) THEN markFailedAttempt(rows[id]) ELSE rows[id]]

LEMMA AttachStep ==
  ASSUME Inv, NEW w \in Worker
  PROVE  /\ MayBecome(AttachedRows(w), recorded \cup Keys(Useful(w)))
         /\ DOMAIN AttachedRows(w) = DOMAIN rows
<1> DEFINE R == AttachedRows(w)
           rec == recorded \cup Keys(Useful(w))
           result(id) == CHOOSE x \in Useful(w) : x.id = id
<1>1. /\ IsTable(R) /\ DOMAIN R = DOMAIN rows
      /\ \A id \in DOMAIN rows :
           R[id] = IF id \in Converted(w) THEN markConverted(rows[id], result(id).key)
                   ELSE IF id \in NotConverted(w) THEN markFailedAttempt(rows[id]) ELSE rows[id]
  BY DEF AttachedRows, IsTable
<1>2. \A id \in Converted(w) : result(id) \in Useful(w) /\ result(id).id = id
  BY DEF Converted
<1> HIDE DEF R, result
<1>3. ASSUME NEW id \in DOMAIN rows
      PROVE  /\ RowSound(id, R[id])
             /\ VersionsOf(R[id]) \subseteq rec
             /\ R[id].log # <<>> => id.round <= round[id.request]
             /\ R[id].original = rows[id].original
  <2>1. /\ RowSound(id, rows[id]) /\ VersionsOf(rows[id]) \subseteq recorded
        /\ rows[id].log # <<>> => id.round <= round[id.request]
    BY DEF Inv, RowsAreSound
  <2>2. CASE id \in Converted(w)
    <3> DEFINE k == result(id).key
    <3>1. result(id) \in worker[w].results /\ stillNeeded(worker[w].request, id) /\ result(id).id = id
      BY <2>2, <1>2 DEF Useful
    <3>2. k \in Key /\ k.made /\ k.doc = id.doc /\ id.request = worker[w].request
      BY <3>1, WorkerType
    <3>3. R[id] = markConverted(rows[id], k) /\ k \in rec
      BY <2>2, <1>1, <1>2 DEF Keys
    <3>4. needsConversion(rows[id]) /\ round[id.request] = id.round
      BY <3>1, <3>2 DEF stillNeeded
    <3> HIDE DEF k, rec
    <3>5. /\ RowSound(id, R[id]) /\ VersionsOf(R[id]) \subseteq VersionsOf(rows[id]) \cup {k}
          /\ R[id].original = rows[id].original
      BY <2>1, <3>2, <3>3, <3>4, ConvertedSound
    <3>6. id.round <= round[id.request]
      <4>1. id \in RowId
        BY DEF Inv, DocTypeOK
      <4> QED
        BY <3>4, <4>1 DEF RowId
    <3> QED
      BY <2>1, <3>3, <3>5, <3>6 DEF rec
  <2>3. CASE id \notin Converted(w) /\ id \in NotConverted(w)
    <3>1. R[id] = markFailedAttempt(rows[id])
      BY <2>3, <1>1
    <3> QED
      BY <2>1, <3>1, FailedSound DEF SameVersions
  <2>4. CASE id \notin Converted(w) /\ id \notin NotConverted(w)
    BY <2>1, <2>4, <1>1
  <2> QED
    BY <2>2, <2>3, <2>4
<1>4. MayBecome(R, rec)
  <2> HIDE DEF rec
  <2>1. \A id \in RowId : id.round <= round[id.request] =>
          /\ id \in DOMAIN R <=> id \in DOMAIN rows
          /\ id \in DOMAIN rows => R[id].original = rows[id].original
    BY <1>1, <1>3
  <2>2. DOMAIN rows \subseteq RowId
    BY DEF Inv, DocTypeOK
  <2> QED
    BY <1>1, <1>3, <2>1, <2>2 DEF MayBecome
<1> QED
  BY <1>1, <1>4 DEF R

-----------------------------------------------------------------------------
(* What every step does: types, tables, and the parts of the invariant      *)

EditorType == [Editor -> [request : Request \cup {None}, round : 0..MaxRound, current : BOOLEAN]]

StateTypeOK ==
  /\ phase \in [Request -> {"none", "draft", "pending", "returned", "closed", "deleted"}]
  /\ round \in [Request -> 0..MaxRound]
  /\ step \in [Request -> Nat]
  /\ atSignature \in [Request -> BOOLEAN]
  /\ recorded \subseteq Key /\ lost \subseteq recorded
  /\ due \subseteq RowId /\ older \subseteq RowId \X RowId
  /\ locks \subseteq RowId \X (Worker \cup {None})
  /\ editor \in EditorType
  /\ worker \in [Worker -> Working \cup {Idle}]
  /\ cleaning \subseteq [keys : SUBSET Key, checked : BOOLEAN]
  /\ faults \in 0..MaxFaults

RoundsGoUp == \A r \in Request : round[r] <= round'[r]

StepOK ==
  /\ StateTypeOK'
  /\ MayBecome(rows', recorded')
  /\ RoundsGoUp
  /\ RoundsInTurn' /\ OpenCopies' /\ WorkersMakePdfs' /\ CleaningSpares' /\ VersionsAreStored'

LEMMA StateType ==
  ASSUME Inv
  PROVE  StateTypeOK
  BY DEF Inv, DocTypeOK, StateTypeOK, EditorType

LEMMA StepKeepsInv ==
  ASSUME Inv, StepOK
  PROVE  Inv'
<1>1. /\ DOMAIN rows' \subseteq RowId /\ IsTable(rows')
      /\ \A id \in DOMAIN rows' :
           /\ RowSound(id, rows'[id])
           /\ VersionsOf(rows'[id]) \subseteq recorded'
           /\ rows'[id].log # <<>> => id.round <= round[id.request]
  BY DEF StepOK, MayBecome
<1>2. rows' \in [DOMAIN rows' -> Row]
  <2>1. \A id \in DOMAIN rows' : rows'[id] \in Row
    BY <1>1 DEF RowSound
  <2> QED
    BY <1>1, <2>1 DEF IsTable
<1>3. \A id \in DOMAIN rows' : rows'[id].convert = "failed" => rows'[id].attempts >= MaxAttempts
  BY <1>1 DEF RowSound
<1>4. DocTypeOK'
  BY <1>1, <1>2, <1>3 DEF StepOK, StateTypeOK, DocTypeOK, EditorType
<1>5. RowsAreSound'
  <2>1. ASSUME NEW id \in DOMAIN rows', rows'[id].log # <<>>
        PROVE  id.round <= round'[id.request]
    <3>1. id.round <= round[id.request]
      BY <1>1, <2>1
    <3>2. id.request \in Request /\ id.round \in Nat
      BY <1>1 DEF RowId
    <3>3. round[id.request] \in Nat /\ round'[id.request] \in Nat
      BY <3>2 DEF StepOK, StateTypeOK, Inv, DocTypeOK
    <3>4. round[id.request] <= round'[id.request]
      BY <3>2 DEF StepOK, RoundsGoUp
    <3> QED
      BY <3>1, <3>2, <3>3, <3>4
  <2> QED
    BY <1>1, <2>1 DEF RowsAreSound
<1> QED
  BY <1>4, <1>5 DEF Inv, StepOK

(* Nothing the requester or the engine writes                                *)
LEMMA RequestAlone ==
  ASSUME Inv, UNCHANGED <<phase, round, step, atSignature, rows, recorded>>
  PROVE  MayBecome(rows', recorded') /\ RoundsGoUp /\ RoundsInTurn'
<1>1. MayBecome(rows', recorded')
  BY TheSameRows
<1>2. RoundsGoUp
  <2>1. \A r \in Request : round[r] \in Nat
    BY DEF Inv, DocTypeOK
  <2> QED
    BY <2>1 DEF RoundsGoUp
<1>3. RoundsInTurn'
  BY DEF Inv, RoundsInTurn, Ahead
<1> QED
  BY <1>1, <1>2, <1>3

LEMMA TabsAlone ==
  ASSUME Inv, UNCHANGED editor,
         \A q \in Request : phase[q] \in {"draft", "returned"} => phase'[q] = phase[q] /\ round'[q] = round[q]
  PROVE  OpenCopies'
  BY DEF Inv, OpenCopies

(* Who writes the request row leaves no current copy of it *)
LEMMA TabsTouched ==
  ASSUME Inv, NEW r \in Request, Touch(r),
         \A q \in Request \ {r} : phase'[q] = phase[q] /\ round'[q] = round[q]
  PROVE  OpenCopies' /\ editor' \in EditorType
<1>1. editor \in EditorType
  BY StateType DEF StateTypeOK
<1>2. ASSUME NEW e \in Editor
      PROVE  /\ editor'[e] \in [request : Request \cup {None}, round : 0..MaxRound, current : BOOLEAN]
             /\ editor'[e].current => editor'[e] = editor[e] /\ editor[e].request # r
  <2>1. CASE editor[e].request = r
    BY <2>1, <1>1 DEF Touch, EditorType
  <2>2. CASE editor[e].request # r
    BY <2>2, <1>1 DEF Touch, EditorType
  <2> QED
    BY <2>1, <2>2
<1>3. editor' \in EditorType
  BY <1>2 DEF Touch, EditorType
<1>4. OpenCopies'
  BY <1>2 DEF Inv, OpenCopies
<1> QED
  BY <1>3, <1>4

LEMMA WorkersAlone ==
  ASSUME Inv, UNCHANGED worker
  PROVE  WorkersMakePdfs'
  BY DEF Inv, WorkersMakePdfs

LEMMA CleaningAlone ==
  ASSUME Inv, UNCHANGED <<cleaning, faults, lost>>
  PROVE  CleaningSpares' /\ VersionsAreStored'
  BY DEF Inv, CleaningSpares, VersionsAreStored

(* A schedule that loses some rows is a schedule *)
LEMMA NotDueType ==
  ASSUME Inv, NEW ids, NotDue(ids)
  PROVE  due' \subseteq RowId /\ older' \subseteq RowId \X RowId
  BY DEF Inv, DocTypeOK, NotDue

LEMMA ArriveStep ==
  ASSUME Inv, NEW r \in Request, NEW R, NEW rec, MayBecome(R, rec), NEW done, Arrive(r, R, done)
  PROVE  /\ MayBecome(rows', rec) /\ DOMAIN rows' = DOMAIN R
         /\ \A id \in DOMAIN R : SameVersions(rows'[id], R[id])
         /\ phase' \in [Request -> {"none", "draft", "pending", "returned", "closed", "deleted"}]
         /\ phase'[r] \in {"closed", "pending"}
         /\ \A q \in Request \ {r} : phase'[q] = phase[q]
         /\ atSignature' \in [Request -> BOOLEAN]
         /\ due' \subseteq RowId /\ older' \subseteq RowId \X RowId
<1>0. /\ phase \in [Request -> {"none", "draft", "pending", "returned", "closed", "deleted"}]
      /\ atSignature \in [Request -> BOOLEAN]
  BY DEF Inv, DocTypeOK
<1>1. PICK stop \in {"signature", "plain", "end"} :
        LET ids == IF stop = "signature" THEN ToMark(R, r, round'[r]) ELSE {} IN
        /\ phase' = [phase EXCEPT ![r] = IF stop = "end" THEN "closed" ELSE "pending"]
        /\ atSignature' = [atSignature EXCEPT ![r] = stop = "signature"]
        /\ rows' = Mark(R, ids)
        /\ NotDue(ids \cup done)
  BY DEF Arrive
<1> DEFINE ids == IF stop = "signature" THEN ToMark(R, r, round'[r]) ELSE {}
<1>2. rows' = Mark(R, ids) /\ NotDue(ids \cup done)
  BY <1>1
<1>3. /\ phase' \in [Request -> {"none", "draft", "pending", "returned", "closed", "deleted"}]
      /\ phase'[r] \in {"closed", "pending"}
      /\ \A q \in Request \ {r} : phase'[q] = phase[q]
      /\ atSignature' \in [Request -> BOOLEAN]
  BY <1>0, <1>1
<1> HIDE DEF ids
<1>4. due' \subseteq RowId /\ older' \subseteq RowId \X RowId
  BY <1>2, NotDueType
<1>5. /\ MayBecome(rows', rec) /\ DOMAIN rows' = DOMAIN R
      /\ \A id \in DOMAIN R : SameVersions(rows'[id], R[id])
  BY <1>2, MarkStep
<1> QED
  BY <1>3, <1>4, <1>5

(* Keys are recorded, or kept for a clean-up, when a transaction ends        *)
LEMMA CommitsType ==
  ASSUME Inv, NEW K \in SUBSET Key, NEW checked \in BOOLEAN, ~checked => \A k \in K : ~k.made,
         Commits(K) \/ CommitsUnheard(K, checked)
  PROVE  /\ recorded' = recorded \cup K /\ recorded' \subseteq Key /\ lost' \subseteq recorded'
         /\ cleaning' \subseteq [keys : SUBSET Key, checked : BOOLEAN]
         /\ faults' \in 0..MaxFaults
         /\ CleaningSpares' /\ VersionsAreStored'
<1>1. /\ recorded \subseteq Key /\ lost \subseteq recorded /\ faults \in 0..MaxFaults
      /\ cleaning \subseteq [keys : SUBSET Key, checked : BOOLEAN] /\ MaxFaults \in Nat
  BY DocumentsAssumption DEF Inv, DocTypeOK
<1>2. CASE Commits(K)
  BY <1>1, <1>2, CleaningAlone DEF Commits
<1>3. CASE CommitsUnheard(K, checked)
  <2>1. /\ faults' = faults + 1 /\ faults < MaxFaults /\ lost' = lost /\ recorded' = recorded \cup K
        /\ cleaning' = cleaning \cup {[keys |-> K, checked |-> checked]}
    BY <1>3 DEF CommitsUnheard
  <2>2. faults' \in 0..MaxFaults /\ faults' > 0
    BY <1>1, <2>1
  <2>3. CleaningSpares'
    BY <2>1, <2>2 DEF Inv, CleaningSpares
  <2>4. VersionsAreStored'
    BY <2>1, <2>2 DEF Inv, VersionsAreStored
  <2> QED
    BY <1>1, <2>1, <2>2, <2>3, <2>4
<1> QED
  BY <1>2, <1>3

LEMMA RollsBackStep ==
  ASSUME Inv, NEW K \in SUBSET Key, NEW checked \in BOOLEAN, ~checked => \A k \in K : ~k.made,
         RollsBack(K, checked)
  PROVE  StepOK
<1>1. PICK made \in SUBSET K \ {{}} : cleaning' = cleaning \cup {[keys |-> made, checked |-> checked]}
  BY DEF RollsBack
<1>2. /\ UNCHANGED <<requestVars, rows, storeVars, scheduleVars, locks, editor, worker>>
      /\ faults < MaxFaults /\ faults' = faults + 1
  BY DEF RollsBack
<1>3. StateTypeOK /\ MaxFaults \in Nat
  BY StateType, DocumentsAssumption
<1>4. faults' \in 0..MaxFaults /\ faults' > 0
  BY <1>2, <1>3 DEF StateTypeOK
<1>5. StateTypeOK'
  BY <1>1, <1>2, <1>3, <1>4 DEF StateTypeOK, requestVars, storeVars, scheduleVars
<1>6. MayBecome(rows', recorded') /\ RoundsGoUp /\ RoundsInTurn'
  BY <1>2, RequestAlone DEF requestVars, storeVars
<1>7. OpenCopies' /\ WorkersMakePdfs'
  BY <1>2, TabsAlone, WorkersAlone DEF requestVars
<1>8. CleaningSpares'
  BY <1>1, <1>2, <1>4 DEF Inv, CleaningSpares
<1>9. VersionsAreStored'
  BY <1>2, <1>4 DEF Inv, VersionsAreStored, storeVars
<1> QED
  BY <1>5, <1>6, <1>7, <1>8, <1>9 DEF StepOK

-----------------------------------------------------------------------------
(* The requester                                                            *)

LEMMA UploadsType ==
  ASSUME NEW r \in Request, NEW n \in 1..MaxRound, recorded \subseteq Key
  PROVE  \A k \in Uploads(r) \cup UploadsTo(r, n) : k \in Key /\ ~k.made
<1>1. \A k \in Uploads(r) : k \in Key /\ ~k.made
  BY DEF Uploads
<1>2. \A k \in UploadsTo(r, n) : \E id \in RowId : NewKeys(id, FALSE) # {} /\ k = First(NewKeys(id, FALSE))
  BY DEF UploadsTo
<1>3. \A k \in UploadsTo(r, n) : k \in Key /\ k.made = FALSE
  BY <1>2, FirstKey
<1> QED
  BY <1>1, <1>3

LEMMA SaveFilesStep ==
  ASSUME Inv, NEW r \in Request, NEW n \in 1..MaxRound, n > round[r], SaveFiles(r, n)
  PROVE  /\ MayBecome(rows', recorded') /\ recorded' \subseteq Key /\ lost' = lost /\ lost' \subseteq recorded'
         /\ \A x \in DOMAIN rows' : x \in DOMAIN rows \/ (x.request = r /\ x.round = n)
<1>1. recorded \subseteq Key /\ lost \subseteq recorded
  BY DEF Inv, DocTypeOK
<1>2. PICK files \in SUBSET (Uploads(r) \cup UploadsTo(r, n)) :
        rows' = SetFiles(r, n, files) /\ recorded' = recorded \cup files /\ lost' = lost
  BY DEF SaveFiles
<1>3. files \in SUBSET Key /\ \A k \in files : ~k.made
  BY <1>1, UploadsType
<1>4. recorded \cup files \subseteq recorded'
  BY <1>2
<1>5. /\ MayBecome(SetFiles(r, n, files), recorded')
      /\ \A x \in DOMAIN SetFiles(r, n, files) : x \in DOMAIN rows \/ (x.request = r /\ x.round = n)
  BY <1>3, <1>4, SetFilesStep
<1> QED
  BY <1>1, <1>2, <1>3, <1>5

LEMMA CreateStep ==
  ASSUME Inv, NEW r \in Request, Create(r)
  PROVE  StepOK
<1>1. StateTypeOK
  BY StateType
<1>2. phase[r] = "none" /\ round[r] = 0 /\ draftRound(r) = 1 /\ 1 \in 1..MaxRound
  BY DocumentsAssumption DEF Create, Inv, RoundsInTurn, draftRound
<1>3. /\ SaveFiles(r, 1) /\ phase' = [phase EXCEPT ![r] = "draft"]
      /\ UNCHANGED <<round, step, atSignature, due, older, locks, editor, worker, cleaning, faults>>
  BY <1>2 DEF Create, scheduleVars
<1>4. /\ MayBecome(rows', recorded') /\ recorded' \subseteq Key /\ lost' = lost /\ lost' \subseteq recorded'
      /\ \A x \in DOMAIN rows' : x \in DOMAIN rows \/ (x.request = r /\ x.round = 1)
  BY <1>2, <1>3, SaveFilesStep
<1>5. StateTypeOK'
  BY <1>1, <1>3, <1>4 DEF StateTypeOK
<1>6. RoundsGoUp
  BY <1>1, <1>3 DEF RoundsGoUp, StateTypeOK
<1>7. RoundsInTurn'
  <2>1. \A q \in Request : phase'[q] = IF q = r THEN "draft" ELSE phase[q]
    BY <1>1, <1>3 DEF StateTypeOK
  <2>2. \A q \in Request : phase'[q] = "none" => round'[q] = 0
    BY <2>1, <1>3 DEF Inv, RoundsInTurn
  <2>3. ASSUME NEW x \in DOMAIN rows' PROVE x.round <= Ahead(x.request)'
    <3>1. x.request \in Request
      BY <1>4 DEF MayBecome, RowId
    <3>2. CASE x \in DOMAIN rows
      BY <3>1, <3>2, <2>1, <1>2, <1>3 DEF Inv, RoundsInTurn, Ahead
    <3>3. CASE x.request = r /\ x.round = 1
      BY <3>3, <2>1, <1>2, <1>3 DEF Ahead
    <3> QED
      BY <3>2, <3>3, <1>4
  <2> QED
    BY <2>2, <2>3 DEF RoundsInTurn
<1>8. OpenCopies'
  BY <1>1, <1>2, <1>3, TabsAlone DEF StateTypeOK
<1>9. WorkersMakePdfs' /\ CleaningSpares' /\ VersionsAreStored'
  BY <1>3, <1>4, WorkersAlone, CleaningAlone
<1> QED
  BY <1>4, <1>5, <1>6, <1>7, <1>8, <1>9 DEF StepOK

LEMMA EditWriteStep ==
  ASSUME Inv, NEW e \in Editor, EditWrite(e)
  PROVE  StepOK
<1> DEFINE r == editor[e].request
           n == editor[e].round + 1
<1>1. StateTypeOK
  BY StateType
<1>2. /\ r \in Request /\ phase[r] \in {"draft", "returned"} /\ editor[e].round = round[r]
      /\ round[r] \in Nat /\ n \in 1..MaxRound /\ n > round[r]
  <2>1. editor[e].current /\ editor[e].round < MaxRound
    BY DEF EditWrite, VersionMatches
  <2>2. r \in Request /\ phase[r] \in {"draft", "returned"} /\ editor[e].round = round[r]
    BY <2>1 DEF Inv, OpenCopies
  <2>3. round[r] \in Nat /\ MaxRound \in Nat
    BY <2>2, <1>1, DocumentsAssumption DEF StateTypeOK
  <2> QED
    BY <2>1, <2>2, <2>3
<1>3. /\ SaveFiles(r, n)
      /\ UNCHANGED <<phase, round, step, atSignature, due, older, locks, worker, cleaning, faults>>
      /\ editor' = [o \in Editor |-> IF o = e THEN Closed
                                     ELSE IF editor[o].request = r THEN [editor[o] EXCEPT !.current = FALSE]
                                          ELSE editor[o]]
  BY DEF EditWrite, requestVars, scheduleVars
<1> HIDE DEF r, n
<1>4. /\ MayBecome(rows', recorded') /\ recorded' \subseteq Key /\ lost' = lost /\ lost' \subseteq recorded'
      /\ \A x \in DOMAIN rows' : x \in DOMAIN rows \/ (x.request = r /\ x.round = n)
  BY <1>2, <1>3, SaveFilesStep
<1>5. ASSUME NEW o \in Editor
      PROVE  /\ editor'[o] \in [request : Request \cup {None}, round : 0..MaxRound, current : BOOLEAN]
             /\ editor'[o].current => editor'[o] = editor[o]
  <2>1. editor[o] \in [request : Request \cup {None}, round : 0..MaxRound, current : BOOLEAN]
    BY <1>1 DEF StateTypeOK, EditorType
  <2>2. editor'[o] = IF o = e THEN Closed
                     ELSE IF editor[o].request = r THEN [editor[o] EXCEPT !.current = FALSE] ELSE editor[o]
    BY <1>3
  <2>3. Closed \in [request : Request \cup {None}, round : 0..MaxRound, current : BOOLEAN] /\ Closed.current = FALSE
    BY DocumentsAssumption DEF Closed
  <2> QED
    BY <2>1, <2>2, <2>3
<1>6. editor' \in EditorType
  BY <1>3, <1>5 DEF EditorType
<1>7. StateTypeOK'
  BY <1>1, <1>3, <1>4, <1>6 DEF StateTypeOK
<1>8. RoundsGoUp
  BY <1>1, <1>3 DEF RoundsGoUp, StateTypeOK
<1>9. RoundsInTurn'
  <2>1. ASSUME NEW x \in DOMAIN rows' PROVE x.round <= Ahead(x.request)'
    <3>1. CASE x \in DOMAIN rows
      BY <3>1, <1>3 DEF Inv, RoundsInTurn, Ahead
    <3>2. CASE x.request = r /\ x.round = n
      BY <3>2, <1>2, <1>3 DEF Ahead, n
    <3> QED
      BY <3>1, <3>2, <1>4
  <2> QED
    BY <2>1, <1>3 DEF Inv, RoundsInTurn
<1>10. OpenCopies'
  BY <1>3, <1>5 DEF Inv, OpenCopies
<1>11. WorkersMakePdfs' /\ CleaningSpares' /\ VersionsAreStored'
  BY <1>3, <1>4, WorkersAlone, CleaningAlone
<1> QED
  BY <1>4, <1>7, <1>8, <1>9, <1>10, <1>11 DEF StepOK

(* Reading, and giving up                                                    *)
LEMMA EditReadStep ==
  ASSUME Inv, NEW e \in Editor, EditFails(e) \/ \E r \in Request : EditRead(e, r)
  PROVE  StepOK
<1>1. StateTypeOK
  BY StateType
<1>2. UNCHANGED <<requestVars, rows, storeVars, scheduleVars, locks, worker, cleaning, faults>>
  BY DEF EditRead, EditFails
<1>3. editor' \in EditorType /\ OpenCopies'
  <2>1. ASSUME NEW r \in Request, EditRead(e, r)
        PROVE  editor' \in EditorType /\ OpenCopies'
    <3> DEFINE new == [request |-> r, round |-> round[r], current |-> TRUE]
    <3>1. editor' = [editor EXCEPT ![e] = new] /\ phase[r] \in {"draft", "returned"}
      BY <2>1 DEF EditRead
    <3>2. new \in [request : Request \cup {None}, round : 0..MaxRound, current : BOOLEAN]
      BY <1>1 DEF StateTypeOK
    <3>3. new.request = r /\ new.round = round[r]
      OBVIOUS
    <3> HIDE DEF new
    <3>4. \A o \in Editor : editor'[o] = IF o = e THEN new ELSE editor[o]
      BY <3>1, <1>1 DEF StateTypeOK, EditorType
    <3>5. editor' \in EditorType
      BY <3>1, <3>2, <1>1 DEF StateTypeOK, EditorType
    <3>6. OpenCopies'
      BY <3>1, <3>3, <3>4, <1>2 DEF Inv, OpenCopies, requestVars
    <3> QED
      BY <3>5, <3>6
  <2>2. CASE EditFails(e)
    <3>1. editor' = [editor EXCEPT ![e] = Closed]
      BY <2>2 DEF EditFails
    <3>2. Closed \in [request : Request \cup {None}, round : 0..MaxRound, current : BOOLEAN] /\ Closed.current = FALSE
      BY DocumentsAssumption DEF Closed
    <3>3. \A o \in Editor : editor'[o] = IF o = e THEN Closed ELSE editor[o]
      BY <3>1, <1>1 DEF StateTypeOK, EditorType
    <3>4. editor' \in EditorType
      BY <3>1, <3>2, <1>1 DEF StateTypeOK, EditorType
    <3>5. OpenCopies'
      BY <3>2, <3>3, <1>2 DEF Inv, OpenCopies, requestVars
    <3> QED
      BY <3>4, <3>5
  <2> QED
    BY <2>1, <2>2
<1>4. StateTypeOK'
  BY <1>1, <1>2, <1>3 DEF StateTypeOK, requestVars, storeVars, scheduleVars
<1>5. MayBecome(rows', recorded') /\ RoundsGoUp /\ RoundsInTurn'
  BY <1>2, RequestAlone DEF requestVars, storeVars
<1>6. WorkersMakePdfs' /\ CleaningSpares' /\ VersionsAreStored'
  BY <1>2, WorkersAlone, CleaningAlone DEF storeVars
<1> QED
  BY <1>3, <1>4, <1>5, <1>6 DEF StepOK

(* The status alone is written                                               *)
LEMMA StatusStep ==
  ASSUME Inv, NEW r \in Request, Delete(r) \/ Finish(r)
  PROVE  StepOK
<1>1. StateTypeOK
  BY StateType
<1>2. /\ UNCHANGED <<round, step, rows, storeVars, scheduleVars, locks, worker, cleaning, faults>>
      /\ Touch(r) /\ phase[r] \in {"draft", "returned", "pending"}
      /\ \/ phase' = [phase EXCEPT ![r] = "deleted"] /\ phase[r] = "draft"
         \/ phase' = [phase EXCEPT ![r] = "closed"]
      /\ atSignature' \in [Request -> BOOLEAN]
  BY <1>1 DEF Delete, Finish, StateTypeOK
<1>3. /\ \A q \in Request \ {r} : phase'[q] = phase[q] /\ round'[q] = round[q]
      /\ phase'[r] \in {"deleted", "closed"}
      /\ phase' \in [Request -> {"none", "draft", "pending", "returned", "closed", "deleted"}]
  BY <1>1, <1>2 DEF StateTypeOK
<1>4. OpenCopies' /\ editor' \in EditorType
  BY <1>2, <1>3, TabsTouched
<1>5. StateTypeOK'
  BY <1>1, <1>2, <1>3, <1>4 DEF StateTypeOK, storeVars, scheduleVars
<1>6. MayBecome(rows', recorded')
  BY <1>2, TheSameRows DEF storeVars
<1>7. RoundsGoUp
  BY <1>1, <1>2 DEF RoundsGoUp, StateTypeOK
<1>8. RoundsInTurn'
  <2>1. \A x \in DOMAIN rows : x.request \in Request /\ x.round \in Nat /\ round[x.request] \in Nat
    BY <1>1 DEF Inv, DocTypeOK, RowId
  <2>2. ASSUME NEW x \in DOMAIN rows' PROVE x.round <= Ahead(x.request)'
    <3>1. x.round <= Ahead(x.request)
      BY <1>2 DEF Inv, RoundsInTurn
    <3> QED
      BY <3>1, <2>1, <1>2, <1>3 DEF Ahead
  <2> QED
    BY <2>2, <1>2, <1>3 DEF Inv, RoundsInTurn
<1>9. WorkersMakePdfs' /\ CleaningSpares' /\ VersionsAreStored'
  BY <1>2, WorkersAlone, CleaningAlone DEF storeVars
<1> QED
  BY <1>4, <1>5, <1>6, <1>7, <1>8, <1>9 DEF StepOK

-----------------------------------------------------------------------------
(* The engine and the signing box                                           *)

LEMMA SubmitStep ==
  ASSUME Inv, NEW r \in Request, Submit(r)
  PROVE  StepOK
<1>1. StateTypeOK
  BY StateType
<1>2. /\ phase[r] \in {"draft", "returned"} /\ round[r] < MaxRound
      /\ round' = [round EXCEPT ![r] = @ + 1] /\ step' = [step EXCEPT ![r] = 1]
      /\ Arrive(r, rows, {}) /\ Touch(r)
      /\ UNCHANGED <<storeVars, locks, worker, cleaning, faults>>
  BY DEF Submit
<1>3. MayBecome(rows, recorded)
  BY TheSameRows
<1>4. /\ MayBecome(rows', recorded) /\ DOMAIN rows' = DOMAIN rows
      /\ phase' \in [Request -> {"none", "draft", "pending", "returned", "closed", "deleted"}]
      /\ phase'[r] \in {"closed", "pending"}
      /\ \A q \in Request \ {r} : phase'[q] = phase[q]
      /\ atSignature' \in [Request -> BOOLEAN]
      /\ due' \subseteq RowId /\ older' \subseteq RowId \X RowId
  BY <1>2, <1>3, ArriveStep
<1>5. /\ round' \in [Request -> 0..MaxRound] /\ round'[r] = round[r] + 1
      /\ \A q \in Request \ {r} : round'[q] = round[q]
      /\ step' \in [Request -> Nat]
  <2>1. round \in [Request -> 0..MaxRound] /\ step \in [Request -> Nat] /\ MaxRound \in Nat
    BY <1>1, DocumentsAssumption DEF StateTypeOK
  <2>2. round[r] + 1 \in 0..MaxRound
    BY <1>2, <2>1
  <2> QED
    BY <1>2, <2>1, <2>2
<1>6. OpenCopies' /\ editor' \in EditorType
  BY <1>2, <1>4, <1>5, TabsTouched
<1>7. StateTypeOK'
  BY <1>1, <1>2, <1>4, <1>5, <1>6 DEF StateTypeOK, storeVars
<1>8. RoundsGoUp
  BY <1>1, <1>5 DEF RoundsGoUp, StateTypeOK
<1>9. RoundsInTurn'
  <2>1. \A q \in Request : phase'[q] = "none" => round'[q] = 0
    BY <1>4, <1>5 DEF Inv, RoundsInTurn
  <2>2. ASSUME NEW x \in DOMAIN rows' PROVE x.round <= Ahead(x.request)'
    <3>1. x.round <= Ahead(x.request) /\ x.request \in Request
      BY <1>4 DEF Inv, RoundsInTurn, MayBecome, RowId
    <3>2. x.round \in Nat /\ round[r] \in Nat
      BY <1>1, <1>4 DEF MayBecome, RowId, StateTypeOK
    <3>3. CASE x.request = r
      BY <3>1, <3>2, <3>3, <1>2, <1>4, <1>5 DEF Ahead
    <3>4. CASE x.request # r
      BY <3>1, <3>4, <1>4, <1>5 DEF Ahead
    <3> QED
      BY <3>3, <3>4
  <2> QED
    BY <2>1, <2>2 DEF RoundsInTurn
<1>10. WorkersMakePdfs' /\ CleaningSpares' /\ VersionsAreStored'
  BY <1>2, WorkersAlone, CleaningAlone DEF storeVars
<1>11. MayBecome(rows', recorded')
  BY <1>2, <1>4 DEF storeVars
<1> QED
  BY <1>6, <1>7, <1>8, <1>9, <1>10, <1>11 DEF StepOK

(* A pending request walks on, or stays, and no row is added                 *)
LEMMA WalkOnRounds ==
  ASSUME Inv, NEW r \in Request, phase[r] = "pending", round' = round,
         DOMAIN rows' = DOMAIN rows, phase'[r] \in {"closed", "pending"},
         \A q \in Request \ {r} : phase'[q] = phase[q]
  PROVE  RoundsGoUp /\ RoundsInTurn'
<1>1. StateTypeOK /\ DOMAIN rows \subseteq RowId
  BY StateType DEF Inv, DocTypeOK
<1>2. RoundsGoUp
  BY <1>1 DEF RoundsGoUp, StateTypeOK
<1>3. ASSUME NEW x \in DOMAIN rows' PROVE x.round <= Ahead(x.request)'
  <2>1. x.round <= Ahead(x.request) /\ x.request \in Request /\ x.round \in Nat
    BY <1>1 DEF Inv, RoundsInTurn, RowId
  <2>2. round[x.request] \in Nat
    BY <1>1, <2>1 DEF StateTypeOK
  <2>3. CASE x.request = r
    BY <2>1, <2>2, <2>3 DEF Ahead
  <2>4. CASE x.request # r
    BY <2>1, <2>4 DEF Ahead
  <2> QED
    BY <2>3, <2>4
<1>4. \A q \in Request : phase'[q] = "none" => round'[q] = 0
  BY DEF Inv, RoundsInTurn
<1> QED
  BY <1>2, <1>3, <1>4 DEF RoundsInTurn

LEMMA PassStep ==
  ASSUME Inv, NEW r \in Request, Pass(r)
  PROVE  StepOK
<1>1. StateTypeOK
  BY StateType
<1>2. /\ phase[r] = "pending" /\ step' = [step EXCEPT ![r] = @ + 1] /\ round' = round /\ Touch(r)
      /\ Arrive(r, rows, {})
      /\ UNCHANGED <<storeVars, locks, worker, cleaning, faults>>
  BY DEF Pass, NextStep
<1>3. MayBecome(rows, recorded)
  BY TheSameRows
<1>4. /\ MayBecome(rows', recorded) /\ DOMAIN rows' = DOMAIN rows
      /\ phase' \in [Request -> {"none", "draft", "pending", "returned", "closed", "deleted"}]
      /\ phase'[r] \in {"closed", "pending"}
      /\ \A q \in Request \ {r} : phase'[q] = phase[q]
      /\ atSignature' \in [Request -> BOOLEAN]
      /\ due' \subseteq RowId /\ older' \subseteq RowId \X RowId
  BY <1>2, <1>3, ArriveStep
<1>5. step' \in [Request -> Nat]
  BY <1>1, <1>2 DEF StateTypeOK
<1>6. OpenCopies' /\ editor' \in EditorType
  BY <1>2, <1>4, TabsTouched
<1>7. StateTypeOK'
  BY <1>1, <1>2, <1>4, <1>5, <1>6 DEF StateTypeOK, storeVars
<1>8. RoundsGoUp /\ RoundsInTurn'
  BY <1>2, <1>4, WalkOnRounds
<1>9. WorkersMakePdfs' /\ CleaningSpares' /\ VersionsAreStored'
  BY <1>2, WorkersAlone, CleaningAlone DEF storeVars
<1>10. MayBecome(rows', recorded')
  BY <1>2, <1>4 DEF storeVars
<1> QED
  BY <1>6, <1>7, <1>8, <1>9, <1>10 DEF StepOK

LEMMA PrepareStep ==
  ASSUME Inv, NEW r \in Request, Prepare(r)
  PROVE  StepOK
<1> DEFINE K == { convertKey(id) : id \in ToConvert(r) }
<1>1. StateTypeOK
  BY StateType
<1>2. /\ KeysLeft(ToConvert(r), 1) /\ rows' = convertDocuments(r) /\ NotDue(ToConvert(r)) /\ Commits(K)
      /\ UNCHANGED <<phase, round, step, atSignature, locks, editor, worker>>
  BY DEF Prepare, requestVars
<1>3. recorded' = recorded \cup K
  BY <1>2 DEF Commits
<1>4. /\ MayBecome(rows', recorded') /\ DOMAIN rows' = DOMAIN rows
      /\ \A id \in ToConvert(r) : convertKey(id) \in Key
  BY <1>2, <1>3, ConvertStep
<1>5. K \in SUBSET Key
  BY <1>4
<1> HIDE DEF K
<1>6. /\ recorded' \subseteq Key /\ lost' \subseteq recorded'
      /\ cleaning' \subseteq [keys : SUBSET Key, checked : BOOLEAN]
      /\ faults' \in 0..MaxFaults /\ CleaningSpares' /\ VersionsAreStored'
  BY <1>2, <1>5, CommitsType
<1>7. due' \subseteq RowId /\ older' \subseteq RowId \X RowId
  BY <1>2, NotDueType
<1>8. StateTypeOK'
  BY <1>1, <1>2, <1>6, <1>7 DEF StateTypeOK
<1>9. RoundsGoUp /\ RoundsInTurn'
  <2>1. RoundsGoUp
    BY <1>1, <1>2 DEF RoundsGoUp, StateTypeOK
  <2>2. RoundsInTurn'
    BY <1>2, <1>4 DEF Inv, RoundsInTurn, Ahead
  <2> QED
    BY <2>1, <2>2
<1>10. OpenCopies' /\ WorkersMakePdfs'
  BY <1>2, TabsAlone, WorkersAlone
<1> QED
  BY <1>4, <1>6, <1>8, <1>9, <1>10 DEF StepOK

LEMMA SignActionStep ==
  ASSUME Inv, NEW r \in Request, Sign(r)
  PROVE  StepOK
<1> DEFINE K == SignKeys(r)
           R == SignedRows(r)
           Approved == \/ /\ rows' = R
                          /\ NotDue(ToConvert(r))
                          /\ UNCHANGED <<requestVars, editor>>
                       \/ /\ NextStep(r)
                          /\ Arrive(r, R, ToConvert(r))
<1>1. StateTypeOK
  BY StateType
<1>2. /\ phase[r] = "pending" /\ KeysLeft(ToConvert(r), 2) /\ KeysLeft(Documents(r), 1)
      /\ \/ Approved /\ Commits(K) /\ UNCHANGED <<locks, worker>>
         \/ Approved /\ CommitsUnheard(K, TRUE) /\ UNCHANGED <<locks, worker>>
         \/ RollsBack(K, TRUE)
  BY DEF Sign, SignKeys, SignedRows, SignKey
<1>3. MayBecome(R, recorded \cup K) /\ DOMAIN R = DOMAIN rows /\ K \in SUBSET Key
  BY <1>2, SignStep
<1> HIDE DEF R, K
<1>4. CASE RollsBack(K, TRUE)
  BY <1>3, <1>4, RollsBackStep
<1>5. CASE Approved /\ (Commits(K) \/ CommitsUnheard(K, TRUE)) /\ UNCHANGED <<locks, worker>>
  <2>1. /\ recorded' = recorded \cup K /\ recorded' \subseteq Key /\ lost' \subseteq recorded'
        /\ cleaning' \subseteq [keys : SUBSET Key, checked : BOOLEAN]
        /\ faults' \in 0..MaxFaults /\ CleaningSpares' /\ VersionsAreStored'
    BY <1>3, <1>5, CommitsType
  <2>2. /\ MayBecome(rows', recorded') /\ DOMAIN rows' = DOMAIN rows /\ round' = round
        /\ phase' \in [Request -> {"none", "draft", "pending", "returned", "closed", "deleted"}]
        /\ phase'[r] \in {"closed", "pending"}
        /\ \A q \in Request \ {r} : phase'[q] = phase[q]
        /\ step' \in [Request -> Nat] /\ atSignature' \in [Request -> BOOLEAN]
        /\ due' \subseteq RowId /\ older' \subseteq RowId \X RowId
        /\ OpenCopies' /\ editor' \in EditorType
    <3>1. CASE rows' = R /\ NotDue(ToConvert(r)) /\ UNCHANGED <<requestVars, editor>>
      <4>1. UNCHANGED <<phase, round, step, atSignature, editor>>
        BY <3>1 DEF requestVars
      <4>2. due' \subseteq RowId /\ older' \subseteq RowId \X RowId
        BY <3>1, NotDueType
      <4>3. OpenCopies'
        BY <4>1, TabsAlone
      <4> QED
        BY <1>1, <1>2, <1>3, <2>1, <3>1, <4>1, <4>2, <4>3 DEF StateTypeOK
    <3>2. CASE NextStep(r) /\ Arrive(r, R, ToConvert(r))
      <4>1. step' = [step EXCEPT ![r] = @ + 1] /\ round' = round /\ Touch(r)
        BY <3>2 DEF NextStep
      <4>2. step' \in [Request -> Nat]
        BY <1>1, <4>1 DEF StateTypeOK
      <4>3. /\ MayBecome(rows', recorded \cup K) /\ DOMAIN rows' = DOMAIN R
            /\ phase' \in [Request -> {"none", "draft", "pending", "returned", "closed", "deleted"}]
            /\ phase'[r] \in {"closed", "pending"}
            /\ \A q \in Request \ {r} : phase'[q] = phase[q]
            /\ atSignature' \in [Request -> BOOLEAN]
            /\ due' \subseteq RowId /\ older' \subseteq RowId \X RowId
        BY <1>3, <3>2, ArriveStep
      <4>4. OpenCopies' /\ editor' \in EditorType
        BY <4>1, <4>3, TabsTouched
      <4> QED
        BY <1>3, <2>1, <4>1, <4>2, <4>3, <4>4
    <3> QED
      BY <1>5, <3>1, <3>2
  <2>3. StateTypeOK'
    BY <1>1, <1>5, <2>1, <2>2 DEF StateTypeOK
  <2>4. RoundsGoUp /\ RoundsInTurn'
    BY <1>2, <2>2, WalkOnRounds
  <2>5. WorkersMakePdfs'
    BY <1>5, WorkersAlone
  <2> QED
    BY <2>1, <2>2, <2>3, <2>4, <2>5 DEF StepOK
<1> QED
  BY <1>2, <1>4, <1>5

-----------------------------------------------------------------------------
(* Copies                                                                   *)

(* A request gets copies for a round that was not sent, and is a draft again *)
LEMMA CopiedStep ==
  ASSUME Inv, NEW r \in Request, NEW n \in 1..MaxRound, n = round[r] + 1,
         NEW ids \in SUBSET DOMAIN rows, CopiesPossible(r, n, ids),
         rows' = Put(rows, CopyRows(r, n, ids)),
         NEW p \in {"draft", "returned"}, phase' = [phase EXCEPT ![r] = p],
         atSignature' \in [Request -> BOOLEAN],
         OpenCopies', editor' \in EditorType,
         UNCHANGED <<round, step, due, older, locks, worker>>,
         \/ Commits(CopyKeys(r, n, ids))
         \/ CommitsUnheard(CopyKeys(r, n, ids), FALSE)
  PROVE  StepOK
<1> DEFINE K == CopyKeys(r, n, ids)
           C == CopyRows(r, n, ids)
<1>1. StateTypeOK /\ DOMAIN rows \subseteq RowId
  BY StateType DEF Inv, DocTypeOK
<1>2. recorded' = recorded \cup K /\ recorded \cup K \subseteq recorded'
  BY DEF Commits, CommitsUnheard
<1>3. n > round[r] /\ round[r] \in Nat
  BY <1>1 DEF StateTypeOK
<1>4. /\ MayBecome(rows', recorded') /\ DOMAIN rows' = DOMAIN rows \cup DOMAIN C
      /\ \A x \in DOMAIN C : x.request = r /\ x.round = n
  <2>1. /\ MayBecome(Put(rows, CopyRows(r, n, ids)), recorded')
        /\ DOMAIN Put(rows, CopyRows(r, n, ids)) = DOMAIN rows \cup DOMAIN CopyRows(r, n, ids)
        /\ \A x \in DOMAIN CopyRows(r, n, ids) : x.request = r /\ x.round = n
    <3>1. /\ Inv /\ r \in Request /\ n \in 1..MaxRound /\ n > round[r]
          /\ ids \in SUBSET DOMAIN rows /\ CopiesPossible(r, n, ids)
          /\ recorded \cup CopyKeys(r, n, ids) \subseteq recorded'
      BY <1>2, <1>3
    <3>2. MayBecome(Put(rows, CopyRows(r, n, ids)), recorded')
      BY ONLY <3>1, CopyStep
    <3>3. DOMAIN Put(rows, CopyRows(r, n, ids)) = DOMAIN rows \cup DOMAIN CopyRows(r, n, ids)
      BY ONLY <3>1, CopyStep
    <3>4. \A x \in DOMAIN CopyRows(r, n, ids) : x.request = r /\ x.round = n
      BY DEF CopyRows
    <3> QED
      BY <3>2, <3>3, <3>4
  <2> QED
    BY <2>1
<1>5. K \in SUBSET Key /\ \A k \in K : ~k.made
  BY CopyKeysType
<1> HIDE DEF K, C
<1>6. /\ recorded' \subseteq Key /\ lost' \subseteq recorded'
      /\ cleaning' \subseteq [keys : SUBSET Key, checked : BOOLEAN]
      /\ faults' \in 0..MaxFaults /\ CleaningSpares' /\ VersionsAreStored'
  BY <1>5, CommitsType DEF K
<1>7. /\ \A q \in Request : phase'[q] = IF q = r THEN p ELSE phase[q]
      /\ phase' \in [Request -> {"none", "draft", "pending", "returned", "closed", "deleted"}]
  BY <1>1 DEF StateTypeOK
<1>8. StateTypeOK'
  BY <1>1, <1>6, <1>7 DEF StateTypeOK
<1>9. RoundsGoUp
  BY <1>1 DEF RoundsGoUp, StateTypeOK
<1>10. RoundsInTurn'
  <2>1. \A q \in Request : phase'[q] = "none" => round'[q] = 0
    BY <1>7 DEF Inv, RoundsInTurn
  <2>2. ASSUME NEW x \in DOMAIN rows' PROVE x.round <= Ahead(x.request)'
    <3>1. x.request \in Request
      BY <1>4 DEF MayBecome, RowId
    <3>2. CASE x \in DOMAIN rows
      <4>1. x.round <= Ahead(x.request) /\ x.round \in Nat /\ round[x.request] \in Nat
        BY <3>1, <3>2, <1>1 DEF Inv, RoundsInTurn, RowId, StateTypeOK
      <4> QED
        BY <3>1, <4>1, <1>7 DEF Ahead
    <3>3. CASE x \in DOMAIN C
      <4>1. x.request = r /\ x.round = n
        BY <3>3, <1>4
      <4> QED
        BY <4>1, <1>3, <1>7 DEF Ahead
    <3> QED
      BY <3>2, <3>3, <1>4
  <2> QED
    BY <2>1, <2>2 DEF RoundsInTurn
<1>11. WorkersMakePdfs'
  BY WorkersAlone
<1> QED
  BY <1>4, <1>6, <1>8, <1>9, <1>10, <1>11 DEF StepOK

LEMMA ReturnStep ==
  ASSUME Inv, NEW r \in Request, Return(r)
  PROVE  StepOK
<1> DEFINE ids == RowsOf(r, round[r])
           n == draftRound(r)
           K == CopyKeys(r, n, ids)
           Returned == /\ phase' = [phase EXCEPT ![r] = "returned"]
                       /\ atSignature' = [atSignature EXCEPT ![r] = FALSE]
                       /\ rows' = Put(rows, CopyRows(r, n, ids))
                       /\ Touch(r)
                       /\ UNCHANGED <<round, step, scheduleVars, locks, worker>>
<1>1. StateTypeOK /\ MaxRound \in Nat /\ DOMAIN rows \subseteq RowId
  BY StateType, DocumentsAssumption DEF Inv, DocTypeOK
<1>2. /\ phase[r] = "pending" /\ round[r] < MaxRound /\ CopiesPossible(r, n, ids)
      /\ \/ Returned /\ Commits(K)
         \/ Returned /\ CommitsUnheard(K, FALSE)
         \/ RollsBack(K, FALSE)
  BY DEF Return, CopyKeys
<1>3. n \in 1..MaxRound /\ n = round[r] + 1 /\ ids \in SUBSET DOMAIN rows
  BY <1>1, <1>2 DEF StateTypeOK, draftRound, RowsOf
<1> HIDE DEF ids, n
<1>4. K \in SUBSET Key /\ \A k \in K : ~k.made
  BY <1>1, <1>2, <1>3, CopyKeysType
<1>5. CASE RollsBack(K, FALSE)
  <2> HIDE DEF K
  <2> QED
    BY <1>4, <1>5, RollsBackStep
<1>6. CASE Returned /\ (Commits(K) \/ CommitsUnheard(K, FALSE))
  <2>1. /\ phase' = [phase EXCEPT ![r] = "returned"] /\ Touch(r)
        /\ UNCHANGED <<round, step, due, older, locks, worker>>
    BY <1>6 DEF scheduleVars
  <2>2. \A q \in Request \ {r} : phase'[q] = phase[q] /\ round'[q] = round[q]
    BY <1>1, <2>1 DEF StateTypeOK
  <2>3. OpenCopies' /\ editor' \in EditorType
    BY <2>1, <2>2, TabsTouched
  <2>4. atSignature' \in [Request -> BOOLEAN]
    BY <1>1, <1>6 DEF StateTypeOK
  <2> QED
    BY <1>2, <1>3, <1>6, <2>1, <2>3, <2>4, CopiedStep
<1> QED
  BY <1>2, <1>5, <1>6

LEMMA CloneStep ==
  ASSUME Inv, NEW r \in Request, NEW s \in Request, Clone(r, s)
  PROVE  StepOK
<1> DEFINE Cloned(ids) == /\ phase' = [phase EXCEPT ![r] = "draft"]
                          /\ rows' = Put(rows, CopyRows(r, 1, ids))
                          /\ UNCHANGED <<round, step, atSignature, scheduleVars, locks, editor, worker>>
           K(ids) == CopyKeys(r, 1, ids)
<1>1. StateTypeOK /\ 1 \in 1..MaxRound /\ DOMAIN rows \subseteq RowId
  BY StateType, DocumentsAssumption DEF Inv, DocTypeOK
<1>2. PICK ids \in {LatestFiles(s), {}} :
        /\ phase[r] = "none" /\ CopiesPossible(r, 1, ids)
        /\ \/ Cloned(ids) /\ Commits(K(ids))
           \/ Cloned(ids) /\ CommitsUnheard(K(ids), FALSE)
           \/ RollsBack(K(ids), FALSE)
  BY DEF Clone, CopyKeys
<1>3. round[r] = 0 /\ ids \in SUBSET DOMAIN rows
  BY <1>2 DEF Inv, RoundsInTurn, LatestFiles, RowsOf
<1>4. 1 = round[r] + 1
  BY <1>3
<1>5. K(ids) \in SUBSET Key /\ \A k \in K(ids) : ~k.made
  BY <1>1, <1>2, <1>3, CopyKeysType
<1>6. CASE RollsBack(K(ids), FALSE)
  <2> DEFINE L == K(ids)
  <2>1. RollsBack(L, FALSE) /\ L \in SUBSET Key /\ \A k \in L : ~k.made
    BY <1>5, <1>6
  <2> HIDE DEF L
  <2> QED
    BY <2>1, RollsBackStep
<1>7. CASE Cloned(ids) /\ (Commits(K(ids)) \/ CommitsUnheard(K(ids), FALSE))
  <2>1. /\ phase' = [phase EXCEPT ![r] = "draft"]
        /\ UNCHANGED <<round, step, due, older, locks, worker, editor, atSignature>>
    BY <1>7 DEF scheduleVars
  <2>2. \A q \in Request : phase[q] \in {"draft", "returned"} => phase'[q] = phase[q] /\ round'[q] = round[q]
    BY <1>1, <1>2, <2>1 DEF StateTypeOK
  <2>3. OpenCopies' /\ editor' \in EditorType
    BY <1>1, <2>1, <2>2, TabsAlone DEF StateTypeOK
  <2>4. atSignature' \in [Request -> BOOLEAN]
    BY <1>1, <2>1 DEF StateTypeOK
  <2> QED
    BY <1>1, <1>2, <1>3, <1>4, <1>7, <2>1, <2>3, <2>4, CopiedStep
<1> QED
  BY <1>2, <1>6, <1>7

-----------------------------------------------------------------------------
(* The background conversion: what is not about rows                        *)

(* A step that leaves requests, rows and tabs alone *)
LEMMA QuietStep ==
  ASSUME Inv, UNCHANGED <<phase, round, step, atSignature, rows, recorded, editor>>,
         due' \subseteq RowId, older' \subseteq RowId \X RowId,
         locks' \subseteq RowId \X (Worker \cup {None}),
         worker' \in [Worker -> Working \cup {Idle}], WorkersMakePdfs',
         cleaning' \subseteq cleaning, faults' \in 0..MaxFaults, faults' >= faults,
         lost' \subseteq recorded, \A k \in lost' : k \in lost \/ (~k.made /\ faults > 0)
  PROVE  StepOK
<1>1. StateTypeOK
  BY StateType
<1>2. StateTypeOK'
  BY <1>1 DEF StateTypeOK
<1>3. MayBecome(rows', recorded') /\ RoundsGoUp /\ RoundsInTurn'
  BY RequestAlone
<1>4. OpenCopies'
  BY TabsAlone
<1>5. CleaningSpares' /\ VersionsAreStored'
  <2>1. faults > 0 => faults' > 0
    BY <1>1 DEF StateTypeOK
  <2> QED
    BY <2>1 DEF Inv, CleaningSpares, VersionsAreStored
<1> QED
  BY <1>2, <1>3, <1>4, <1>5 DEF StepOK

(* One worker is set to something *)
LEMMA WorkerSet ==
  ASSUME Inv, NEW w \in Worker, NEW new \in Working \cup {Idle}, worker' = [worker EXCEPT ![w] = new],
         \A id \in new.ids : id.request = new.request,
         \A x \in new.results : x.id \in new.ids /\ x.key.made /\ x.key.doc = x.id.doc,
         new.pc = "locked" => new.results = {}
  PROVE  worker' \in [Worker -> Working \cup {Idle}] /\ WorkersMakePdfs'
<1>1. worker \in [Worker -> Working \cup {Idle}]
  BY DEF Inv, DocTypeOK
<1>2. \A v \in Worker : worker'[v] = IF v = w THEN new ELSE worker[v]
  BY <1>1
<1> QED
  BY <1>1, <1>2 DEF Inv, WorkersMakePdfs

LEMMA TurnType ==
  ASSUME NEW todo \in SUBSET Request
  PROVE  /\ Turn(todo) \in Working \cup {Idle}
         /\ Turn(todo).ids = {} /\ Turn(todo).results = {}
<1> DEFINE t == [Idle EXCEPT !.pc = "read", !.todo = todo]
<1>1. t \in Working /\ t.ids = {} /\ t.results = {} /\ Idle.ids = {} /\ Idle.results = {}
  BY DEF Idle, Working
<1> HIDE DEF t
<1>2. Turn(todo) = IF todo = {} THEN Idle ELSE t
  BY DEF Turn, t
<1> QED
  BY <1>1, <1>2

LEMMA ProcessStep ==
  ASSUME Inv, NEW w \in Worker, NEW r \in Request, NEW todo \in SUBSET Request, Process(w, r, todo)
  PROVE  StepOK
<1> DEFINE free == { id \in Candidates(w, r) : \A p \in locks : p[1] # id }
           held(ids) == [Idle EXCEPT !.pc = "locked", !.todo = todo \ {r}, !.request = r, !.ids = ids]
           next(ids) == IF ids = {} THEN Turn(todo \ {r}) ELSE held(ids)
<1>1. StateTypeOK /\ DOMAIN rows \subseteq RowId /\ MaxFaults \in Nat
  BY StateType, DocumentsAssumption DEF Inv, DocTypeOK
<1>2. /\ \/ locks' = locks \cup (free \X {w}) /\ worker' = [worker EXCEPT ![w] = next(free)] /\ UNCHANGED faults
         \/ /\ faults < MaxFaults /\ faults' = faults + 1 /\ UNCHANGED locks
            /\ worker' = [worker EXCEPT ![w] = next(Candidates(w, r))]
      /\ UNCHANGED <<Others, rows, scheduleVars>>
  BY DEF Process
<1>3. \A id \in Candidates(w, r) : id \in RowId /\ id.request = r
  BY <1>1 DEF Candidates, RowsOf
<1>4. ASSUME NEW ids \in SUBSET Candidates(w, r), worker' = [worker EXCEPT ![w] = next(ids)]
      PROVE  worker' \in [Worker -> Working \cup {Idle}] /\ WorkersMakePdfs'
  <2>1. ids \subseteq RowId /\ \A id \in ids : id.request = r
    BY <1>3
  <2>2. held(ids) \in Working /\ held(ids).ids = ids /\ held(ids).request = r /\ held(ids).results = {}
    BY <2>1 DEF Working, Idle
  <2>3. todo \ {r} \in SUBSET Request
    OBVIOUS
  <2>4. /\ next(ids) \in Working \cup {Idle} /\ next(ids).results = {}
        /\ \A id \in next(ids).ids : id.request = next(ids).request
    <3>1. CASE ids = {}
      <4>1. next(ids) = Turn(todo \ {r})
        BY <3>1
      <4> QED
        BY <4>1, <2>3, TurnType
    <3>2. CASE ids # {}
      <4>1. next(ids) = held(ids)
        BY <3>2
      <4> QED
        BY <4>1, <2>1, <2>2
    <3> QED
      BY <3>1, <3>2
  <2> HIDE DEF next
  <2> QED
    BY <1>4, <2>4, WorkerSet
<1>5. /\ locks' \subseteq RowId \X (Worker \cup {None})
      /\ worker' \in [Worker -> Working \cup {Idle}] /\ WorkersMakePdfs'
      /\ faults' \in 0..MaxFaults /\ faults' >= faults
  <2> HIDE DEF next
  <2>1. CASE locks' = locks \cup (free \X {w}) /\ worker' = [worker EXCEPT ![w] = next(free)] /\ UNCHANGED faults
    <3>1. free \in SUBSET Candidates(w, r)
      OBVIOUS
    <3>2. locks' \subseteq RowId \X (Worker \cup {None})
      BY <1>1, <1>3, <2>1 DEF StateTypeOK
    <3> QED
      BY <1>1, <1>4, <2>1, <3>1, <3>2 DEF StateTypeOK
  <2>2. CASE /\ faults < MaxFaults /\ faults' = faults + 1 /\ UNCHANGED locks
             /\ worker' = [worker EXCEPT ![w] = next(Candidates(w, r))]
    <3>1. Candidates(w, r) \in SUBSET Candidates(w, r)
      OBVIOUS
    <3>2. worker' \in [Worker -> Working \cup {Idle}] /\ WorkersMakePdfs'
      BY <1>4, <2>2, <3>1
    <3>3. faults' \in 0..MaxFaults /\ faults' >= faults
      BY <1>1, <2>2 DEF StateTypeOK
    <3> QED
      BY <1>1, <2>2, <3>2, <3>3 DEF StateTypeOK
  <2> QED
    BY <1>2, <2>1, <2>2
<1> QED
  BY <1>1, <1>2, <1>5, QuietStep DEF Others, requestVars, storeVars, scheduleVars, StateTypeOK

LEMMA RereadStep ==
  ASSUME Inv, NEW w \in Worker, Reread(w)
  PROVE  StepOK
<1> DEFINE ids == { id \in worker[w].ids : id \in DOMAIN rows /\ isDue(w, id) }
           new == [worker[w] EXCEPT !.pc = "convert", !.ids = ids]
<1>1. StateTypeOK /\ worker[w] \in Working \cup {Idle}
  BY StateType DEF StateTypeOK
<1>2. /\ worker[w].pc = "locked"
      /\ \/ worker' = [worker EXCEPT ![w] = Turn(worker[w].todo)] /\ locks' = Unlocked(w)
         \/ worker' = [worker EXCEPT ![w].pc = "convert", ![w].ids = ids] /\ UNCHANGED locks
      /\ UNCHANGED <<Others, rows, scheduleVars, faults>>
  BY DEF Reread
<1>3. worker[w] \in Working /\ worker[w].results = {}
  BY <1>1, <1>2 DEF Idle, Inv, WorkersMakePdfs
<1>4. locks' \subseteq RowId \X (Worker \cup {None})
  BY <1>1, <1>2 DEF StateTypeOK, Unlocked
<1>5. worker' \in [Worker -> Working \cup {Idle}] /\ WorkersMakePdfs'
  <2>1. CASE worker' = [worker EXCEPT ![w] = Turn(worker[w].todo)]
    <3>1. worker[w].todo \in SUBSET Request
      BY WorkerType
    <3>2. /\ Turn(worker[w].todo) \in Working \cup {Idle}
          /\ Turn(worker[w].todo).ids = {} /\ Turn(worker[w].todo).results = {}
      BY <3>1, TurnType
    <3> QED
      BY <2>1, <3>2, WorkerSet
  <2>2. CASE worker' = [worker EXCEPT ![w].pc = "convert", ![w].ids = ids]
    <3>1. worker' = [worker EXCEPT ![w] = new]
      BY <2>2, <1>1 DEF StateTypeOK
    <3>2. \A id \in ids : id \in RowId /\ id.request = worker[w].request
      BY WorkerType
    <3>3. /\ new \in Working /\ new.ids = ids /\ new.request = worker[w].request
          /\ new.results = {} /\ new.pc = "convert"
      BY <1>3, <3>2 DEF Working
    <3> HIDE DEF new, ids
    <3> QED
      BY <3>1, <3>2, <3>3, WorkerSet
  <2> QED
    BY <1>2, <2>1, <2>2
<1> QED
  BY <1>1, <1>2, <1>4, <1>5, QuietStep DEF Others, requestVars, storeVars, scheduleVars, StateTypeOK

LEMMA ConvertActionStep ==
  ASSUME Inv, NEW w \in Worker, Convert(w)
  PROVE  StepOK
<1>1. StateTypeOK /\ worker[w] \in Working \cup {Idle}
  BY StateType DEF StateTypeOK
<1>2. PICK ok \in SUBSET worker[w].ids :
        /\ KeysLeft(ok, 1)
        /\ worker' = [worker EXCEPT ![w].pc = "attach",
                                    ![w].results = { [id |-> id, key |-> First(NewKeys(id, TRUE))] : id \in ok }]
  BY DEF Convert
<1>3. worker[w].pc = "convert" /\ UNCHANGED <<Others, rows, scheduleVars, locks, faults>>
  BY DEF Convert
<1> DEFINE X == { [id |-> id, key |-> First(NewKeys(id, TRUE))] : id \in ok }
           new == [worker[w] EXCEPT !.pc = "attach", !.results = X]
<1>4. worker[w] \in Working
  BY <1>1, <1>3 DEF Idle
<1>5. \A id \in ok : /\ id \in RowId
                     /\ First(NewKeys(id, TRUE)) \in Key /\ First(NewKeys(id, TRUE)).doc = id.doc
                     /\ First(NewKeys(id, TRUE)).made = TRUE
  <2>1. ok \in SUBSET RowId
    BY WorkerType
  <2> QED
    BY <1>2, <2>1, KeysLeftType, FirstKey
<1>6. \A x \in X : x \in [id : RowId, key : Key] /\ x.id \in ok /\ x.key.made = TRUE /\ x.key.doc = x.id.doc
  <2>1. ASSUME NEW x \in X
        PROVE  x \in [id : RowId, key : Key] /\ x.id \in ok /\ x.key.made = TRUE /\ x.key.doc = x.id.doc
    <3>1. PICK id \in ok : x = [id |-> id, key |-> First(NewKeys(id, TRUE))]
      OBVIOUS
    <3> DEFINE k == First(NewKeys(id, TRUE))
    <3>2. x.id = id /\ x.key = k /\ x = [id |-> id, key |-> k]
      BY <3>1
    <3>3. k \in Key /\ k.doc = id.doc /\ k.made = TRUE /\ id \in RowId
      BY <1>5
    <3> HIDE DEF k, X
    <3> QED
      BY <3>2, <3>3
  <2> QED
    BY <2>1
<1>7. worker' = [worker EXCEPT ![w] = new]
  BY <1>1, <1>2 DEF StateTypeOK
<1> HIDE DEF X
<1>8. /\ new \in Working /\ new.ids = worker[w].ids /\ new.request = worker[w].request
      /\ new.results = X /\ new.pc = "attach"
  BY <1>4, <1>6 DEF Working
<1> HIDE DEF new
<1>9. \A id \in new.ids : id.request = new.request
  BY <1>8, WorkerType
<1>10. \A x \in new.results : x.id \in new.ids /\ x.key.made /\ x.key.doc = x.id.doc
  <2>1. ok \subseteq worker[w].ids
    OBVIOUS
  <2> QED
    BY <2>1, <1>6, <1>8
<1>11. worker' \in [Worker -> Working \cup {Idle}] /\ WorkersMakePdfs'
  BY <1>7, <1>8, <1>9, <1>10, WorkerSet
<1> QED
  BY <1>1, <1>3, <1>11, QuietStep DEF Others, requestVars, storeVars, scheduleVars, StateTypeOK

LEMMA AttachActionStep ==
  ASSUME Inv, NEW w \in Worker, Attach(w)
  PROVE  StepOK
<1> DEFINE Attached == /\ rows' = AttachedRows(w)
                       /\ NotDue(Converted(w) \cup NotConverted(w))
                       /\ recorded' = recorded \cup Keys(Useful(w))
           Leaves(K) == worker' = [worker EXCEPT ![w].pc = "clean", ![w].orphans = K]
           Faulty == faults < MaxFaults /\ faults' = faults + 1
           left == Keys(worker[w].results \ Useful(w))
           all == Keys(worker[w].results)
<1>1. StateTypeOK /\ worker[w] \in Working \cup {Idle} /\ MaxFaults \in Nat
  BY StateType, DocumentsAssumption DEF StateTypeOK
<1>2. /\ worker[w].pc = "attach"
      /\ \/ Attached /\ Leaves(left) /\ UNCHANGED faults
         \/ Attached /\ Leaves(all) /\ Faulty
         \/ Leaves(all) /\ Faulty /\ UNCHANGED <<rows, scheduleVars, recorded>>
      /\ UNCHANGED <<phase, round, step, atSignature, lost, locks, editor, cleaning>>
  BY DEF Attach, AttachedRows, Useful, Converted, NotConverted, Keys, requestVars
<1>3. worker[w] \in Working
  BY <1>1, <1>2 DEF Idle
<1>4. all \subseteq Key /\ left \subseteq Key /\ Keys(Useful(w)) \subseteq Key
  BY WorkerType DEF Keys, Useful
<1>5. ASSUME NEW K \in SUBSET Key, Leaves(K)
      PROVE  worker' \in [Worker -> Working \cup {Idle}] /\ WorkersMakePdfs'
  <2> DEFINE new == [worker[w] EXCEPT !.pc = "clean", !.orphans = K]
  <2>1. worker' = [worker EXCEPT ![w] = new]
    BY <1>1, <1>5 DEF StateTypeOK
  <2>2. /\ new \in Working /\ new.ids = worker[w].ids /\ new.request = worker[w].request
        /\ new.results = worker[w].results /\ new.pc = "clean"
    BY <1>3 DEF Working
  <2> HIDE DEF new
  <2>3. /\ \A id \in new.ids : id.request = new.request
        /\ \A x \in new.results : x.id \in new.ids /\ x.key.made /\ x.key.doc = x.id.doc
    BY <2>2, WorkerType
  <2> QED
    BY <2>1, <2>2, <2>3, WorkerSet
<1>6. worker' \in [Worker -> Working \cup {Idle}] /\ WorkersMakePdfs'
  <2> HIDE DEF Attached, Faulty, all, left
  <2>1. Leaves(all) \/ Leaves(left)
    BY <1>2
  <2> QED
    BY <1>4, <1>5, <2>1
<1>7. faults' \in 0..MaxFaults /\ faults' >= faults
  BY <1>1, <1>2 DEF StateTypeOK
<1>8. CASE UNCHANGED <<rows, scheduleVars, recorded>>
  BY <1>1, <1>2, <1>6, <1>7, <1>8, QuietStep DEF scheduleVars, StateTypeOK
<1>9. CASE Attached
  <2>1. /\ MayBecome(rows', recorded') /\ DOMAIN rows' = DOMAIN rows
    BY <1>9, AttachStep
  <2>2. due' \subseteq RowId /\ older' \subseteq RowId \X RowId
    BY <1>9, NotDueType
  <2>3. StateTypeOK'
    BY <1>1, <1>2, <1>4, <1>6, <1>7, <1>9, <2>2 DEF StateTypeOK
  <2>4. RoundsGoUp
    BY <1>1, <1>2 DEF RoundsGoUp, StateTypeOK
  <2>5. RoundsInTurn'
    BY <1>2, <2>1 DEF Inv, RoundsInTurn, Ahead
  <2>6. OpenCopies'
    BY <1>2, TabsAlone
  <2>7. CleaningSpares' /\ VersionsAreStored'
    <3>1. faults > 0 => faults' > 0
      BY <1>1, <1>7 DEF StateTypeOK
    <3> QED
      BY <3>1, <1>2 DEF Inv, CleaningSpares, VersionsAreStored
  <2> QED
    BY <1>6, <2>1, <2>3, <2>4, <2>5, <2>6, <2>7 DEF StepOK
<1> QED
  BY <1>2, <1>8, <1>9

(* ... what is left of it, the clock, locks and deletions                    *)
LEMMA CleanUpStep ==
  ASSUME Inv, NEW w \in Worker, CleanUp(w)
  PROVE  StepOK
<1>1. StateTypeOK
  BY StateType
<1>2. /\ lost' = lost \cup ((worker[w].orphans \ recorded) \cap recorded)
      /\ locks' = Unlocked(w) /\ worker' = [worker EXCEPT ![w] = Turn(worker[w].todo)]
      /\ UNCHANGED <<requestVars, rows, recorded, scheduleVars, editor, cleaning, faults>>
  BY DEF CleanUp, Unused
<1>3. lost' = lost
  BY <1>2
<1>4. worker[w].todo \in SUBSET Request
  BY WorkerType
<1>5. /\ Turn(worker[w].todo) \in Working \cup {Idle}
      /\ Turn(worker[w].todo).ids = {} /\ Turn(worker[w].todo).results = {}
  BY <1>4, TurnType
<1>6. worker' \in [Worker -> Working \cup {Idle}] /\ WorkersMakePdfs'
  BY <1>2, <1>5, WorkerSet
<1>7. locks' \subseteq RowId \X (Worker \cup {None})
  BY <1>1, <1>2 DEF StateTypeOK, Unlocked
<1> QED
  BY <1>1, <1>2, <1>3, <1>6, <1>7, QuietStep DEF requestVars, scheduleVars, StateTypeOK

LEMMA ScanStep ==
  ASSUME Inv, NEW w \in Worker, Scan(w)
  PROVE  StepOK
<1>1. StateTypeOK
  BY StateType
<1>2. PICK batch \in SUBSET due :
        worker' = [worker EXCEPT ![w] = [Idle EXCEPT !.pc = "read", !.todo = { id.request : id \in batch }]]
  BY DEF Scan
<1>3. UNCHANGED <<Others, rows, scheduleVars, locks, faults>>
  BY DEF Scan
<1> DEFINE todo == { id.request : id \in batch }
           new == [Idle EXCEPT !.pc = "read", !.todo = todo]
<1>4. todo \subseteq Request
  BY <1>1 DEF StateTypeOK, RowId
<1> HIDE DEF todo
<1>5. new \in Working /\ new.ids = {} /\ new.results = {}
  BY <1>4 DEF Idle, Working
<1>6. worker' = [worker EXCEPT ![w] = new]
  BY <1>2 DEF todo
<1> HIDE DEF new
<1>7. worker' \in [Worker -> Working \cup {Idle}] /\ WorkersMakePdfs'
  BY <1>5, <1>6, WorkerSet
<1> QED
  BY <1>1, <1>3, <1>7, QuietStep DEF Others, requestVars, storeVars, scheduleVars, StateTypeOK

LEMMA WorkerDiesStep ==
  ASSUME Inv, NEW w \in Worker, WorkerDies(w)
  PROVE  StepOK
<1>1. StateTypeOK /\ MaxFaults \in Nat
  BY StateType, DocumentsAssumption
<1>2. /\ faults < MaxFaults /\ faults' = faults + 1 /\ worker' = [worker EXCEPT ![w] = Idle]
      /\ locks' = { <<p[1], IF p[2] = w THEN None ELSE p[2]>> : p \in locks }
      /\ UNCHANGED <<Others, rows, scheduleVars>>
  BY DEF WorkerDies
<1>3. Idle.ids = {} /\ Idle.results = {} /\ Idle \in Working \cup {Idle}
  BY DEF Idle
<1>4. worker' \in [Worker -> Working \cup {Idle}] /\ WorkersMakePdfs'
  BY <1>2, <1>3, WorkerSet
<1>5. locks' \subseteq RowId \X (Worker \cup {None})
  BY <1>1, <1>2 DEF StateTypeOK
<1>6. faults' \in 0..MaxFaults /\ faults' >= faults
  BY <1>1, <1>2 DEF StateTypeOK
<1> QED
  BY <1>1, <1>2, <1>4, <1>5, <1>6, QuietStep DEF Others, requestVars, storeVars, scheduleVars, StateTypeOK

LEMMA LockExpiresStep ==
  ASSUME Inv, NEW p \in locks, LockExpires(p)
  PROVE  StepOK
<1>1. StateTypeOK /\ MaxFaults \in Nat
  BY StateType, DocumentsAssumption
<1>2. /\ locks' = locks \ {p} /\ (UNCHANGED faults \/ (faults < MaxFaults /\ faults' = faults + 1))
      /\ UNCHANGED <<Others, rows, scheduleVars, worker>>
  BY DEF LockExpires
<1>3. faults' \in 0..MaxFaults /\ faults' >= faults
  BY <1>1, <1>2 DEF StateTypeOK
<1>4. worker' \in [Worker -> Working \cup {Idle}] /\ WorkersMakePdfs'
  BY <1>1, <1>2, WorkersAlone DEF StateTypeOK
<1> QED
  BY <1>1, <1>2, <1>3, <1>4, QuietStep DEF Others, requestVars, storeVars, scheduleVars, StateTypeOK

LEMMA FallDueStep ==
  ASSUME Inv, NEW id \in RowId, FallDue(id)
  PROVE  StepOK
<1>1. StateTypeOK
  BY StateType
<1>2. /\ due' = due \cup {id} /\ older' = older \cup { <<x, id>> : x \in due }
      /\ UNCHANGED <<Others, rows, locks, worker, faults>>
  BY DEF FallDue
<1>3. due' \subseteq RowId /\ older' \subseteq RowId \X RowId
  BY <1>1, <1>2 DEF StateTypeOK
<1>4. WorkersMakePdfs'
  BY <1>2, WorkersAlone
<1> QED
  BY <1>1, <1>2, <1>3, <1>4, QuietStep DEF Others, requestVars, storeVars, StateTypeOK

(* What is checked spares what is recorded; what is not checked are copies   *)
LEMMA CleanStep ==
  ASSUME Inv, NEW c \in cleaning, Clean(c) \/ CleaningFails(c)
  PROVE  StepOK
<1>1. StateTypeOK
  BY StateType
<1>2. /\ cleaning' = cleaning \ {c}
      /\ UNCHANGED <<requestVars, rows, recorded, scheduleVars, locks, editor, worker, faults>>
      /\ lost' = lost \cup (Unused(c) \cap recorded) \/ lost' = lost
  BY DEF Clean, CleaningFails, storeVars
<1>3. \A k \in Unused(c) \cap recorded : ~k.made /\ faults > 0
  BY DEF Unused, Inv, CleaningSpares
<1>4. lost' \subseteq recorded /\ \A k \in lost' : k \in lost \/ (~k.made /\ faults > 0)
  BY <1>1, <1>2, <1>3 DEF StateTypeOK
<1>5. WorkersMakePdfs'
  BY <1>2, WorkersAlone
<1> QED
  BY <1>1, <1>2, <1>4, <1>5, QuietStep DEF requestVars, scheduleVars, StateTypeOK

-----------------------------------------------------------------------------
(* The invariant                                                            *)

LEMMA InitInv ==
  ASSUME Init
  PROVE  Inv
<1>1. /\ phase = [r \in Request |-> IF r \in Archived THEN "closed" ELSE "none"]
      /\ round = [r \in Request |-> IF r \in Archived THEN 1 ELSE 0]
      /\ step = [r \in Request |-> 0] /\ atSignature = [r \in Request |-> FALSE]
      /\ rows = [id \in Archive |-> NewRow(ArchivedFile(id))]
      /\ recorded = { ArchivedFile(id) : id \in Archive } /\ lost = {}
      /\ due = {} /\ older = {} /\ locks = {} /\ cleaning = {} /\ faults = 0
      /\ editor = [e \in Editor |-> Closed] /\ worker = [w \in Worker |-> Idle]
  BY DEF Init
<1>2. /\ 1 \in 1..MaxRound /\ 1 \in 1..MaxKey /\ 0 \in 0..MaxRound /\ 1 \in 0..MaxRound
      /\ MaxFaults \in Nat /\ Archived \subseteq Request
  BY DocumentsAssumption
<1>3. Archive \subseteq RowId /\ \A id \in Archive : id.request \in Archived /\ id.round = 1
  BY <1>2 DEF Archive, RowId
<1>4. \A id \in Archive : /\ ArchivedFile(id) \in Key /\ ArchivedFile(id).doc = id.doc
                          /\ ArchivedFile(id).made = FALSE
  BY <1>2, <1>3 DEF ArchivedFile, Key, RowId
<1>5. \A id \in Archive : /\ RowSound(id, rows[id]) /\ VersionsOf(rows[id]) = {ArchivedFile(id)}
                          /\ rows[id].log = <<>>
  BY <1>1, <1>4, NewRowSound
<1>6. RowsAreSound
  BY <1>1, <1>5 DEF RowsAreSound
<1>7. RoundsInTurn
  <2>1. \A r \in Request : phase[r] = "none" => round[r] = 0
    BY <1>1
  <2>2. \A id \in DOMAIN rows : id.round = 1 /\ phase[id.request] = "closed" /\ round[id.request] = 1
    BY <1>1, <1>2, <1>3
  <2>3. \A id \in DOMAIN rows : id.round <= Ahead(id.request)
    BY <2>2 DEF Ahead
  <2> QED
    BY <2>1, <2>3 DEF RoundsInTurn
<1>8. OpenCopies
  BY <1>1 DEF OpenCopies, Closed
<1>9. WorkersMakePdfs /\ CleaningSpares /\ VersionsAreStored
  BY <1>1 DEF WorkersMakePdfs, CleaningSpares, VersionsAreStored, Idle
<1>10. DocTypeOK
  <2>1. phase \in [Request -> {"none", "draft", "pending", "returned", "closed", "deleted"}]
    BY <1>1
  <2>2. round \in [Request -> 0..MaxRound] /\ step \in [Request -> Nat] /\ atSignature \in [Request -> BOOLEAN]
    BY <1>1, <1>2
  <2>3. DOMAIN rows \subseteq RowId /\ rows \in [DOMAIN rows -> Row]
    BY <1>1, <1>3, <1>5 DEF RowSound
  <2>4. \A id \in DOMAIN rows : rows[id].convert = "failed" => rows[id].attempts >= MaxAttempts
    BY <1>1, <1>5 DEF RowSound
  <2>5. recorded \subseteq Key /\ lost \subseteq recorded
    BY <1>1, <1>4
  <2>6. editor \in [Editor -> [request : Request \cup {None}, round : 0..MaxRound, current : BOOLEAN]]
    BY <1>1, <1>2 DEF Closed
  <2>7. worker \in [Worker -> Working \cup {Idle}] /\ faults \in 0..MaxFaults
    BY <1>1, <1>2
  <2> QED
    BY <1>1, <2>1, <2>2, <2>3, <2>4, <2>5, <2>6, <2>7 DEF DocTypeOK
<1> QED
  BY <1>6, <1>7, <1>8, <1>9, <1>10 DEF Inv

LEMMA NextStepOK ==
  ASSUME Inv, Next
  PROVE  StepOK
<1>1. CASE \E r \in Request : Create(r) \/ Delete(r) \/ Submit(r) \/ Pass(r) \/ Finish(r)
                              \/ Prepare(r) \/ Sign(r) \/ Return(r)
  BY <1>1, CreateStep, StatusStep, SubmitStep, PassStep, PrepareStep, SignActionStep, ReturnStep
<1>2. CASE \E r \in Request : \/ \E s \in Request : Clone(r, s)
                              \/ \E e \in Editor : EditRead(e, r)
  BY <1>2, CloneStep, EditReadStep
<1>3. CASE \E r \in Request, w \in Worker : Consume(w, r)
  <2>1. PICK r \in Request, w \in Worker : Process(w, r, {r})
    BY <1>3 DEF Consume
  <2>2. {r} \in SUBSET Request
    OBVIOUS
  <2> QED
    BY <2>1, <2>2, ProcessStep
<1>4. CASE \E e \in Editor : EditWrite(e) \/ EditFails(e)
  <2>1. CASE \E e \in Editor : EditWrite(e)
    BY <2>1, EditWriteStep
  <2>2. CASE \E e \in Editor : EditFails(e)
    BY <2>2, EditReadStep
  <2> QED
    BY <1>4, <2>1, <2>2
<1>5. CASE \E c \in cleaning : Clean(c) \/ CleaningFails(c)
  BY <1>5, CleanStep
<1>6. CASE \E w \in Worker : Scan(w) \/ Work(w) \/ WorkerDies(w)
  <2>1. CASE \E w \in Worker : Read(w)
    <3>1. PICK w \in Worker : \E r \in worker[w].todo : Process(w, r, worker[w].todo)
      BY <2>1 DEF Read
    <3>2. worker[w].todo \in SUBSET Request
      BY WorkerType
    <3> QED
      BY <3>1, <3>2, ProcessStep
  <2> QED
    BY <1>6, <2>1, ScanStep, WorkerDiesStep, RereadStep, ConvertActionStep, AttachActionStep, CleanUpStep
       DEF Work
<1>7. CASE \E id \in RowId : FallDue(id)
  BY <1>7, FallDueStep
<1>8. CASE \E p \in locks : LockExpires(p)
  BY <1>8, LockExpiresStep
<1> QED
  BY <1>1, <1>2, <1>3, <1>4, <1>5, <1>6, <1>7, <1>8 DEF Next

LEMMA NextInv ==
  ASSUME Inv, [Next]_vars
  PROVE  Inv'
<1>1. CASE Next
  BY <1>1, NextStepOK, StepKeepsInv
<1>2. CASE UNCHANGED vars
  BY <1>2 DEF vars, requestVars, storeVars, scheduleVars, Inv, DocTypeOK, RowsAreSound, RoundsInTurn, Ahead,
              OpenCopies, WorkersMakePdfs, CleaningSpares, VersionsAreStored
<1> QED
  BY <1>1, <1>2

(* What the documents' proofs rest on holds in every state *)
THEOREM DocumentsInvariant == Spec => []Inv
<1>1. Init => Inv
  BY InitInv
<1>2. Inv /\ [Next]_vars => Inv'
  BY NextInv
<1> QED
  BY <1>1, <1>2, PTL DEF Spec

-----------------------------------------------------------------------------
(* What was sent stands                                                     *)

LEMMA InvIsSound ==
  ASSUME Inv
  PROVE  DocumentsAreSound
<1>1. VersionsFormAChain
  <2>1. \A id \in DOMAIN rows : id \in RowId /\ Chain(rows[id])
                                /\ (rows[id].log # <<>> => id.round <= round[id.request])
    BY DEF Inv, DocTypeOK, RowsAreSound, RowSound
  <2> QED
    BY <2>1 DEF VersionsFormAChain, Chain, SentIds
<1> QED
  BY <1>1 DEF DocumentsAreSound, Inv

(* A version that was replaced by a conversion is where the next signature    *)
(* started, and one that a signature replaced or made is named by it         *)
LEMMA InvOpens ==
  ASSUME Inv
  PROVE  EveryVersionOpens
<1> SUFFICES ASSUME NEW r \in Request
             PROVE  /\ \A id \in SentOf(r) : \A i \in 1..Len(rows[id].log) :
                         {rows[id].log[i].from, rows[id].log[i].to} \subseteq Opens(r)
                    /\ PageFiles(r) \subseteq Opens(r)
                    /\ \A kind \in {"signed", "original"} : archive(r, kind) \subseteq PageFiles(r)
  BY DEF EveryVersionOpens
<1>1. \A id \in DOMAIN rows : id.request = r =>
        /\ {rows[id].original, rows[id].current} \subseteq Opens(r)
        /\ \A i \in Signatures(id) : {rows[id].log[i].from, rows[id].log[i].to} \subseteq Opens(r)
  BY DEF Opens
<1>2. ASSUME NEW id \in SentOf(r), NEW i \in 1..Len(rows[id].log)
      PROVE  {rows[id].log[i].from, rows[id].log[i].to} \subseteq Opens(r)
  <2> DEFINE row == rows[id]
             n == Len(row.log)
  <2>1. id \in DOMAIN rows /\ id.request = r
    BY DEF SentOf
  <2>2. RowSound(id, row)
    BY <2>1 DEF Inv, RowsAreSound
  <2>3. n \in Nat /\ \A j \in 1..n : row.log[j].signed \in BOOLEAN
    <3>1. row.log \in Seq(Change)
      BY <2>2 DEF RowSound, Row
    <3>2. \A j \in 1..n : row.log[j] \in Change
      BY <3>1
    <3> QED
      BY <3>1, <3>2 DEF Change
  <2>4. /\ row.current = IF n = 0 THEN row.original ELSE row.log[n].to
        /\ \A j \in 1..n : /\ row.log[j].from = IF j - 1 = 0 THEN row.original ELSE row.log[j - 1].to
                           /\ ~row.log[j].signed => j = 1
    BY <2>2 DEF RowSound, Chain
  <2>5. CASE row.log[i].signed
    <3>1. i \in Signatures(id)
      BY <2>5 DEF Signatures
    <3> QED
      BY <1>1, <2>1, <3>1
  <2>6. CASE ~row.log[i].signed
    <3>1. i = 1 /\ row.log[i].from = row.original
      BY <2>4, <2>6
    <3>2. row.log[i].to \in Opens(r)
      <4>1. CASE n = 1
        BY <4>1, <3>1, <2>1, <2>4, <1>1
      <4>2. CASE n > 1
        <5>1. 2 \in 1..n /\ 2 - 1 = 1 /\ 1 # 0 /\ 2 # 1
          BY <2>3, <4>2
        <5>2. row.log[2].from = row.log[1].to /\ row.log[2].signed
          BY <5>1, <2>4
        <5>3. 2 \in Signatures(id)
          BY <5>1, <5>2 DEF Signatures
        <5> QED
          BY <5>2, <5>3, <3>1, <2>1, <1>1
      <4>3. n = 1 \/ n > 1
        <5>1. i \in 1..n /\ n \in Nat
          BY <2>3
        <5> HIDE DEF n
        <5> QED
          BY <5>1
      <4> QED
        BY <4>1, <4>2, <4>3
    <3>3. row.log[i].from \in Opens(r)
      BY <3>1, <2>1, <1>1
    <3> QED
      BY <3>2, <3>3
  <2> QED
    BY <2>5, <2>6
<1>3. PageFiles(r) \subseteq Opens(r)
  <2>1. Shown(r) \subseteq Opens(r)
    BY <1>1 DEF Shown, RowsOf
  <2>2. groupRoundFiles(r) \subseteq Opens(r)
    <3> SUFFICES ASSUME NEW id \in SentOf(r)
                 PROVE  {rows[id].original, rows[id].current} \cup { rows[id].log[i].to : i \in Signatures(id) }
                          \subseteq Opens(r)
      BY DEF groupRoundFiles
    <3>1. id \in DOMAIN rows /\ id.request = r
      BY DEF SentOf
    <3> QED
      BY <3>1, <1>1
  <2> QED
    BY <2>1, <2>2 DEF PageFiles
<1>4. archive(r, "original") \subseteq PageFiles(r)
  BY DEF archive, buildArchiveEntries, PageFiles, Shown
<1>5. archive(r, "signed") \subseteq PageFiles(r)
  <2>1. CASE editing(r)
    BY <2>1 DEF archive
  <2>2. CASE ~editing(r)
    <3>1. archive(r, "signed") = { rows[id].current : id \in { x \in RowsOf(r, round[r]) : x.doc \notin Plain } }
      BY <2>2 DEF archive, buildArchiveEntries, shownRound
    <3>2. RowsOf(r, round[r]) \subseteq SentOf(r)
      BY DEF RowsOf, SentOf, Inv, DocTypeOK, RowId
    <3> QED
      BY <3>1, <3>2 DEF PageFiles, groupRoundFiles
  <2> QED
    BY <2>1, <2>2
<1> QED
  BY <1>2, <1>3, <1>4, <1>5

Frozen ==
  \A r \in Request, n \in 1..MaxRound :
    n <= round[r] =>
      /\ n <= round'[r]
      /\ { id \in DOMAIN rows' : id.request = r /\ id.round = n } = RowsOf(r, n)
      /\ \A id \in RowsOf(r, n) : rows'[id].original = rows[id].original

LEMMA StepFreezes ==
  ASSUME Inv, StepOK
  PROVE  Frozen
<1> SUFFICES ASSUME NEW r \in Request, NEW n \in 1..MaxRound, n <= round[r]
             PROVE  /\ n <= round'[r]
                    /\ { id \in DOMAIN rows' : id.request = r /\ id.round = n } = RowsOf(r, n)
                    /\ \A id \in RowsOf(r, n) : rows'[id].original = rows[id].original
  BY DEF Frozen
<1>1. n <= round'[r]
  <2>1. round[r] \in Nat /\ round'[r] \in Nat /\ round[r] <= round'[r]
    BY StateType DEF StepOK, StateTypeOK, RoundsGoUp
  <2> QED
    BY <2>1
<1>2. DOMAIN rows \subseteq RowId /\ DOMAIN rows' \subseteq RowId
  BY DEF Inv, DocTypeOK, StepOK, MayBecome
<1>3. \A id \in RowId : id.request = r /\ id.round = n =>
        /\ id \in DOMAIN rows' <=> id \in DOMAIN rows
        /\ id \in DOMAIN rows => rows'[id].original = rows[id].original
  BY DEF StepOK, MayBecome
<1> QED
  BY <1>1, <1>2, <1>3 DEF RowsOf

(* Only sending moves a round on, and only a return makes a request returned *)
OtherwiseAlone ==
  \/ UNCHANGED <<phase, round>>
  \/ \E q \in Request : /\ round' = round /\ \A o \in Request \ {q} : phase'[o] = phase[o]
                        /\ phase'[q] \in {"draft", "deleted", "closed", "pending"}

LEMMA WhoMovesRounds ==
  ASSUME Inv, Next
  PROVE  \/ \E q \in Request : Submit(q)
         \/ \E q \in Request : Return(q) /\ phase' = [phase EXCEPT ![q] = "returned"]
         \/ OtherwiseAlone
<1>0. phase \in [Request -> {"none", "draft", "pending", "returned", "closed", "deleted"}]
  BY DEF Inv, DocTypeOK
<1>1. ASSUME NEW q \in Request, Create(q) \/ Delete(q) \/ Finish(q)
      PROVE  OtherwiseAlone
  <2>1. /\ round' = round
        /\ \E p \in {"draft", "deleted", "closed"} : phase' = [phase EXCEPT ![q] = p]
    BY <1>1 DEF Create, Delete, Finish
  <2> QED
    BY <1>0, <2>1 DEF OtherwiseAlone
<1>2. ASSUME NEW q \in Request, NEW R, NEW done, Arrive(q, R, done), round' = round
      PROVE  OtherwiseAlone
  <2>1. \E p \in {"closed", "pending"} : phase' = [phase EXCEPT ![q] = p]
    BY <1>2 DEF Arrive
  <2> QED
    BY <1>0, <1>2, <2>1 DEF OtherwiseAlone
<1>3. ASSUME NEW q \in Request, Pass(q) \/ Sign(q) \/ Prepare(q)
      PROVE  OtherwiseAlone
  <2>1. CASE Pass(q)
    BY <2>1, <1>2 DEF Pass, NextStep
  <2>2. CASE Prepare(q)
    BY <2>2 DEF Prepare, requestVars, OtherwiseAlone
  <2>3. CASE Sign(q)
    <3>1. \/ UNCHANGED requestVars
          \/ NextStep(q) /\ Arrive(q, SignedRows(q), ToConvert(q))
      BY <2>3 DEF Sign, SignedRows, SignKey, RollsBack
    <3> QED
      BY <3>1, <1>2 DEF requestVars, NextStep, OtherwiseAlone
  <2> QED
    BY <1>3, <2>1, <2>2, <2>3
<1>4. ASSUME NEW q \in Request, Return(q)
      PROVE  OtherwiseAlone \/ phase' = [phase EXCEPT ![q] = "returned"]
  BY <1>4 DEF Return, RollsBack, requestVars, OtherwiseAlone
<1>5. ASSUME NEW q \in Request, NEW s \in Request, Clone(q, s)
      PROVE  OtherwiseAlone
  <2>1. UNCHANGED <<phase, round>> \/ (round' = round /\ phase' = [phase EXCEPT ![q] = "draft"])
    BY <1>5 DEF Clone, RollsBack, requestVars
  <2> QED
    BY <1>0, <2>1 DEF OtherwiseAlone
<1>6. CASE \/ \E r \in Request : (\E e \in Editor : EditRead(e, r)) \/ (\E w \in Worker : Consume(w, r))
           \/ \E e \in Editor : EditWrite(e) \/ EditFails(e)
           \/ \E c \in cleaning : Clean(c) \/ CleaningFails(c)
           \/ \E w \in Worker : Scan(w) \/ Work(w) \/ WorkerDies(w)
           \/ \E id \in RowId : FallDue(id)
           \/ \E p \in locks : LockExpires(p)
  <2>1. UNCHANGED requestVars
    BY <1>6 DEF EditRead, Consume, Process, EditWrite, EditFails, Clean, CleaningFails, Scan, Work, Read, Reread,
                Convert, Attach, CleanUp, WorkerDies, FallDue, LockExpires, Others
  <2> QED
    BY <2>1 DEF requestVars, OtherwiseAlone
<1> QED
  BY <1>1, <1>3, <1>4, <1>5, <1>6 DEF Next

PageKept ==
  \A r \in Request :
    /\ round'[r] # round[r] => Shown(r)' = Shown(r)
    /\ phase[r] = "pending" /\ phase'[r] = "returned" =>
         { k.doc : k \in Shown(r)' } = { k.doc : k \in Shown(r) }

LEMMA StepKeepsPage ==
  ASSUME Inv, Next
  PROVE  PageKept
<1>1. StateTypeOK /\ StateTypeOK' /\ DOMAIN rows \subseteq RowId /\ DOMAIN rows' \subseteq RowId
  BY StateType, NextStepOK DEF StepOK, MayBecome, Inv, DocTypeOK
<1>2. ASSUME NEW q \in Request, Submit(q)
      PROVE  PageKept
  <2>1. /\ phase[q] \in {"draft", "returned"} /\ round' = [round EXCEPT ![q] = @ + 1]
        /\ Arrive(q, rows, {})
    BY <1>2 DEF Submit
  <2>2. /\ DOMAIN rows' = DOMAIN rows
        /\ \A id \in DOMAIN rows : rows'[id].original = rows[id].original
        /\ phase'[q] \in {"closed", "pending"}
        /\ \A o \in Request \ {q} : phase'[o] = phase[o]
    <3>1. recorded \subseteq recorded
      OBVIOUS
    <3> QED
      BY <2>1, <3>1, TheSameRows, ArriveStep DEF SameVersions
  <2>3. round'[q] = round[q] + 1 /\ \A o \in Request \ {q} : round'[o] = round[o]
    BY <1>1, <2>1 DEF StateTypeOK
  <2>4. Shown(q)' = Shown(q)
    <3>1. shownRound(q) = round[q] + 1 /\ shownRound(q)' = round[q] + 1
      BY <2>1, <2>2, <2>3 DEF shownRound, editing, draftRound
    <3> QED
      BY <2>2, <3>1 DEF Shown, RowsOf
  <2> QED
    BY <2>2, <2>3, <2>4 DEF PageKept
<1>3. ASSUME NEW q \in Request, Return(q), phase' = [phase EXCEPT ![q] = "returned"]
      PROVE  PageKept
  <2> DEFINE ids == RowsOf(q, round[q])
             n == draftRound(q)
             C == CopyRows(q, n, ids)
  <2>1. phase[q] = "pending" /\ round[q] < MaxRound /\ CopiesPossible(q, n, ids)
    BY <1>3 DEF Return
  <2>2. \A o \in Request : phase'[o] = IF o = q THEN "returned" ELSE phase[o]
    BY <1>1, <1>3 DEF StateTypeOK
  <2>3. phase # phase'
    BY <2>1, <2>2
  <2>4. rows' = Put(rows, C) /\ round' = round
    BY <1>3, <2>3 DEF Return, RollsBack, requestVars
  <2>5. n \in 1..MaxRound /\ n = round[q] + 1 /\ n > round[q] /\ ids \in SUBSET DOMAIN rows /\ round[q] \in Nat
    BY <1>1, <2>1, DocumentsAssumption DEF StateTypeOK, draftRound, RowsOf
  <2>6. DOMAIN C = { [request |-> q, round |-> n, doc |-> id.doc] : id \in ids }
    BY DEF CopyRows
  <2> HIDE DEF C, n
  <2>7. DOMAIN rows' = DOMAIN rows \cup DOMAIN C
    BY <2>4, PutType
  <2>8. /\ shownRound(q) = round[q] /\ shownRound(q)' = n
    BY <2>1, <2>2, <2>4, <2>5 DEF shownRound, editing, draftRound
  <2>9. { id \in DOMAIN rows' : id.request = q /\ id.round = n } = DOMAIN C
    <3>1. ASSUME NEW id \in DOMAIN rows, id.request = q, id.round = n PROVE FALSE
      <4>1. id.round <= round[q]
        BY <2>1, <3>1 DEF Inv, RoundsInTurn, Ahead
      <4> QED
        BY <4>1, <3>1, <2>5
    <3>2. \A id \in DOMAIN C : id.request = q /\ id.round = n
      BY <2>6
    <3> QED
      BY <2>7, <3>1, <3>2
  <2>10. \A id \in DOMAIN rows : rows[id].original.doc = id.doc
    BY DEF Inv, RowsAreSound, RowSound
  <2>11. \A id \in DOMAIN rows' : rows'[id].original.doc = id.doc
    BY NextStepOK DEF StepOK, MayBecome, RowSound
  <2>12. { k.doc : k \in Shown(q) } = { id.doc : id \in ids }
    BY <2>8, <2>10, <2>5 DEF Shown
  <2>13. { k.doc : k \in Shown(q)' } = { id.doc : id \in DOMAIN C }
    <3>1. RowsOf(q, shownRound(q))' = { id \in DOMAIN rows' : id.request = q /\ id.round = shownRound(q)' }
      BY DEF RowsOf
    <3>2. RowsOf(q, shownRound(q))' = DOMAIN C
      BY <3>1, <2>8, <2>9
    <3>3. Shown(q)' = { rows'[id].original : id \in DOMAIN C }
      BY <3>2 DEF Shown
    <3> QED
      BY <3>3, <2>7, <2>11
  <2>14. { id.doc : id \in DOMAIN C } = { id.doc : id \in ids }
    <3>1. \A id \in ids : \E x \in DOMAIN C : x.doc = id.doc
      <4>1. SUFFICES ASSUME NEW id \in ids PROVE \E x \in DOMAIN C : x.doc = id.doc
        OBVIOUS
      <4>2. [request |-> q, round |-> n, doc |-> id.doc] \in DOMAIN C
        BY <2>6
      <4> QED
        BY <4>2
    <3>2. \A x \in DOMAIN C : \E id \in ids : x.doc = id.doc
      BY <2>6
    <3> QED
      BY <3>1, <3>2
  <2> QED
    BY <2>2, <2>4, <2>12, <2>13, <2>14 DEF PageKept
<1>4. CASE OtherwiseAlone
  BY <1>4 DEF OtherwiseAlone, PageKept
<1> QED
  BY <1>2, <1>3, <1>4, WhoMovesRounds

(* What was sent can be relied on: its versions form chains whose objects are *)
(* kept, all of them open, no set changes after it was sent, and what was    *)
(* sent is what the page showed (setRequestFiles, signAndApprove, Attach of   *)
(* the conversion, deleteUnusedObjects)                                      *)
THEOREM SentFilesStandAlways == Spec => SentFilesStand
<1>1. Inv => DocumentsAreSound /\ EveryVersionOpens
  BY InvIsSound, InvOpens
<1>2. Inv /\ [Next]_vars => [Frozen]_vars /\ [PageKept]_vars
  BY NextStepOK, StepFreezes, StepKeepsPage
<1>3. Spec => []Inv /\ [][Next]_vars
  BY DocumentsInvariant DEF Spec
<1>4. SentFilesFrozen <=> [][Frozen]_vars
  BY DEF SentFilesFrozen, Frozen
<1>5. PageShowsWhatIsSent <=> [][PageKept]_vars
  BY DEF PageShowsWhatIsSent, PageKept
<1> QED
  BY <1>1, <1>2, <1>3, <1>4, <1>5, PTL DEF SentFilesStand

(* The versions a row names, the one in use and those it replaced            *)
VersionsAreKept ==
  \A id \in DOMAIN rows : \A k \in VersionsOf(rows[id]) :
    k \in recorded /\ (k.made => k \notin lost) /\ (faults = 0 => k \notin lost)

(* Whatever a row names is recorded, and nobody's PDF was deleted: neither a  *)
(* version in use nor one that a later change replaced (deleteUnusedObjects)  *)
THEOREM VersionsAreKeptAlways == Spec => []VersionsAreKept
<1>1. Inv => VersionsAreKept
  BY DEF Inv, RowsAreSound, VersionsAreStored, VersionsAreKept
<1> QED
  BY <1>1, DocumentsInvariant, PTL

=============================================================================
