----------------------------- MODULE PeopleProofs -----------------------------
(***************************************************************************)
(* What holds of SigningCertificates for any number of calls and enrolments, *)
(* of Directory for any people, rights, requests and saves, of RequestTalk   *)
(* for any people, groups, depth, comments, shares and rounds, and of        *)
(* Approvers for any directory, question and number of changes.              *)
(*                                                                         *)
(* Certificates.  As long as every row is saved as it was read, each save    *)
(* finds what its call had checked: an approval closes exactly the others    *)
(* that are active, and what is open and younger than something pending was   *)
(* enrolled beside it, so what was not is younger than what it will replace.  *)
(* A key is made for one row alone and never made again, so a row that is    *)
(* closed after its key was destroyed stays without it.                      *)
(*                                                                         *)
(* Directory.  A save that did not touch the principal has not changed the   *)
(* name it read; an account is made before its row, and by one request       *)
(* alone, so nothing is kept of a person whose row is still to come; and     *)
(* every save that changes what the guard would load leaves a request that   *)
(* will drop the entry, or excuses it.                                       *)
(*                                                                         *)
(* Shares and comments.  A reply names an earlier comment, and what was read  *)
(* of that one - how deep it hangs, in which round it was written - never     *)
(* changes, so it still holds when the reply is stored.  No thread is deeper  *)
(* than the page reads, and what is kept for something below it is found      *)
(* before the search ends.                                                   *)
(*                                                                         *)
(* Finding approvers.  What was read, was so since the question.  Of a        *)
(* directory at rest, the departments passed had nobody who may be asked, and *)
(* those still to be tried in this one are all who may be, the first choice   *)
(* first; a chain of command that comes back to a department goes on as       *)
(* before, so a way that went round would have stopped there the first time.  *)
(***************************************************************************)
EXTENDS SigningCertificates, Directory, RequestTalk, Approvers, FiniteSetTheorems, SequenceTheorems, WellFoundedInduction, TLAPS

Cert ==
  [key : Nat, status : {"pending", "active", "revoked", "rejected"}, deleted : BOOLEAN, expired : BOOLEAN, beside : BOOLEAN]
Seen == [cert : Nat \ {0}, status : {"pending", "active"}, deleted : {FALSE}]
Of(seen) == { s.cert : s \in seen }

(* What a call has in its hands at each of its steps *)
CallRecords ==
  [op : {"none", "list"}]
    \cup [op : {"enroll"}, open : SUBSET Seen]
    \cup [op : {"enrolled"}, open : SUBSET Seen, key : Nat]
    \cup [op : {"issue"}, seen : Seen]
    \cup [op : {"approve"}, seen : Seen, others : SUBSET Seen]
    \cup [op : {"destroy", "close"}, as : DOMAIN Closing, seen : Seen]
    \cup [op : {"sweep"}, seen : SUBSET Seen, left : SUBSET (Nat \ {0})]

TypeOK ==
  /\ certs \in Seq(Cert) /\ made \in Nat /\ keys \subseteq 1..made
  /\ active \in BOOLEAN /\ cut \in BOOLEAN /\ crossed \in BOOLEAN
  /\ call \in [Call -> CallRecords]

(* A key belongs to one row, or to the call that will save it *)
KeysOK ==
  /\ \A k \in DOMAIN certs : certs[k].key \in 1..made
  /\ \A k, j \in DOMAIN certs : certs[k].key = certs[j].key => k = j
  /\ \A c \in Call : call[c].op = "enrolled" =>
       /\ call[c].key \in keys
       /\ \A k \in DOMAIN certs : certs[k].key # call[c].key
       /\ \A d \in Call \ {c} : call[d].op = "enrolled" => call[d].key # call[c].key

(* What a call has read of the rows, and the keys it has destroyed *)
HandOK(r) ==
  /\ r.op \in {"issue", "approve", "destroy", "close"} => r.seen.cert \in DOMAIN certs
  /\ r.op \in {"issue", "approve"} => r.seen.status = "pending"
  /\ r.op = "approve" => Of(r.others) \subseteq DOMAIN certs
  /\ r.op \in {"destroy", "close"} => r.seen.status = Closing[r.as]
  /\ r.op = "close" => certs[r.seen.cert].key \notin keys
  /\ r.op = "sweep" =>
       /\ Of(r.seen) \subseteq DOMAIN certs
       /\ ~cut => \A k \in Of(r.seen) \ r.left : certs[k].key \notin keys

(* The rows, as long as none was saved over what another call had changed *)
Active == Rows({"active"})
Waiting == Rows({"pending"})
OneEach ==
  /\ \A k, j \in Active : k = j
  /\ \A p \in Waiting, k \in Open : k > p => certs[k].beside
  /\ \A p \in Waiting, u \in Active : u < p => certs[u].expired \/ certs[p].beside

KeysKept == \A k \in Open : certs[k].key \in keys \/ InHand(k) \/ Sweeping
KeysGone == \A k \in DOMAIN certs \ Open : certs[k].key \in keys => Replaced(k)
LockedOut == ~active /\ ~Sweeping => Open = {}

Inv ==
  /\ TypeOK /\ KeysOK
  /\ \A c \in Call : HandOK(call[c])
  /\ ~crossed => OneEach /\ (~cut => KeysKept /\ KeysGone /\ LockedOut)

-----------------------------------------------------------------------------

LEMMA InitOK ==
  ASSUME CertificatesInit
  PROVE  Inv
<1>1. certs \in Seq(Cert) /\ DOMAIN certs = {} /\ made = 0 /\ keys = {}
  BY EmptySeq DEF CertificatesInit
<1>2. Resting \in CallRecords
  BY DEF Resting, CallRecords
<1>3. TypeOK
  <2>1. call \in [Call -> CallRecords]
    BY <1>2 DEF CertificatesInit
  <2>2. made \in Nat /\ keys \subseteq 1..made
    BY <1>1
  <2>3. active \in BOOLEAN /\ cut \in BOOLEAN /\ crossed \in BOOLEAN
    BY DEF CertificatesInit
  <2> QED
    BY <1>1, <2>1, <2>2, <2>3 DEF TypeOK
<1>4. KeysOK /\ \A c \in Call : HandOK(call[c])
  BY <1>1 DEF CertificatesInit, Resting, KeysOK, HandOK
<1>5. \A S : Rows(S) = {}
  BY <1>1 DEF Rows
<1>6. OneEach /\ KeysKept /\ KeysGone /\ LockedOut
  BY <1>1, <1>5 DEF CertificatesInit, OneEach, Active, Waiting, KeysKept, KeysGone, LockedOut, Open
<1> QED
  BY <1>3, <1>4, <1>6 DEF Inv

(* A call goes on, the others stay where they are                            *)
Moves(c, to) ==
  /\ call' \in [Call -> CallRecords] /\ call'[c] = to
  /\ \A d \in Call \ {c} : call'[d] = call[d]
LEMMA GoesOK ==
  ASSUME TypeOK, NEW c \in Call, NEW to \in CallRecords, Goes(c, to)
  PROVE  Moves(c, to)
BY DEF TypeOK, Goes, Moves

LEMMA CertsAre ==
  ASSUME TypeOK
  PROVE  /\ Len(certs) \in Nat /\ DOMAIN certs = 1..Len(certs)
         /\ \A k \in DOMAIN certs : certs[k] \in Cert /\ k \in Nat \ {0}
<1>1. Len(certs) \in Nat /\ DOMAIN certs = 1..Len(certs) /\ certs \in [1..Len(certs) -> Cert]
  BY LenProperties DEF TypeOK
<1> QED
  BY <1>1

(* Rows that are saved, and no new one                                       *)
LEMMA SavedOK ==
  ASSUME TypeOK, DOMAIN certs' = DOMAIN certs, certs' = [k \in DOMAIN certs |-> certs'[k]],
         \A k \in DOMAIN certs : certs'[k] \in Cert
  PROVE  certs' \in Seq(Cert)
<1>1. Len(certs) \in Nat /\ DOMAIN certs = 1..Len(certs)
  BY CertsAre
<1>2. certs' \in [1..Len(certs) -> Cert]
  BY <1>1
<1> QED
  BY <1>1, <1>2, SeqDef

LEMMA RowsStay ==
  ASSUME UNCHANGED certs
  PROVE  (\A S : Rows(S)' = Rows(S)) /\ Open' = Open /\ Active' = Active /\ Waiting' = Waiting
BY DEF Rows, Open, Active, Waiting

(* A call takes a step that touches no row and no key, and holds no key it is *)
(* about to destroy                                                         *)
Closes(r) == r.op \in {"destroy", "close"}
Sweeps(r) == r.op \in {"list", "sweep"}

LEMMA OnlyTheCall ==
  ASSUME Inv, NEW c \in Call, NEW to \in CallRecords, Goes(c, to), HandOK(to),
         UNCHANGED <<certs, keys, made, active, cut, crossed>>,
         to.op # "enrolled",
         Closes(call[c]) => Closes(to) /\ to.seen.cert = call[c].seen.cert,
         Sweeps(call[c]) => Sweeps(to)
  PROVE  Inv'
<1>1. Moves(c, to)
  BY GoesOK DEF Inv
<1>2. TypeOK'
  BY <1>1 DEF Inv, TypeOK, Moves
<1>3. KeysOK'
  BY <1>1 DEF Inv, KeysOK, Moves
<1>4. \A d \in Call : HandOK(call[d])'
  BY <1>1 DEF Inv, HandOK, Moves
<1>5. OneEach => OneEach'
  BY RowsStay DEF OneEach
<1>6. KeysKept => KeysKept'
  <2>1. ASSUME NEW k, InHand(k) PROVE InHand(k)'
    BY <1>1, <2>1 DEF InHand, Moves, Closes
  <2>2. Sweeping => Sweeping'
    BY <1>1 DEF Sweeping, Moves, Sweeps
  <2> QED
    BY <2>1, <2>2, RowsStay DEF KeysKept
<1>7. KeysGone => KeysGone'
  BY RowsStay DEF KeysGone, Replaced
<1>8. LockedOut => LockedOut'
  <2>1. Sweeping => Sweeping'
    BY <1>1 DEF Sweeping, Moves, Sweeps
  <2> QED
    BY <2>1, RowsStay DEF LockedOut
<1> QED
  BY <1>2, <1>3, <1>4, <1>5, <1>6, <1>7, <1>8 DEF Inv

(* What a call reads                                                         *)
LEMMA SawIs ==
  ASSUME TypeOK, NEW k \in Open
  PROVE  Saw(k) \in Seen /\ Saw(k).cert = k /\ Saw(k).status = certs[k].status /\ k \in DOMAIN certs
<1>1. k \in DOMAIN certs /\ certs[k].status \in {"pending", "active"} /\ ~certs[k].deleted
  BY DEF Open, Rows
<1>2. certs[k] \in Cert /\ k \in Nat \ {0}
  BY <1>1, CertsAre
<1>3. certs[k].deleted = FALSE
  BY <1>1, <1>2 DEF Cert
<1> QED
  BY <1>1, <1>2, <1>3 DEF Saw, Seen

LEMMA RowsAreOpen ==
  /\ Active \subseteq Open /\ Waiting \subseteq Open /\ Open \subseteq DOMAIN certs
  /\ \A k \in Active : certs[k].status = "active"
  /\ \A k \in Waiting : certs[k].status = "pending"
  /\ Open = Active \cup Waiting
BY DEF Active, Waiting, Open, Rows

LEMMA AskOK ==
  ASSUME Inv, NEW c \in Call,
         \/ AskEnroll(c)
         \/ \E k \in DOMAIN certs : AskApprove(c, k) \/ \E op \in DOMAIN Closing : AskClose(c, op, k)
         \/ Issue(c)
  PROVE  Inv'
<1>0. TypeOK /\ UNCHANGED <<certs, keys, made, active, cut, crossed>>
  BY DEF Inv, AskEnroll, AskApprove, AskClose, Issue
<1>1. CASE AskEnroll(c)
  <2> DEFINE open == { Saw(k) : k \in Open }
             to == [op |-> "enroll", open |-> open]
  <2>0. open \in SUBSET Seen
    BY <1>0, SawIs
  <2>1. to \in CallRecords /\ HandOK(to) /\ to.op # "enrolled"
    <3> HIDE DEF open
    <3> QED
      BY <2>0 DEF CallRecords, HandOK
  <2>2. Goes(c, to) /\ ~Closes(call[c]) /\ ~Sweeps(call[c])
    BY <1>1 DEF AskEnroll, Resting, Closes, Sweeps
  <2> QED
    BY <1>0, <2>1, <2>2, OnlyTheCall
<1>2. ASSUME NEW k \in DOMAIN certs, AskApprove(c, k) PROVE Inv'
  <2> DEFINE to == [op |-> "issue", seen |-> Saw(k)]
  <2>0. k \in Waiting
    BY <1>2 DEF AskApprove, Waiting
  <2>1. Saw(k) \in Seen /\ Saw(k).cert = k /\ Saw(k).status = "pending"
    BY <1>0, <2>0, SawIs, RowsAreOpen
  <2>2. to \in CallRecords /\ HandOK(to) /\ to.op # "enrolled"
    BY <2>1 DEF CallRecords, HandOK
  <2>3. Goes(c, to) /\ ~Closes(call[c]) /\ ~Sweeps(call[c])
    BY <1>2 DEF AskApprove, Resting, Closes, Sweeps
  <2> QED
    BY <1>0, <2>2, <2>3, OnlyTheCall
<1>3. ASSUME NEW k \in DOMAIN certs, NEW op \in DOMAIN Closing, AskClose(c, op, k) PROVE Inv'
  <2> DEFINE to == [op |-> "destroy", as |-> op, seen |-> Saw(k)]
  <2>0. k \in Open /\ certs[k].status = Closing[op]
    BY <1>3 DEF AskClose, Closing, Open, Rows
  <2>1. Saw(k) \in Seen /\ Saw(k).cert = k /\ Saw(k).status = Closing[op]
    BY <1>0, <2>0, SawIs
  <2>2. to \in CallRecords /\ HandOK(to) /\ to.op # "enrolled"
    BY <2>1 DEF CallRecords, HandOK
  <2>3. Goes(c, to) /\ ~Closes(call[c]) /\ ~Sweeps(call[c])
    BY <1>3 DEF AskClose, Resting, Closes, Sweeps
  <2> QED
    BY <1>0, <2>2, <2>3, OnlyTheCall
<1>4. CASE Issue(c)
  <2>0. call[c].op = "issue" /\ call[c] \in CallRecords /\ HandOK(call[c])
    BY <1>4 DEF Issue, Inv, TypeOK
  <2>1. call[c].seen \in Seen /\ call[c].seen.cert \in DOMAIN certs /\ call[c].seen.status = "pending"
    BY <2>0 DEF CallRecords, HandOK
  <2>2. ~Closes(call[c]) /\ ~Sweeps(call[c])
    BY <2>0 DEF Closes, Sweeps
  <2>3. CASE Goes(c, Resting)
    <3>1. Resting \in CallRecords /\ HandOK(Resting) /\ Resting.op # "enrolled"
      BY DEF Resting, CallRecords, HandOK
    <3> QED
      BY <1>0, <2>2, <2>3, <3>1, OnlyTheCall
  <2> DEFINE others == { Saw(j) : j \in ActiveBesides(call[c].seen.cert) }
             to == [op |-> "approve", seen |-> call[c].seen, others |-> others]
  <2>4. CASE Goes(c, to)
    <3>1. \A j \in ActiveBesides(call[c].seen.cert) : Saw(j) \in Seen /\ Saw(j).cert \in DOMAIN certs
      BY <1>0, SawIs, RowsAreOpen DEF ActiveBesides, Active
    <3>2. others \in SUBSET Seen /\ Of(others) \subseteq DOMAIN certs
      BY <3>1 DEF Of
    <3> HIDE DEF others
    <3>3. to \in CallRecords /\ HandOK(to) /\ to.op # "enrolled"
      BY <2>1, <3>2 DEF CallRecords, HandOK
    <3> QED
      BY <1>0, <2>2, <2>4, <3>3, OnlyTheCall
  <2> QED
    BY <1>4, <2>3, <2>4 DEF Issue
<1> QED
  BY <1>1, <1>2, <1>3, <1>4

(* The person is locked, and the sweep looks what is open                    *)
LEMMA ListOpenOK ==
  ASSUME Inv, NEW c \in Call, ListOpen(c)
  PROVE  Inv'
<1> DEFINE seen == { Saw(k) : k \in Open }
           to == [op |-> "sweep", seen |-> seen, left |-> Open]
<1>0. TypeOK /\ Goes(c, to) /\ UNCHANGED <<certs, keys, made, active, cut, crossed>> /\ call[c].op = "list"
  BY DEF ListOpen, Inv
<1>1. \A k \in Open : Saw(k) \in Seen /\ Saw(k).cert = k /\ k \in DOMAIN certs /\ k \in Nat \ {0}
  BY <1>0, SawIs, CertsAre
<1>2. seen \in SUBSET Seen /\ Of(seen) = Open /\ Open \subseteq DOMAIN certs /\ Open \in SUBSET (Nat \ {0})
  BY <1>1 DEF Of
<1> HIDE DEF seen
<1>3. to \in CallRecords /\ HandOK(to) /\ to.op = "sweep"
  BY <1>2 DEF CallRecords, HandOK
<1>4. ~Closes(call[c]) /\ Sweeps(to)
  BY <1>0 DEF Closes, Sweeps
<1> QED
  BY <1>0, <1>3, <1>4, OnlyTheCall

(* What a call has in its hands, by its step                                 *)
LEMMA HandsAre ==
  ASSUME Inv, NEW c \in Call
  PROVE  /\ call[c].op = "enrolled" => call[c].key \in Nat
         /\ call[c].op \in {"enroll", "enrolled"} => call[c].open \in SUBSET Seen
         /\ call[c].op \in {"issue", "approve", "destroy", "close"} =>
              call[c].seen \in Seen /\ call[c].seen.cert \in DOMAIN certs
         /\ call[c].op = "approve" => call[c].others \in SUBSET Seen /\ call[c].seen.status = "pending"
         /\ call[c].op \in {"destroy", "close"} =>
              call[c].as \in DOMAIN Closing /\ call[c].seen.status = Closing[call[c].as]
         /\ call[c].op = "sweep" => call[c].seen \in SUBSET Seen /\ call[c].left \in SUBSET (Nat \ {0})
<1>1. call[c] \in CallRecords /\ HandOK(call[c])
  BY DEF Inv, TypeOK
<1> QED
  BY <1>1 DEF CallRecords, HandOK

LEMMA CreateKeyOK ==
  ASSUME Inv, NEW c \in Call, CreateKey(c)
  PROVE  Inv'
<1>0. TypeOK /\ call[c].op = "enroll" /\ UNCHANGED <<certs, active, cut, crossed>>
  BY DEF CreateKey, Inv
<1>1. ~Closes(call[c]) /\ ~Sweeps(call[c])
  BY <1>0 DEF Closes, Sweeps
<1>2. CASE UNCHANGED <<made, keys>> /\ Goes(c, Resting)
  <2>1. Resting \in CallRecords /\ HandOK(Resting) /\ Resting.op # "enrolled"
    BY DEF Resting, CallRecords, HandOK
  <2> QED
    BY <1>0, <1>1, <1>2, <2>1, OnlyTheCall
<1> DEFINE to == [op |-> "enrolled", open |-> call[c].open, key |-> made + 1]
<1>3. CASE made' = made + 1 /\ keys' = keys \cup {made + 1} /\ Goes(c, to)
  <2>1. to \in CallRecords /\ to.op = "enrolled" /\ to.key = made + 1
    BY <1>0, HandsAre DEF CallRecords, TypeOK
  <2> HIDE DEF to
  <2>2. Moves(c, to)
    BY <1>0, <1>3, <2>1, GoesOK
  <2>3. \A x \in 1..made : x \in 1..made' /\ x # made + 1
    BY <1>0, <1>3 DEF TypeOK
  <2>4. TypeOK'
    BY <1>0, <1>3, <2>2, <2>3 DEF TypeOK, Moves
  <2>5. KeysOK'
    <3>1. \A k \in DOMAIN certs : certs[k].key \in 1..made /\ (\A j \in DOMAIN certs : certs[k].key = certs[j].key => k = j)
      BY DEF Inv, KeysOK
    <3>2. \A d \in Call \ {c} : call[d].op = "enrolled" =>
            /\ call[d].key \in keys /\ call[d].key \in 1..made
            /\ \A k \in DOMAIN certs : certs[k].key # call[d].key
            /\ \A e \in Call \ {d} : call[e].op = "enrolled" => call[e].key # call[d].key
      BY <1>0 DEF Inv, KeysOK, TypeOK
    <3> QED
      BY <1>0, <1>3, <2>1, <2>2, <2>3, <3>1, <3>2 DEF KeysOK, Moves
  <2>6. \A k \in DOMAIN certs : certs[k].key \in keys' <=> certs[k].key \in keys
    BY <1>3, <2>3 DEF Inv, KeysOK
  <2>7. \A d \in Call : HandOK(call[d])'
    BY <1>0, <2>1, <2>2, <2>6 DEF Inv, HandOK, Moves
  <2>8. OneEach => OneEach'
    BY <1>0, RowsStay DEF OneEach
  <2>9. (\A k : InHand(k) => InHand(k)') /\ (Sweeping <=> Sweeping')
    BY <1>1, <2>1, <2>2 DEF InHand, Sweeping, Moves, Closes, Sweeps
  <2>10. (KeysKept => KeysKept') /\ (KeysGone => KeysGone') /\ (LockedOut => LockedOut')
    BY <1>0, <2>6, <2>9, RowsStay, RowsAreOpen DEF KeysKept, KeysGone, LockedOut, Replaced
  <2> QED
    BY <1>0, <2>4, <2>5, <2>7, <2>8, <2>10 DEF Inv
<1> QED
  BY <1>2, <1>3 DEF CreateKey

LEMMA SaveEnrolledOK ==
  ASSUME Inv, NEW c \in Call, SaveEnrolled(c)
  PROVE  Inv'
<1> DEFINE beside == \E k \in Open : ~Renewable(k)
           new == [key |-> call[c].key, status |-> "pending", deleted |-> FALSE, expired |-> FALSE, beside |-> beside]
           n == Len(certs) + 1
<1>0. /\ TypeOK /\ call[c].op = "enrolled" /\ UNCHANGED <<keys, made, active, cut>>
      /\ crossed' = (crossed \/ ~active \/ { Saw(k) : k \in Open } # call[c].open)
      /\ certs' = Append(certs, new) /\ Goes(c, Resting)
  BY DEF SaveEnrolled, Inv
<1>1. /\ new \in Cert /\ new.key = call[c].key /\ new.status = "pending" /\ ~new.deleted
      /\ ~new.beside => \A k \in Open : Renewable(k)
  <2>1. beside \in BOOLEAN
    OBVIOUS
  <2>2. ~beside => \A k \in Open : Renewable(k)
    OBVIOUS
  <2> HIDE DEF beside
  <2> QED
    BY <1>0, <2>1, <2>2, HandsAre DEF Cert
<1>2. Resting \in CallRecords /\ Resting.op = "none"
  BY DEF Resting, CallRecords
<1>3. Moves(c, Resting)
  BY <1>0, <1>2, GoesOK
<1>4. certs' \in Seq(Cert) /\ Len(certs') = n /\ certs'[n] = new /\ \A k \in 1..Len(certs) : certs'[k] = certs[k]
  <2> HIDE DEF new
  <2> QED
    BY <1>0, <1>1 DEF TypeOK
<1>5. /\ DOMAIN certs' = DOMAIN certs \cup {n} /\ n \notin DOMAIN certs /\ certs'[n] = new
      /\ \A k \in DOMAIN certs : certs'[k] = certs[k] /\ k < n
  <2>1. Len(certs) \in Nat /\ DOMAIN certs = 1..Len(certs)
    BY <1>0, CertsAre
  <2>2. DOMAIN certs' = 1..n
    BY <1>4, LenProperties
  <2> HIDE DEF new
  <2> QED
    BY <1>4, <2>1, <2>2
<1> HIDE DEF new, n
<1>6. TypeOK'
  BY <1>0, <1>3, <1>4 DEF TypeOK, Moves
<1>7. KeysOK'
  <2>1. call[c].key \in keys /\ (\A k \in DOMAIN certs : certs[k].key # call[c].key) /\ call[c].key \in 1..made
    BY <1>0 DEF Inv, KeysOK, TypeOK
  <2>2. \A d \in Call \ {c} : call'[d].op = "enrolled" => call[d].op = "enrolled" /\ call'[d] = call[d] /\ call[d].key # call[c].key
    BY <1>0, <1>3 DEF Inv, KeysOK, Moves
  <2>3. call'[c].op # "enrolled"
    BY <1>2, <1>3 DEF Moves
  <2>4. \A k \in DOMAIN certs' : certs'[k].key \in 1..made'
    BY <1>0, <1>1, <1>5, <2>1 DEF Inv, KeysOK
  <2>5. \A k, j \in DOMAIN certs' : certs'[k].key = certs'[j].key => k = j
    BY <1>1, <1>5, <2>1 DEF Inv, KeysOK
  <2>6. \A d \in Call : call'[d].op = "enrolled" => \A k \in DOMAIN certs' : certs'[k].key # call'[d].key
    BY <1>1, <1>5, <2>2, <2>3 DEF Inv, KeysOK
  <2>7. \A d \in Call : call'[d].op = "enrolled" =>
          /\ call'[d].key \in keys'
          /\ \A e \in Call \ {d} : call'[e].op = "enrolled" => call'[e].key # call'[d].key
    BY <1>0, <2>2, <2>3 DEF Inv, KeysOK
  <2> QED
    BY <2>4, <2>5, <2>6, <2>7 DEF KeysOK
<1>8. \A d \in Call : HandOK(call[d])'
  BY <1>0, <1>2, <1>3, <1>5 DEF Inv, HandOK, Moves
<1>9. /\ \A S : Rows(S)' = Rows(S) \cup (IF "pending" \in S THEN {n} ELSE {})
  BY <1>1, <1>5 DEF Rows
<1>10. Active' = Active /\ Waiting' = Waiting \cup {n} /\ Open' = Open \cup {n}
  BY <1>9 DEF Active, Waiting, Open
<1>11. ASSUME ~crossed' PROVE OneEach'
  <2>1. OneEach
    BY <1>0, <1>11 DEF Inv
  <2>2. \A k \in Open : k \in DOMAIN certs /\ certs'[k] = certs[k] /\ k < n /\ ~(k > n) /\ ~(n < k)
    <3>1. n \in Nat /\ \A k \in DOMAIN certs : k \in Nat
      BY <1>0, CertsAre DEF n
    <3> QED
      BY <1>5, <3>1, RowsAreOpen
  <2>3. ~certs'[n].beside => \A k \in Open : certs[k].status = "active" /\ certs[k].expired
    BY <1>1, <1>5 DEF Renewable
  <2>4. \A k, j \in Active' : k = j
    BY <1>10, <2>1 DEF OneEach
  <2>5. \A p \in Waiting', k \in Open' : k > p => certs'[k].beside
    <3>1. \A p \in Waiting, k \in Open : k > p => certs'[k].beside
      BY <2>1, <2>2 DEF OneEach
    <3>2. Waiting # {} => certs'[n].beside
      BY <2>3, RowsAreOpen
    <3>3. ~(n > n)
      BY <1>0, CertsAre DEF n
    <3> QED
      BY <1>10, <2>2, <3>1, <3>2, <3>3
  <2>6. \A p \in Waiting', u \in Active' : u < p => certs'[u].expired \/ certs'[p].beside
    <3>1. \A p \in Waiting, u \in Active : u < p => certs'[u].expired \/ certs'[p].beside
      BY <2>1, <2>2, RowsAreOpen DEF OneEach
    <3>2. \A u \in Active : certs'[u].expired \/ certs'[n].beside
      BY <2>2, <2>3, RowsAreOpen
    <3> QED
      BY <1>10, <3>1, <3>2
  <2> QED
    BY <2>4, <2>5, <2>6 DEF OneEach
<1>12. ASSUME ~crossed', ~cut' PROVE KeysKept' /\ KeysGone' /\ LockedOut'
  <2>1. ~crossed /\ ~cut /\ active /\ KeysKept /\ KeysGone
    BY <1>0, <1>12 DEF Inv, TypeOK
  <2>2. (\A k : InHand(k) => InHand(k)') /\ (Sweeping => Sweeping')
    BY <1>0, <1>3 DEF InHand, Sweeping, Moves
  <2>3. new.key \in keys
    BY <1>0, <1>1 DEF Inv, KeysOK
  <2>4. KeysKept'
    BY <1>0, <1>5, <1>10, <2>1, <2>2, <2>3, RowsAreOpen DEF KeysKept
  <2>5. KeysGone'
    BY <1>0, <1>5, <1>10, <2>1 DEF KeysGone, Replaced
  <2> QED
    BY <1>0, <2>1, <2>4, <2>5 DEF LockedOut
<1> QED
  BY <1>6, <1>7, <1>8, <1>11, <1>12 DEF Inv

(* The key is destroyed before the row is closed                             *)
LEMMA DestroyOK ==
  ASSUME Inv, NEW c \in Call, Destroy(c)
  PROVE  Inv'
<1> DEFINE to == [call[c] EXCEPT !.op = "close"]
           s == call[c].seen.cert
<1>0. /\ TypeOK /\ call[c].op = "destroy" /\ UNCHANGED <<certs, made, active, cut, crossed>>
      /\ keys' = keys \ {certs[s].key} /\ Goes(c, to) /\ call[c] \in CallRecords
  BY DEF Destroy, Inv, TypeOK
<1>1. to \in CallRecords /\ to.op = "close" /\ to.seen = call[c].seen /\ to.as = call[c].as
  BY <1>0 DEF CallRecords
<1>2. s \in DOMAIN certs /\ call[c].seen.status = Closing[call[c].as]
  BY <1>0, HandsAre
<1> HIDE DEF to, s
<1>3. Moves(c, to)
  BY <1>0, <1>1, GoesOK
<1>4. TypeOK'
  BY <1>0, <1>3 DEF TypeOK, Moves
<1>5. KeysOK'
  BY <1>0, <1>1, <1>2, <1>3 DEF Inv, KeysOK, Moves
<1>6. HandOK(call[c])'
  BY <1>0, <1>1, <1>2, <1>3 DEF HandOK, Moves, s
<1>7. \A d \in Call : HandOK(call[d])'
  BY <1>0, <1>3, <1>6 DEF Inv, HandOK, Moves
<1>8. OneEach => OneEach'
  BY <1>0, RowsStay DEF OneEach
<1>9. InHand(s)' /\ (\A k : InHand(k) => InHand(k)') /\ (Sweeping <=> Sweeping')
  <2>1. InHand(s)' /\ (Sweeping <=> Sweeping')
    BY <1>0, <1>1, <1>3 DEF InHand, Sweeping, Moves, s
  <2>2. ASSUME NEW k, InHand(k) PROVE InHand(k)'
    BY <1>0, <1>1, <1>3, <2>2 DEF InHand, Moves
  <2> QED
    BY <2>1, <2>2
<1>10. KeysKept => KeysKept'
  <2>1. \A k \in DOMAIN certs : k # s => certs[k].key # certs[s].key
    BY <1>2 DEF Inv, KeysOK
  <2>2. Open' = Open /\ Open \subseteq DOMAIN certs
    BY <1>0, RowsStay, RowsAreOpen
  <2>3. ASSUME KeysKept, NEW k \in Open PROVE certs'[k].key \in keys' \/ InHand(k)' \/ Sweeping'
    <3>1. certs[k].key \in keys \/ InHand(k) \/ Sweeping
      BY <2>3 DEF KeysKept
    <3>2. k # s => certs[k].key # certs[s].key
      BY <2>1, <2>2
    <3>3. k = s => InHand(k)'
      <4>1. s' = s
        BY <1>1, <1>3 DEF Moves, s
      <4> QED
        BY <1>9, <4>1
    <3> QED
      BY <1>0, <1>9, <3>1, <3>2, <3>3
  <2> QED
    BY <2>2, <2>3 DEF KeysKept
<1>11. (KeysGone => KeysGone') /\ (LockedOut => LockedOut')
  BY <1>0, <1>9, RowsStay DEF KeysGone, LockedOut, Replaced
<1> QED
  BY <1>0, <1>4, <1>5, <1>7, <1>8, <1>10, <1>11 DEF Inv

(* updateActive, remove                                                      *)
LEMMA LockOK ==
  ASSUME Inv, NEW c \in Call, Lock(c)
  PROVE  Inv'
<1> DEFINE to == [op |-> "list"]
<1>0. /\ TypeOK /\ call[c].op = "none" /\ UNCHANGED <<certs, keys, made, cut, crossed>>
      /\ active' = FALSE /\ Goes(c, to)
  BY DEF Lock, Inv, Resting
<1>1. to \in CallRecords /\ to.op = "list"
  BY DEF CallRecords
<1> HIDE DEF to
<1>2. Moves(c, to)
  BY <1>0, <1>1, GoesOK
<1>3. TypeOK'
  BY <1>0, <1>2 DEF TypeOK, Moves
<1>4. KeysOK'
  BY <1>0, <1>1, <1>2 DEF Inv, KeysOK, Moves
<1>5. \A d \in Call : HandOK(call[d])'
  BY <1>0, <1>1, <1>2 DEF Inv, HandOK, Moves
<1>6. (\A k : InHand(k) => InHand(k)') /\ Sweeping'
  BY <1>0, <1>1, <1>2 DEF InHand, Sweeping, Moves
<1>7. (OneEach => OneEach') /\ (KeysKept => KeysKept') /\ (KeysGone => KeysGone') /\ LockedOut'
  BY <1>0, <1>6, RowsStay DEF OneEach, KeysKept, KeysGone, LockedOut, Replaced
<1> QED
  BY <1>0, <1>3, <1>4, <1>5, <1>7 DEF Inv

(* The sweep destroys one key, or cannot                                     *)
LEMMA SweepOneOK ==
  ASSUME Inv, NEW c \in Call, NEW k \in DOMAIN certs, SweepOne(c, k)
  PROVE  Inv'
<1> DEFINE to == [call[c] EXCEPT !.left = @ \ {k}]
<1>0. /\ TypeOK /\ call[c].op = "sweep" /\ UNCHANGED <<certs, made, active, crossed>>
      /\ Goes(c, to) /\ call[c] \in CallRecords /\ HandOK(call[c])
      /\ \/ keys' = keys \ {certs[k].key} /\ cut' = cut
         \/ keys' = keys /\ cut' = TRUE
  BY DEF SweepOne, Inv, TypeOK
<1>1. to \in CallRecords /\ to.op = "sweep" /\ to.seen = call[c].seen /\ to.left = call[c].left \ {k}
  BY <1>0 DEF CallRecords
<1> HIDE DEF to
<1>3. Moves(c, to)
  BY <1>0, <1>1, GoesOK
<1>4. TypeOK'
  BY <1>0, <1>3 DEF TypeOK, Moves
<1>5. KeysOK'
  BY <1>0, <1>1, <1>3 DEF Inv, KeysOK, Moves
<1>6. HandOK(call[c])'
  BY <1>0, <1>1, <1>3 DEF HandOK, Moves
<1>7. \A d \in Call : HandOK(call[d])'
  BY <1>0, <1>3, <1>6 DEF Inv, TypeOK, HandOK, Moves
<1>8. Sweeping' /\ Sweeping
  BY <1>0, <1>1, <1>3 DEF Sweeping, Moves
<1>9. (OneEach => OneEach') /\ KeysKept' /\ LockedOut'
  BY <1>0, <1>8, RowsStay DEF OneEach, KeysKept, LockedOut
<1>10. KeysGone => KeysGone'
  BY <1>0, RowsStay DEF KeysGone, Replaced
<1> QED
  BY <1>0, <1>4, <1>5, <1>7, <1>9, <1>10 DEF Inv, TypeOK

(* notAfter has passed                                                       *)
LEMMA ExpireOK ==
  ASSUME Inv, NEW k \in DOMAIN certs, ExpireCertificate(k)
  PROVE  Inv'
<1>0. TypeOK /\ certs' = [certs EXCEPT ![k].expired = TRUE] /\ UNCHANGED <<keys, made, active, call, cut, crossed>>
  BY DEF ExpireCertificate, Inv
<1>1. \A x \in Cert : LET y == [x EXCEPT !.expired = TRUE] IN
        y \in Cert /\ y.key = x.key /\ y.status = x.status /\ y.deleted = x.deleted /\ y.beside = x.beside /\ y.expired
  BY DEF Cert
<1>2. /\ DOMAIN certs' = DOMAIN certs
      /\ \A j \in DOMAIN certs :
           /\ certs'[j] \in Cert /\ certs'[j].key = certs[j].key /\ certs'[j].status = certs[j].status
           /\ certs'[j].deleted = certs[j].deleted /\ certs'[j].beside = certs[j].beside
           /\ (certs[j].expired => certs'[j].expired)
      /\ certs' = [j \in DOMAIN certs |-> certs'[j]]
  BY <1>0, <1>1, CertsAre
<1>3. certs' \in Seq(Cert)
  BY <1>0, <1>2, SavedOK
<1>4. TypeOK'
  BY <1>0, <1>3 DEF TypeOK
<1>5. KeysOK' /\ \A d \in Call : HandOK(call[d])'
  BY <1>0, <1>2 DEF Inv, KeysOK, HandOK
<1>6. (\A S : Rows(S)' = Rows(S)) /\ (\A j : InHand(j)' <=> InHand(j)) /\ (Sweeping' <=> Sweeping)
  BY <1>0, <1>2 DEF Rows, InHand, Sweeping
<1>7. Open' = Open /\ Active' = Active /\ Waiting' = Waiting
  BY <1>6 DEF Open, Active, Waiting
<1>8. (OneEach => OneEach') /\ (KeysKept => KeysKept') /\ (LockedOut => LockedOut')
  BY <1>0, <1>2, <1>6, <1>7, RowsAreOpen DEF OneEach, KeysKept, LockedOut
<1>9. KeysGone => KeysGone'
  BY <1>0, <1>2, <1>7 DEF KeysGone, Replaced
<1> QED
  BY <1>0, <1>4, <1>5, <1>8, <1>9 DEF Inv

(* A call is cut short between two steps                                     *)
LEMMA CutOK ==
  ASSUME Inv, NEW c \in Call, Cut(c)
  PROVE  Inv'
<1>0. TypeOK /\ cut' = TRUE /\ Goes(c, Resting) /\ UNCHANGED <<certs, keys, made, active, crossed>>
  BY DEF Cut, Inv
<1>1. Resting \in CallRecords /\ Resting.op = "none"
  BY DEF Resting, CallRecords
<1>2. Moves(c, Resting)
  BY <1>0, <1>1, GoesOK
<1>3. TypeOK'
  BY <1>0, <1>2 DEF TypeOK, Moves
<1>4. KeysOK' /\ \A d \in Call : HandOK(call[d])'
  BY <1>0, <1>1, <1>2 DEF Inv, KeysOK, HandOK, Moves
<1>5. OneEach => OneEach'
  BY <1>0, RowsStay DEF OneEach
<1> QED
  BY <1>0, <1>3, <1>4, <1>5 DEF Inv

-----------------------------------------------------------------------------
(* What a call saves last: the status of rows, or that they are deleted      *)
Saves(c) ==
  /\ Goes(c, Resting) /\ UNCHANGED <<keys, made, active, cut>> /\ crossed' \in BOOLEAN
  /\ DOMAIN certs' = DOMAIN certs /\ certs' = [k \in DOMAIN certs |-> certs'[k]]
  /\ \A k \in DOMAIN certs : certs'[k] \in Cert /\ certs'[k].key = certs[k].key /\ certs'[k].expired = certs[k].expired
                             /\ certs'[k].beside = certs[k].beside

LEMMA SavesOK ==
  ASSUME Inv, NEW c \in Call, Saves(c)
  PROVE  TypeOK' /\ KeysOK' /\ (\A d \in Call : HandOK(call[d])') /\ Moves(c, Resting) /\ Resting.op = "none"
<1>0. TypeOK
  BY DEF Inv
<1>1. Resting \in CallRecords /\ Resting.op = "none"
  BY DEF Resting, CallRecords
<1>2. Moves(c, Resting)
  BY <1>0, <1>1, GoesOK DEF Saves
<1>3. certs' \in Seq(Cert)
  BY <1>0, SavedOK DEF Saves
<1>4. TypeOK'
  BY <1>0, <1>2, <1>3 DEF Saves, TypeOK, Moves
<1>5. KeysOK' /\ \A d \in Call : HandOK(call[d])'
  BY <1>1, <1>2 DEF Saves, Inv, KeysOK, HandOK, Moves
<1> QED
  BY <1>1, <1>2, <1>4, <1>5

LEMMA SaveClosedOK ==
  ASSUME Inv, NEW c \in Call, SaveClosed(c)
  PROVE  Inv'
<1> DEFINE seen == call[c].seen
           s == call[c].seen.cert
           as == call[c].as
<1>0. /\ TypeOK /\ call[c].op = "close" /\ UNCHANGED <<keys, made, active, cut>> /\ Goes(c, Resting)
      /\ certs' = [certs EXCEPT ![s] = Closed(certs[s], as)]
      /\ crossed' = (crossed \/ ~Unchanged(seen))
  BY DEF SaveClosed, Inv
<1>1. s \in DOMAIN certs /\ as \in DOMAIN Closing /\ seen.status = Closing[as] /\ seen \in Seen /\ certs[s].key \notin keys
  BY <1>0, HandsAre DEF Inv, HandOK
<1>2. as \in {"cancel", "reject", "revoke"}
  BY <1>1 DEF Closing
<1>3. \A x \in Cert :
        /\ Closed(x, as) \in Cert /\ Closed(x, as).key = x.key /\ Closed(x, as).expired = x.expired /\ Closed(x, as).beside = x.beside
        /\ as = "cancel" => Closed(x, as).deleted /\ Closed(x, as).status = x.status
        /\ as = "reject" => Closed(x, as).status = "rejected"
        /\ as = "revoke" => Closed(x, as).status = "revoked"
  BY <1>2 DEF Closed, Cert
<1>4. /\ DOMAIN certs' = DOMAIN certs /\ certs' = [k \in DOMAIN certs |-> certs'[k]]
      /\ certs'[s] = Closed(certs[s], as) /\ \A k \in DOMAIN certs \ {s} : certs'[k] = certs[k]
  BY <1>0, <1>1
<1>5. Saves(c)
  BY <1>0, <1>1, <1>3, <1>4, CertsAre DEF Saves, TypeOK
<1>6. TypeOK' /\ KeysOK' /\ (\A d \in Call : HandOK(call[d])') /\ Moves(c, Resting) /\ Resting.op = "none"
  BY <1>5, SavesOK
<1>7. /\ Open' = Open \ {s} /\ Active' = Active \ {s} /\ Waiting' = Waiting \ {s}
  <2>1. /\ s \notin Open' /\ s \notin Active' /\ s \notin Waiting'
    BY <1>1, <1>2, <1>3, <1>4, CertsAre, <1>0 DEF Open, Active, Waiting, Rows
  <2> QED
    BY <1>4, <2>1 DEF Open, Active, Waiting, Rows
<1>8. ASSUME ~crossed' PROVE OneEach'
  <2>1. OneEach
    BY <1>0, <1>8 DEF Inv
  <2> QED
    BY <1>4, <1>7, <2>1, RowsAreOpen DEF OneEach
<1>9. ASSUME ~crossed', ~cut' PROVE KeysKept' /\ KeysGone' /\ LockedOut'
  <2>1. ~crossed /\ KeysKept /\ KeysGone /\ LockedOut /\ certs[s].status = Closing[as]
    BY <1>0, <1>1, <1>9 DEF Inv, Unchanged
  <2>2. Sweeping' <=> Sweeping
    BY <1>0, <1>6 DEF Sweeping, Moves
  <2>3. \A k \in DOMAIN certs \ {s} : InHand(k) => InHand(k)'
    BY <1>0, <1>6 DEF InHand, Moves
  <2>4. KeysKept'
    BY <1>0, <1>4, <1>7, <2>1, <2>2, <2>3, RowsAreOpen DEF KeysKept
  <2>5. \A k \in DOMAIN certs : Replaced(k) => Replaced(k)'
    <3>1. certs[s].status \in {"active", "revoked"} => certs'[s].status \in {"active", "revoked"}
      BY <1>0, <1>1, <1>2, <1>3, <1>4, <2>1, CertsAre DEF Closing
    <3> QED
      BY <1>4, <1>5, <3>1 DEF Replaced, Saves
  <2>6. KeysGone'
    <3> SUFFICES ASSUME NEW k \in DOMAIN certs, k \notin Open \ {s}, certs[k].key \in keys PROVE Replaced(k)'
      BY <1>0, <1>4, <1>5, <1>7 DEF KeysGone, Saves
    <3>1. k # s
      BY <1>1
    <3> QED
      BY <2>1, <2>5, <3>1 DEF KeysGone
  <2>7. LockedOut'
    BY <1>0, <1>7, <2>1, <2>2 DEF LockedOut
  <2> QED
    BY <2>4, <2>6, <2>7
<1> QED
  BY <1>6, <1>8, <1>9 DEF Inv

(* approve: whatever else was active is closed                               *)
LEMMA SaveApprovedOK ==
  ASSUME Inv, NEW c \in Call, SaveApproved(c)
  PROVE  Inv'
<1> DEFINE seen == call[c].seen
           s == call[c].seen.cert
           others == Of(call[c].others)
<1>0. /\ TypeOK /\ call[c].op = "approve" /\ UNCHANGED <<keys, made, active, cut>> /\ Goes(c, Resting)
      /\ certs' = [k \in DOMAIN certs |->
                     IF k = s THEN [certs[k] EXCEPT !.status = "active"]
                     ELSE IF k \in others THEN [certs[k] EXCEPT !.status = "revoked"] ELSE certs[k]]
      /\ crossed' = (crossed \/ ~active \/ (\E o \in {seen} \cup call[c].others : ~Unchanged(o))
                       \/ others # ActiveBesides(s))
  BY DEF SaveApproved, Inv, Of
<1>1. s \in DOMAIN certs /\ seen \in Seen /\ seen.status = "pending" /\ seen.deleted = FALSE
  BY <1>0, HandsAre DEF Seen
<1>2. \A x \in Cert, t \in {"active", "revoked"} : LET y == [x EXCEPT !.status = t] IN
        y \in Cert /\ y.key = x.key /\ y.expired = x.expired /\ y.beside = x.beside /\ y.deleted = x.deleted /\ y.status = t
  BY DEF Cert
<1> HIDE DEF others
<1>3. /\ DOMAIN certs' = DOMAIN certs /\ certs' = [k \in DOMAIN certs |-> certs'[k]]
      /\ certs'[s].status = "active"
      /\ \A k \in others : k \in DOMAIN certs /\ k # s => certs'[k].status = "revoked"
      /\ \A k \in DOMAIN certs : k # s /\ k \notin others => certs'[k] = certs[k]
      /\ \A k \in DOMAIN certs : /\ certs'[k] \in Cert /\ certs'[k].key = certs[k].key
                                 /\ certs'[k].expired = certs[k].expired /\ certs'[k].deleted = certs[k].deleted
                                 /\ certs'[k].beside = certs[k].beside
  BY <1>0, <1>1, <1>2, CertsAre
<1>4. Saves(c)
  BY <1>0, <1>3 DEF Saves, TypeOK
<1>5. TypeOK' /\ KeysOK' /\ (\A d \in Call : HandOK(call[d])') /\ Moves(c, Resting) /\ Resting.op = "none"
  BY <1>4, SavesOK
<1>6. ASSUME ~crossed' PROVE OneEach' /\ (~cut' => KeysKept' /\ KeysGone' /\ LockedOut')
  <2>1. ~crossed /\ active /\ Unchanged(seen) /\ others = ActiveBesides(s) /\ OneEach
    BY <1>0, <1>6 DEF Inv
  <2>2. certs[s].status = "pending" /\ ~certs[s].deleted
    BY <1>1, <2>1 DEF Unchanged
  <2>3. s \in Waiting /\ others = Active
    <3>1. s \in Waiting /\ s \notin Active
      BY <1>1, <2>2 DEF Waiting, Active, Rows
    <3>2. others = Active
      BY <2>1, <3>1 DEF ActiveBesides, Active
    <3> QED
      BY <3>1, <3>2
  <2>4. Active' = {s} /\ Waiting' = Waiting \ {s}
    <3>1. \A k \in DOMAIN certs : k # s => certs'[k].status # "active" \/ certs'[k].deleted
      BY <1>3, <2>3 DEF Active, Rows
    <3>2. Active' = {s}
      BY <1>1, <1>3, <2>2, <3>1 DEF Active, Rows
    <3>3. \A k \in DOMAIN certs : k \in Waiting' <=> k \in Waiting \ {s}
      BY <1>3, <2>3 DEF Waiting, Active, Rows
    <3> QED
      BY <1>3, <3>2, <3>3 DEF Waiting, Rows
  <2>5. Open' = (Waiting \ {s}) \cup {s}
    <3>1. (Open = Active \cup Waiting)'
      BY <1>3 DEF Open, Active, Waiting, Rows
    <3> QED
      BY <2>4, <3>1
  <2>6. OneEach'
    <3>1. \A p \in Waiting' : p \in Waiting /\ p \in Open /\ p # s /\ certs'[p] = certs[p]
      BY <1>3, <2>3, <2>4, RowsAreOpen DEF Active, Waiting, Rows
    <3>2. s \in Open /\ certs'[s].beside = certs[s].beside
      BY <1>1, <1>3, <2>3, RowsAreOpen
    <3>3. \A p \in Waiting', k \in Open' : k > p => certs'[k].beside
      BY <2>1, <2>4, <2>5, <3>1, <3>2 DEF OneEach
    <3>4. \A p \in Waiting' : s < p => certs'[p].beside
      BY <2>1, <2>3, <3>1, <1>0, CertsAre, RowsAreOpen DEF OneEach
    <3> QED
      BY <2>4, <3>3, <3>4 DEF OneEach
  <2>7. ASSUME ~cut' PROVE KeysKept' /\ KeysGone' /\ LockedOut'
    <3>1. KeysKept /\ KeysGone
      BY <1>0, <2>1, <2>7 DEF Inv
    <3>2. (\A k : InHand(k) => InHand(k)') /\ (Sweeping => Sweeping')
      BY <1>0, <1>5 DEF InHand, Sweeping, Moves
    <3>3. KeysKept'
      BY <1>0, <1>1, <1>3, <2>3, <2>5, <3>1, <3>2, RowsAreOpen DEF KeysKept
    <3>4. \A k \in DOMAIN certs : Replaced(k) => Replaced(k)'
      BY <1>3, <2>2 DEF Replaced
    <3>5. \A k \in Active : Replaced(k)'
      <4> SUFFICES ASSUME NEW k \in Active PROVE Replaced(k)'
        OBVIOUS
      <4>1. k \in Open /\ k \in DOMAIN certs /\ k # s /\ k \in Nat /\ s \in Nat
        BY <1>0, <1>1, <1>3, <2>3, CertsAre, RowsAreOpen
      <4>2. s > k \/ certs[k].beside
        BY <2>1, <2>3, <4>1 DEF OneEach
      <4> QED
        BY <1>1, <1>3, <4>1, <4>2 DEF Replaced
    <3>6. KeysGone'
      BY <1>0, <1>3, <2>3, <2>5, <3>1, <3>4, <3>5, RowsAreOpen DEF KeysGone
    <3>7. LockedOut'
      BY <1>0, <2>1 DEF LockedOut
    <3> QED
      BY <3>3, <3>6, <3>7
  <2> QED
    BY <2>6, <2>7
<1> QED
  BY <1>5, <1>6 DEF Inv

(* revokeAllForUser: everything it had found open is closed                  *)
LEMMA SaveSweptOK ==
  ASSUME Inv, NEW c \in Call, SaveSwept(c)
  PROVE  Inv'
<1> DEFINE seen == call[c].seen
           swept == Of(seen)
           status == [k \in swept |-> (CHOOSE o \in seen : o.cert = k).status]
<1>0. /\ TypeOK /\ call[c].op = "sweep" /\ call[c].left = {}
      /\ UNCHANGED <<keys, made, active, cut>> /\ Goes(c, Resting)
      /\ certs' = [k \in DOMAIN certs |->
                     IF k \in swept
                     THEN [certs[k] EXCEPT !.status = IF status[k] = "active" THEN "revoked" ELSE "rejected"]
                     ELSE certs[k]]
      /\ crossed' = (crossed \/ Open # swept \/ \E o \in seen : ~Unchanged(o))
  BY DEF SaveSwept, Inv, Of
<1>1. /\ swept \subseteq DOMAIN certs /\ seen \in SUBSET Seen
      /\ ~cut => \A k \in swept : certs[k].key \notin keys
  BY <1>0, HandsAre DEF Inv, HandOK
<1>2. \A k \in swept : \E o \in seen : o.cert = k /\ status[k] = o.status
  BY DEF Of
<1>3. \A x \in Cert, t \in {"rejected", "revoked"} : LET y == [x EXCEPT !.status = t] IN
        y \in Cert /\ y.key = x.key /\ y.expired = x.expired /\ y.beside = x.beside /\ y.deleted = x.deleted /\ y.status = t
  BY DEF Cert
<1>4. /\ DOMAIN certs' = DOMAIN certs /\ certs' = [k \in DOMAIN certs |-> certs'[k]]
      /\ \A k \in swept : certs'[k].status = IF status[k] = "active" THEN "revoked" ELSE "rejected"
      /\ \A k \in DOMAIN certs \ swept : certs'[k] = certs[k]
      /\ \A k \in DOMAIN certs : certs'[k] \in Cert /\ certs'[k].key = certs[k].key /\ certs'[k].expired = certs[k].expired
                                 /\ certs'[k].beside = certs[k].beside
  <2> DEFINE to(k) == IF status[k] = "active" THEN "revoked" ELSE "rejected"
  <2>1. /\ DOMAIN certs' = DOMAIN certs /\ certs' = [k \in DOMAIN certs |-> certs'[k]]
        /\ \A k \in DOMAIN certs : certs'[k] = IF k \in swept THEN [certs[k] EXCEPT !.status = to(k)] ELSE certs[k]
    <3> HIDE DEF status, swept
    <3> QED
      BY <1>0
  <2>2. \A k : to(k) \in {"rejected", "revoked"}
    OBVIOUS
  <2>3. \A k \in DOMAIN certs : certs[k] \in Cert
    BY <1>0, CertsAre
  <2> HIDE DEF to, status, swept
  <2>4. \A k \in swept : LET y == [certs[k] EXCEPT !.status = to(k)] IN
          y \in Cert /\ y.key = certs[k].key /\ y.expired = certs[k].expired /\ y.beside = certs[k].beside /\ y.status = to(k)
    <3> TAKE k \in swept
    <3> DEFINE x == certs[k]
    <3>1. x \in Cert /\ to(k) \in {"rejected", "revoked"}
      BY <1>1, <2>2, <2>3
    <3> HIDE DEF x
    <3>2. LET y == [x EXCEPT !.status = to(k)] IN
          y \in Cert /\ y.key = x.key /\ y.expired = x.expired /\ y.beside = x.beside /\ y.deleted = x.deleted /\ y.status = to(k)
      BY ONLY <1>3, <3>1
    <3> QED
      BY <3>2 DEF x
  <2>5. \A k \in swept : certs'[k].status = to(k)
    BY <1>1, <2>1, <2>4
  <2>6. \A k \in DOMAIN certs : certs'[k] \in Cert /\ certs'[k].key = certs[k].key /\ certs'[k].expired = certs[k].expired
                                 /\ certs'[k].beside = certs[k].beside
    BY <2>1, <2>3, <2>4
  <2> QED
    BY <2>1, <2>5, <2>6 DEF to
<1> HIDE DEF status, swept
<1>5. Saves(c)
  BY <1>0, <1>4 DEF Saves, TypeOK
<1>6. TypeOK' /\ KeysOK' /\ (\A d \in Call : HandOK(call[d])') /\ Moves(c, Resting) /\ Resting.op = "none"
  BY <1>5, SavesOK
<1>7. ASSUME ~crossed' PROVE OneEach' /\ (~cut' => KeysKept' /\ KeysGone' /\ LockedOut')
  <2>1. ~crossed /\ swept = Open /\ \A o \in seen : Unchanged(o)
    BY <1>0, <1>7
  <2>2. \A k \in swept : status[k] = certs[k].status
    BY <1>2, <2>1 DEF Unchanged
  <2>3. Open' = {}
    BY <1>4, <2>1 DEF Open, Rows
  <2>4. (Active \subseteq Open /\ Waiting \subseteq Open)'
    BY <1>4 DEF Open, Active, Waiting, Rows
  <2>5. OneEach'
    BY <2>3, <2>4 DEF OneEach
  <2>6. ASSUME ~cut' PROVE KeysGone'
    <3>1. KeysGone /\ \A k \in swept : certs[k].key \notin keys
      BY <1>0, <1>1, <2>1, <2>6 DEF Inv
    <3>2. \A j \in DOMAIN certs : certs[j].status \in {"active", "revoked"} => certs'[j].status \in {"active", "revoked"}
      <4>1. \A j \in swept : certs[j].status = "active" \/ certs[j].status = "pending"
        BY <2>1 DEF Open, Rows
      <4> QED
        BY <1>4, <2>2, <4>1
    <3>3. \A k \in DOMAIN certs : Replaced(k) => Replaced(k)'
      BY <1>4, <3>2 DEF Replaced
    <3> QED
      BY <1>0, <1>4, <2>1, <3>1, <3>3 DEF KeysGone
  <2> QED
    BY <2>3, <2>5, <2>6 DEF KeysKept, LockedOut
<1> QED
  BY <1>6, <1>7 DEF Inv

-----------------------------------------------------------------------------
CertificatesSpec == CertificatesInit /\ [][CertificatesNext]_certificateVars

LEMMA StutterOK ==
  ASSUME Inv, UNCHANGED certificateVars
  PROVE  Inv'
<1>1. TypeOK' /\ KeysOK' /\ \A d \in Call : HandOK(call[d])'
  BY DEF certificateVars, Inv, TypeOK, KeysOK, HandOK
<1>2. (OneEach => OneEach') /\ (KeysKept => KeysKept') /\ (KeysGone => KeysGone') /\ (LockedOut => LockedOut')
  BY RowsStay DEF certificateVars, OneEach, KeysKept, KeysGone, LockedOut, InHand, Sweeping, Replaced
<1> QED
  BY <1>1, <1>2 DEF certificateVars, Inv

LEMMA NextOK ==
  ASSUME Inv, [CertificatesNext]_certificateVars
  PROVE  Inv'
<1>1. ASSUME NEW k \in DOMAIN certs, ExpireCertificate(k) PROVE Inv'
  BY <1>1, ExpireOK
<1>2. ASSUME NEW c \in Call,
             \/ AskEnroll(c) \/ Issue(c)
             \/ \E k \in DOMAIN certs : AskApprove(c, k) \/ \E op \in DOMAIN Closing : AskClose(c, op, k)
      PROVE  Inv'
  BY <1>2, AskOK
<1>3. ASSUME NEW c \in Call, CreateKey(c) \/ SaveEnrolled(c) \/ SaveApproved(c) \/ Destroy(c) \/ SaveClosed(c) PROVE Inv'
  BY <1>3, CreateKeyOK, SaveEnrolledOK, SaveApprovedOK, DestroyOK, SaveClosedOK
<1>4. ASSUME NEW c \in Call, Lock(c) \/ ListOpen(c) \/ SaveSwept(c) \/ Cut(c) PROVE Inv'
  BY <1>4, LockOK, ListOpenOK, SaveSweptOK, CutOK
<1>5. ASSUME NEW c \in Call, NEW k \in DOMAIN certs, SweepOne(c, k) PROVE Inv'
  BY <1>5, SweepOneOK
<1>6. CASE UNCHANGED certificateVars
  BY <1>6, StutterOK
<1> QED
  BY <1>1, <1>2, <1>3, <1>4, <1>5, <1>6 DEF CertificatesNext

(* For any number of calls and enrolments: as long as no call saves a row over *)
(* what another changed, one certificate at most is active and, but for those  *)
(* enrolled beside an open one, one at most is pending, next to an expired one *)
(* alone; and if nothing was cut short either, what is open has its key, what  *)
(* is closed and not replaced has none, and a person who was locked has        *)
(* nothing open once the sweep is over.                                        *)
THEOREM OneCertificateIsInUse == CertificatesSpec => []OneCertificateInUse
<1>1. CertificatesInit => Inv
  BY InitOK
<1>2. Inv /\ [CertificatesNext]_certificateVars => Inv'
  BY NextOK
<1>3. Inv => OneCertificateInUse
  <2> SUFFICES ASSUME Inv, ~crossed PROVE
        /\ Cardinality(Active) <= 1 /\ Cardinality(Alone({"pending"})) <= 1
        /\ \A p \in Alone({"pending"}), u \in Alone({"active"}) : certs[u].expired
        /\ ~cut => KeysKept /\ KeysGone /\ LockedOut
    BY DEF OneCertificateInUse, Active, Waiting, KeysKept, KeysGone, LockedOut
  <2>1. \A S : (\A x, y \in S : x = y) => Cardinality(S) <= 1
    <3> SUFFICES ASSUME NEW S, \A x, y \in S : x = y PROVE Cardinality(S) <= 1
      OBVIOUS
    <3>1. CASE S = {}
      BY <3>1, FS_EmptySet
    <3>2. CASE S # {}
      <4>1. PICK x \in S : TRUE
        BY <3>2
      <4>2. S = {x}
        BY <4>1
      <4> QED
        BY <4>2, FS_Singleton
    <3> QED
      BY <3>1, <3>2
  <2>2. OneEach /\ TypeOK
    BY DEF Inv
  <2>3. \A k \in Open : k \in Nat
    BY <2>2, CertsAre, RowsAreOpen
  <2>4. /\ Alone({"pending"}) = { p \in Waiting : ~certs[p].beside }
        /\ Alone({"active"}) = { u \in Active : ~certs[u].beside }
    BY DEF Alone, Waiting, Active
  <2>5. \A k, j \in Alone({"pending"}) : k = j
    <3> SUFFICES ASSUME NEW k \in Alone({"pending"}), NEW j \in Alone({"pending"}) PROVE k = j
      OBVIOUS
    <3>1. k \in Waiting /\ j \in Waiting /\ k \in Open /\ j \in Open /\ k \in Nat /\ j \in Nat
      BY <2>3, <2>4, RowsAreOpen
    <3>2. ~(k > j) /\ ~(j > k)
      BY <2>2, <2>4, <3>1 DEF OneEach
    <3> QED
      BY <3>1, <3>2
  <2>6. \A p \in Alone({"pending"}), u \in Alone({"active"}) : certs[u].expired
    <3> SUFFICES ASSUME NEW p \in Alone({"pending"}), NEW u \in Alone({"active"}) PROVE certs[u].expired
      OBVIOUS
    <3>1. p \in Waiting /\ u \in Active /\ u \in Open /\ p \in Nat /\ u \in Nat /\ p # u
      BY <2>3, <2>4, RowsAreOpen
    <3>2. ~(u > p)
      BY <2>2, <2>4, <3>1 DEF OneEach
    <3> QED
      BY <2>2, <2>4, <3>1, <3>2 DEF OneEach
  <2> QED
    BY <2>1, <2>2, <2>5, <2>6 DEF Inv, OneEach
<1> QED
  BY <1>1, <1>2, <1>3, PTL DEF CertificatesSpec

-----------------------------------------------------------------------------
(* The directory                                                             *)

Entity == Person \cup {Team}
Entry == [name : Name, rights : Rights \cup {Null}]

(* What a request has in its hands at each of its steps *)
RequestRecords ==
  [op : {"none"}]
    \cup [op : {"create"}, who : Person]
    \cup [op : {"rename", "save"}, who : Entity, name : Name, row : Name, label : Name \cup {Null}, members : SUBSET Person]
    \cup [op : {"clear"}, whom : SUBSET Person]
    \cup [op : {"holders"}, holders : SUBSET Entity]
    \cup [op : {"roles"}, who : Person, name : Name, principals : SUBSET Entity]
    \cup [op : {"keep"}, who : Person, entry : Entry]

DirectoryTypeOK ==
  /\ account \subseteq Person /\ members \subseteq Person /\ excused \subseteq Person /\ overlapped \subseteq Entity
  /\ row \in [Entity -> DirectoryRow \cup {Null}]
  /\ label \in [Entity -> Name \cup {Null}]
  /\ role \in [rights : Rights, holders : SUBSET Entity]
  /\ cached \in [Person -> Entry \cup {Null}]
  /\ request \in [Request -> RequestRecords]

(* What a request knows of the rows *)
Holds(k) ==
  /\ k.op = "create" => k.who \in account /\ row[k.who] = Null
  /\ k.op \in {"rename", "save", "roles", "keep"} => row[k.who] # Null
  /\ k.op = "save" /\ k.label = Null => k.name = k.row

OneCreates ==
  \A c, d \in Request :
    request[c].op = "create" /\ request[d].op = "create" /\ request[c].who = request[d].who => c = d

AccountsFirst ==
  \A p \in Person : (row[p] # Null => p \in account) /\ (cached[p] # Null => row[p] # Null)

DirectoryInv ==
  /\ DirectoryTypeOK /\ OneCreates /\ AccountsFirst
  /\ \A c \in Request : Holds(request[c])
  /\ NamesAgree /\ RightsAreCurrent

(* The rows and the principals at the start, by the names they get           *)
LEMMA DirectoryInitOK ==
  ASSUME DirectoryInit
  PROVE  DirectoryInv
<1> DEFINE new == [name |-> One(Name), active |-> TRUE, gone |-> FALSE]
<1>1. One(Name) \in Name /\ One(Rights) \in Rights
  BY DirectoryAssumption DEF One
<1>2. new \in DirectoryRow /\ new # Null /\ new.name = One(Name) /\ One(Name) # Null
  <2>1. new \in DirectoryRow /\ new.name = One(Name)
    BY <1>1 DEF DirectoryRow
  <2> HIDE DEF new
  <2> QED
    BY <1>1, <2>1, DirectoryAssumption
<1> HIDE DEF new
<1>3. PICK teams \in SUBSET {Team} :
        /\ row = [e \in Entity |-> IF e \in account \cup teams THEN new ELSE Null]
        /\ members \in SUBSET (IF teams = {} THEN {} ELSE account)
        /\ role = [rights |-> One(Rights), holders |-> teams]
  BY DEF DirectoryInit, Entity, new
<1>4. /\ account \subseteq Person /\ label = [e \in Entity |-> IF row[e] = Null THEN Null ELSE row[e].name]
      /\ cached = [p \in Person |-> Null] /\ excused = {} /\ overlapped = {}
      /\ request = [c \in Request |-> Free]
  BY DEF DirectoryInit, Entity
<1>5. \A e \in Entity : row[e] \in DirectoryRow \cup {Null} /\ label[e] \in Name \cup {Null}
                        /\ (row[e] = Null <=> label[e] = Null) /\ (row[e] # Null => label[e] = row[e].name)
  BY <1>1, <1>2, <1>3, <1>4
<1>6. DirectoryTypeOK
  <2>1. row \in [Entity -> DirectoryRow \cup {Null}]
    BY <1>3, <1>5
  <2>2. label \in [Entity -> Name \cup {Null}]
    BY <1>4, <1>5
  <2>3. role \in [rights : Rights, holders : SUBSET Entity]
    BY <1>1, <1>3 DEF Entity
  <2>4. request \in [Request -> RequestRecords]
    BY <1>4 DEF Free, RequestRecords
  <2>5. members \subseteq Person
    BY <1>3, <1>4
  <2> QED
    BY <1>4, <2>1, <2>2, <2>3, <2>4, <2>5 DEF DirectoryTypeOK
<1>7. OneCreates /\ \A c \in Request : Holds(request[c])
  BY <1>4 DEF OneCreates, Holds, Free
<1>8. AccountsFirst
  <2>1. \A p \in Person : row[p] # Null => p \in account
    BY <1>3, DirectoryAssumption DEF Entity
  <2> QED
    BY <1>4, <2>1 DEF AccountsFirst
<1>9. NamesAgree /\ RightsAreCurrent
  BY <1>4, <1>5 DEF NamesAgree, RightsAreCurrent, Entity
<1> QED
  BY <1>6, <1>7, <1>8, <1>9 DEF DirectoryInv

(* A request goes on, the others stay where they are                         *)
Advances(c, to) ==
  /\ request' \in [Request -> RequestRecords] /\ request'[c] = to
  /\ \A d \in Request \ {c} : request'[d] = request[d]
LEMMA ProceedsOK ==
  ASSUME DirectoryTypeOK, NEW c \in Request, NEW to \in RequestRecords, Proceeds(c, to)
  PROVE  Advances(c, to)
BY DEF DirectoryTypeOK, Proceeds, Advances

(* What a request is made of                                                 *)
LEMMA RequestsAre ==
  ASSUME DirectoryTypeOK, NEW c \in Request
  PROVE  LET k == request[c] IN
         /\ k \in RequestRecords
         /\ k.op \in {"create", "roles", "keep"} => k.who \in Person
         /\ k.op \in {"rename", "save"} => /\ k.who \in Entity /\ k.name \in Name /\ k.row \in Name
                                           /\ k.label \in Name \cup {Null} /\ k.members \subseteq Person
         /\ k.op = "clear" => k.whom \subseteq Person
         /\ k.op = "holders" => k.holders \subseteq Entity
         /\ k.op = "roles" => k.name \in Name /\ k.principals \subseteq Entity
         /\ k.op = "keep" => k.entry \in Entry
<1> DEFINE k == request[c]
<1>1. k \in RequestRecords
  BY DEF DirectoryTypeOK
<1> HIDE DEF k
<1>2. /\ k.op \in {"create", "roles", "keep"} => k.who \in Person
      /\ k.op \in {"rename", "save"} => /\ k.who \in Entity /\ k.name \in Name /\ k.row \in Name
                                        /\ k.label \in Name \cup {Null} /\ k.members \subseteq Person
      /\ k.op = "clear" => k.whom \subseteq Person
      /\ k.op = "holders" => k.holders \subseteq Entity
      /\ k.op = "roles" => k.name \in Name /\ k.principals \subseteq Entity
      /\ k.op = "keep" => k.entry \in Entry
  BY <1>1 DEF RequestRecords
<1> QED
  BY <1>1, <1>2 DEF k

(* What the others know stays true when no row is taken away, and the rows    *)
(* that appear are of nobody else's making                                   *)
LEMMA OthersHold ==
  ASSUME DirectoryInv, NEW c \in Request, NEW to \in RequestRecords, Advances(c, to), account \subseteq account',
         \A e \in Entity : row[e] # Null => row'[e] # Null,
         \A d \in Request \ {c} : request[d].op = "create" => row'[request[d].who] = row[request[d].who]
  PROVE  \A d \in Request \ {c} : Holds(request[d])'
<1> TAKE d \in Request \ {c}
<1>1. request'[d] = request[d] /\ Holds(request[d]) /\ DirectoryTypeOK
  BY DEF Advances, DirectoryInv
<1>2. request[d].op \in {"rename", "save", "roles", "keep"} => request[d].who \in Entity
  BY <1>1, RequestsAre DEF Entity
<1> QED
  BY <1>1, <1>2 DEF Holds

(* The entry of a person stays as right as it was                            *)
Promised(p) == \E c \in Request : request[c].op = "holders" \/ (request[c].op = "clear" /\ p \in request[c].whom)
Right(p) == cached[p] # Null => Current(p, cached[p]) \/ p \in excused \/ Promised(p)
SameView(p) == MayEnter(p)' = MayEnter(p) /\ View(p)' = View(p)

LEMMA RightsAre == RightsAreCurrent <=> \A p \in Person : Right(p)
BY DEF RightsAreCurrent, Right, Promised
LEMMA RightsWillBe == (\A p \in Person : Right(p)') => RightsAreCurrent'
BY DEF RightsAreCurrent, Right, Promised

LEMMA RightStays ==
  ASSUME NEW p, Right(p), cached'[p] = cached[p], SameView(p),
         p \in excused => p \in excused', Promised(p) => Promised(p)'
  PROVE  Right(p)'
BY DEF Right, Current, SameView

LEMMA PromisesStay ==
  ASSUME NEW c \in Request, NEW to, Advances(c, to), request[c].op \notin {"holders", "clear"}
  PROVE  \A p : Promised(p) => Promised(p)'
<1>1. \A d \in Request : request[d].op \in {"holders", "clear"} => request'[d] = request[d]
  BY DEF Advances
<1> QED
  BY <1>1 DEF Promised

LEMMA ViewStays ==
  ASSUME NEW p \in Person, row'[p] = row[p], row'[Team].gone = row[Team].gone, members' = members, role' = role
  PROVE  SameView(p)
BY DEF SameView, MayEnter, View, RightsOf, Principals

(* create before its row, the reads of updateUserAndPrincipal and updateGroup, *)
(* the reads of validate: no row and no entry changes                        *)
LEMMA QuietOK ==
  ASSUME DirectoryInv, NEW c \in Request, NEW to \in RequestRecords, Advances(c, to),
         account \subseteq account', account' \subseteq Person,
         UNCHANGED <<row, label, members, role, cached, excused, overlapped>>,
         request[c].op \notin {"holders", "clear"},
         to.op = "create" => /\ to.who \in account' /\ row[to.who] = Null
                             /\ \A d \in Request : request[d].op = "create" => request[d].who # to.who,
         to.op \in {"rename", "save", "roles", "keep"} => row[to.who] # Null,
         to.op = "save" /\ to.label = Null => to.name = to.row
  PROVE  DirectoryInv'
<1>1. DirectoryTypeOK'
  BY DEF DirectoryInv, DirectoryTypeOK, Advances
<1>2. OneCreates'
  <2>1. \A d, e \in Request \ {c} : request'[d] = request[d] /\ request'[e] = request[e]
    BY DEF Advances
  <2> QED
    BY <2>1 DEF DirectoryInv, OneCreates, Advances
<1>3. AccountsFirst' /\ NamesAgree'
  BY DEF DirectoryInv, AccountsFirst, NamesAgree
<1>4. \A d \in Request : Holds(request[d])'
  <2>1. \A d \in Request \ {c} : Holds(request[d])'
    BY OthersHold
  <2>2. Holds(request[c])'
    BY DEF Holds, Advances
  <2> QED
    BY <2>1, <2>2
<1>5. RightsAreCurrent'
  <2>1. \A p \in Person : Right(p)'
    BY RightsAre, ViewStays, RightStays, PromisesStay DEF DirectoryInv
  <2> QED
    BY <2>1, RightsWillBe
<1> QED
  BY <1>1, <1>2, <1>3, <1>4, <1>5 DEF DirectoryInv

(* MayEnter means that there is a row; what the guard loads has its types     *)
LEMMA ViewsAre ==
  ASSUME DirectoryTypeOK, NEW p \in Person
  PROVE  /\ MayEnter(p) => row[p] # Null /\ row[p].name \in Name
         /\ Principals(p) \subseteq Entity
         /\ \A principals : RightsOf(principals) \in Rights \cup {Null}
<1>1. row[p] \in DirectoryRow \cup {Null} /\ role.rights \in Rights
  BY DEF DirectoryTypeOK, Entity
<1>2. Principals(p) \subseteq Entity
  BY DEF Principals, Entity
<1>3. row[p] # Null => row[p].name \in Name
  BY <1>1 DEF DirectoryRow
<1> QED
  BY <1>1, <1>2, <1>3 DEF MayEnter, RightsOf

LEMMA ReadsOK ==
  ASSUME DirectoryInv, NEW c \in Request,
         \/ \E p \in Person : CreateAccount(c, p) \/ LoadPerson(c, p)
         \/ \E name \in Name, e \in Entity : ReadRow(c, e, name)
         \/ ReadPrincipal(c) \/ LoadRoles(c)
  PROVE  DirectoryInv'
<1>0. DirectoryTypeOK /\ Holds(request[c])
  BY DEF DirectoryInv
<1>1. ASSUME NEW p \in Person, CreateAccount(c, p) PROVE DirectoryInv'
  <2> DEFINE to == [op |-> "create", who |-> p]
  <2>1. to \in RequestRecords /\ Advances(c, to) /\ request[c].op = "none"
    <3>1. to \in RequestRecords
      BY DEF RequestRecords
    <3> QED
      BY <1>0, <1>1, <3>1, ProceedsOK DEF CreateAccount, Free
  <2>2. /\ account' = account \cup {p} /\ p \notin account /\ row[p] = Null
        /\ UNCHANGED <<row, label, members, role, cached, excused, overlapped>>
    BY <1>1 DEF CreateAccount
  <2>3. \A d \in Request : request[d].op = "create" => request[d].who # p
    BY <2>2 DEF DirectoryInv, Holds
  <2>4. account' \subseteq Person
    BY <1>0, <2>2 DEF DirectoryTypeOK
  <2>5. to.op = "create" /\ to.who = p
    OBVIOUS
  <2> HIDE DEF to
  <2> QED
    BY <2>1, <2>2, <2>3, <2>4, <2>5, QuietOK
<1>2. ASSUME NEW p \in Person, LoadPerson(c, p) PROVE DirectoryInv'
  <2> DEFINE to == [op |-> "roles", who |-> p, name |-> row[p].name, principals |-> Principals(p)]
  <2>1. to \in RequestRecords
    <3>1. row[p].name \in Name /\ Principals(p) \in SUBSET Entity
      BY <1>0, <1>2, ViewsAre DEF LoadPerson
    <3> QED
      BY <3>1 DEF RequestRecords
  <2>2. Advances(c, to) /\ request[c].op = "none"
    BY <1>0, <1>2, <2>1, ProceedsOK DEF LoadPerson, Free
  <2>3. UNCHANGED <<account, row, label, members, role, cached, excused, overlapped>> /\ row[p] # Null
    BY <1>0, <1>2, ViewsAre DEF LoadPerson
  <2>4. to.op = "roles" /\ to.who = p
    OBVIOUS
  <2> HIDE DEF to
  <2> QED
    BY <1>0, <2>1, <2>2, <2>3, <2>4, QuietOK DEF DirectoryTypeOK
<1>3. ASSUME NEW name \in Name, NEW e \in Entity, ReadRow(c, e, name) PROVE DirectoryInv'
  <2> DEFINE op == IF e = Team \/ NameChanged(name, row[e].name) THEN "rename" ELSE "save"
             to == [op |-> op, who |-> e, name |-> name, row |-> row[e].name, label |-> Null, members |-> members]
  <2>1. row[e] # Null /\ row[e].name \in Name /\ members \in SUBSET Person
    BY <1>0, <1>3 DEF ReadRow, DirectoryTypeOK, DirectoryRow
  <2>2. to \in RequestRecords
    BY <2>1 DEF RequestRecords
  <2>3. Advances(c, to) /\ request[c].op = "none"
    BY <1>0, <1>3, <2>2, ProceedsOK DEF ReadRow, Free
  <2>4. UNCHANGED <<account, row, label, members, role, cached, excused, overlapped>>
    BY <1>3 DEF ReadRow
  <2>5. to.op \in {"rename", "save"} /\ to.who = e /\ (to.op = "save" => to.name = to.row)
    BY DEF NameChanged
  <2> HIDE DEF to
  <2> QED
    BY <1>0, <2>1, <2>2, <2>3, <2>4, <2>5, QuietOK DEF DirectoryTypeOK
<1>4. ASSUME ReadPrincipal(c) PROVE DirectoryInv'
  <2> DEFINE k == request[c]
             to == [k EXCEPT !.op = "save", !.label = label[k.who], !.members = members]
  <2>1. k.op = "rename" /\ k \in RequestRecords /\ k.who \in Entity /\ row[k.who] # Null
    BY <1>0, <1>4, RequestsAre DEF ReadPrincipal, Holds
  <2>2. label[k.who] \in Name /\ label[k.who] # Null /\ members \in SUBSET Person
    BY <1>0, <2>1 DEF DirectoryInv, DirectoryTypeOK, NamesAgree, Entity
  <2>3. Proceeds(c, to) /\ UNCHANGED <<account, row, label, members, role, cached, excused, overlapped>>
    BY <1>4 DEF ReadPrincipal
  <2> HIDE DEF k
  <2>4. to \in RequestRecords /\ to.op = "save" /\ to.who = k.who /\ to.label # Null
    <3>1. k \in [op : {"rename", "save"}, who : Entity, name : Name, row : Name, label : Name \cup {Null}, members : SUBSET Person]
      BY <2>1 DEF RequestRecords
    <3>2. to \in [op : {"rename", "save"}, who : Entity, name : Name, row : Name, label : Name \cup {Null}, members : SUBSET Person]
      BY <2>2, <3>1
    <3> QED
      BY <2>2, <3>1, <3>2 DEF RequestRecords
  <2> HIDE DEF to
  <2> QED
    BY <1>0, <2>1, <2>3, <2>4, ProceedsOK, QuietOK DEF DirectoryTypeOK, k
<1>5. ASSUME LoadRoles(c) PROVE DirectoryInv'
  <2> DEFINE k == request[c]
             to == [op |-> "keep", who |-> k.who, entry |-> [name |-> k.name, rights |-> RightsOf(k.principals)]]
  <2>1. k.op = "roles" /\ k.who \in Person /\ k.name \in Name /\ row[k.who] # Null
    BY <1>0, <1>5, RequestsAre DEF LoadRoles, Holds
  <2>2. RightsOf(k.principals) \in Rights \cup {Null}
    BY <1>0, <2>1, ViewsAre
  <2>3. to \in RequestRecords
    BY <2>1, <2>2 DEF RequestRecords, Entry
  <2>4. Proceeds(c, to) /\ UNCHANGED <<account, row, label, members, role, cached, excused, overlapped>>
    BY <1>5 DEF LoadRoles
  <2>5. to.op = "keep" /\ to.who = k.who
    OBVIOUS
  <2> HIDE DEF to
  <2> QED
    BY <1>0, <2>1, <2>3, <2>4, <2>5, ProceedsOK, QuietOK DEF DirectoryTypeOK
<1> QED
  BY <1>1, <1>2, <1>3, <1>4, <1>5

-----------------------------------------------------------------------------
(* A row is made, or saved with its principal, or loses its person or team:   *)
(* the others keep theirs                                                    *)
RowOf(e, new) ==
  /\ row' = [row EXCEPT ![e] = new] /\ new \in DirectoryRow

LEMMA RowsAre ==
  ASSUME DirectoryTypeOK, NEW e \in Entity, NEW new, RowOf(e, new)
  PROVE  /\ row' \in [Entity -> DirectoryRow \cup {Null}]
         /\ row'[e] = new /\ new # Null /\ new.name \in Name
         /\ \A d \in Entity \ {e} : row'[d] = row[d]
<1>1. new # Null /\ new.name \in Name
  BY DirectoryAssumption DEF RowOf, DirectoryRow
<1> QED
  BY <1>1 DEF DirectoryTypeOK, RowOf

(* create: the row of a person of whom nothing is kept                       *)
LEMMA CreatePersonOK ==
  ASSUME DirectoryInv, NEW c \in Request, NEW name \in Name, CreatePerson(c, name)
  PROVE  DirectoryInv'
<1> DEFINE who == request[c].who
           new == [name |-> name, active |-> TRUE, gone |-> FALSE]
<1>1. /\ DirectoryTypeOK /\ request[c].op = "create" /\ who \in Person /\ who \in account /\ row[who] = Null
      /\ UNCHANGED <<account, members, role, cached, excused, overlapped>>
      /\ row' = [row EXCEPT ![who] = new] /\ label' = [label EXCEPT ![who] = name] /\ Proceeds(c, Free)
  BY RequestsAre DEF CreatePerson, DirectoryInv, Holds
<1>2. new \in DirectoryRow /\ new.name = name /\ who \in Entity /\ who # Team
  BY <1>1, DirectoryAssumption DEF DirectoryRow, Entity
<1> HIDE DEF who, new
<1>3. /\ row' \in [Entity -> DirectoryRow \cup {Null}] /\ row'[who] = new /\ new # Null
      /\ \A d \in Entity \ {who} : row'[d] = row[d]
  BY <1>1, <1>2, RowsAre DEF RowOf
<1>4. /\ label' \in [Entity -> Name \cup {Null}] /\ label'[who] = name /\ name # Null
      /\ \A d \in Entity \ {who} : label'[d] = label[d]
  BY <1>1, <1>2, DirectoryAssumption DEF DirectoryTypeOK
<1>5. Free \in RequestRecords /\ Advances(c, Free)
  BY <1>1, ProceedsOK DEF Free, RequestRecords
<1>6. DirectoryTypeOK'
  BY <1>1, <1>3, <1>4, <1>5 DEF DirectoryTypeOK, Advances
<1>7. OneCreates'
  BY <1>5 DEF DirectoryInv, OneCreates, Advances, Free
<1>8. AccountsFirst'
  BY <1>1, <1>3 DEF DirectoryInv, AccountsFirst, Entity
<1>9. \A d \in Request : Holds(request[d])'
  <2>1. \A d \in Request \ {c} : request[d].op = "create" => request[d].who # who /\ request[d].who \in Entity
    BY <1>1, RequestsAre DEF DirectoryInv, OneCreates, who, Entity
  <2>2. \A d \in Request \ {c} : Holds(request[d])'
    BY <1>1, <1>3, <1>5, <2>1, OthersHold
  <2>3. Holds(request[c])'
    BY <1>5 DEF Holds, Advances, Free
  <2> QED
    BY <2>2, <2>3
<1>10. NamesAgree'
  BY <1>1, <1>2, <1>3, <1>4 DEF DirectoryInv, NamesAgree, Entity
<1>11. RightsAreCurrent'
  <2>1. \A p \in Person \ {who} : Right(p)'
    <3> TAKE p \in Person \ {who}
    <3>1. row'[p] = row[p] /\ row'[Team] = row[Team]
      BY <1>2, <1>3 DEF Entity
    <3>2. SameView(p)
      BY <1>1, <3>1, ViewStays
    <3> QED
      BY <1>1, <1>5, <3>2, RightsAre, RightStays, PromisesStay DEF DirectoryInv
  <2>2. cached'[who] = Null
    BY <1>1 DEF DirectoryInv, AccountsFirst
  <2>3. \A p \in Person : Right(p)'
    BY <2>1, <2>2 DEF Right
  <2> QED
    BY <2>3, RightsWillBe
<1> QED
  BY <1>6, <1>7, <1>8, <1>9, <1>10, <1>11 DEF DirectoryInv

(* updateUserAndPrincipal, updateGroup: who saves over nobody's changes leaves *)
(* a principal with the name it asked for                                    *)
LEMMA SaveRowOK ==
  ASSUME DirectoryInv, NEW c \in Request, NEW asked \in SUBSET Known, SaveRow(c, asked)
  PROVE  DirectoryInv'
<1> DEFINE k == request[c]
           e == k.who
           new == [row[e] EXCEPT !.name = Written(k.name, k.row, row[e].name)]
           called == IF k.label = Null THEN label[e] ELSE Written(k.name, k.label, label[e])
           to == IF e = Team THEN Free ELSE [op |-> "clear", whom |-> {e}]
<1>1. /\ DirectoryTypeOK /\ k.op = "save" /\ e \in Entity /\ row[e] # Null
      /\ k.name \in Name /\ k.row \in Name /\ k.label \in Name \cup {Null} /\ k.members \subseteq Person
      /\ k.label = Null => k.name = k.row
  BY RequestsAre DEF SaveRow, DirectoryInv, Holds
<1>2. /\ row' = [row EXCEPT ![e].name = Written(k.name, k.row, @)]
      /\ label' = [label EXCEPT ![e] = IF k.label = Null THEN @ ELSE Written(k.name, k.label, @)]
      /\ IF e = Team THEN members' = (members \ (k.members \ asked)) \cup (asked \ k.members) ELSE members' = members
      /\ overlapped' = IF k.row = row[e].name /\ k.label \in {Null, label[e]} THEN overlapped ELSE overlapped \cup {e}
      /\ excused' = IF members' = members THEN excused ELSE { p \in Person : cached[p] # Null }
      /\ Proceeds(c, to) /\ UNCHANGED <<account, role, cached>>
  BY DEF SaveRow
<1>3. row[e] \in DirectoryRow /\ label[e] \in Name
  BY <1>1 DEF DirectoryInv, DirectoryTypeOK, NamesAgree, Entity
<1>4. /\ new \in DirectoryRow /\ new.name = Written(k.name, k.row, row[e].name) /\ new.active = row[e].active /\ new.gone = row[e].gone
      /\ called \in Name
  <2> DEFINE named == Written(k.name, k.row, row[e].name)
  <2>1. named \in Name
    BY <1>1, <1>3 DEF Written, DirectoryRow
  <2> HIDE DEF named
  <2>2. \A x \in DirectoryRow : LET y == [x EXCEPT !.name = named] IN
          y \in DirectoryRow /\ y.name = named /\ y.active = x.active /\ y.gone = x.gone
    BY <2>1 DEF DirectoryRow
  <2>3. called \in Name
    BY <1>1, <1>3 DEF Written
  <2> QED
    BY <1>3, <2>2, <2>3 DEF named
<1>5. row' = [row EXCEPT ![e] = new] /\ label' = [label EXCEPT ![e] = called]
  BY <1>2
<1>6. to \in RequestRecords /\ to.op \in {"none", "clear"} /\ (e # Team => to.op = "clear" /\ to.whom = {e})
  <2>1. Free \in RequestRecords /\ Free.op = "none"
    BY DEF Free, RequestRecords
  <2>2. e # Team => [op |-> "clear", whom |-> {e}] \in RequestRecords
    BY <1>1 DEF RequestRecords, Entity
  <2> QED
    BY <2>1, <2>2
<1> HIDE DEF new, called, to
<1>7. Advances(c, to)
  BY <1>1, <1>2, <1>6, ProceedsOK
<1>8. /\ row' \in [Entity -> DirectoryRow \cup {Null}] /\ row'[e] = new /\ new # Null
      /\ \A d \in Entity \ {e} : row'[d] = row[d]
  BY <1>1, <1>4, <1>5, RowsAre DEF RowOf
<1>9. /\ label' \in [Entity -> Name \cup {Null}] /\ label'[e] = called /\ called # Null
      /\ \A d \in Entity \ {e} : label'[d] = label[d]
  BY <1>1, <1>4, <1>5, DirectoryAssumption DEF DirectoryTypeOK
<1> HIDE DEF e, k
<1>10. DirectoryTypeOK'
  <2>1. members' \subseteq Person
    BY <1>1, <1>2 DEF DirectoryTypeOK, Known
  <2>2. excused' \subseteq Person /\ overlapped' \subseteq Entity
    BY <1>1, <1>2 DEF DirectoryTypeOK
  <2> QED
    BY <1>1, <1>2, <1>7, <1>8, <1>9, <2>1, <2>2 DEF DirectoryTypeOK, Advances
<1>11. OneCreates'
  BY <1>6, <1>7 DEF DirectoryInv, OneCreates, Advances
<1>12. AccountsFirst'
  BY <1>1, <1>2, <1>8 DEF DirectoryInv, AccountsFirst, Entity
<1>13. \A d \in Request : Holds(request[d])'
  <2>1. \A d \in Request : request[d].op = "create" => request[d].who # e /\ request[d].who \in Entity
    BY <1>1, RequestsAre DEF DirectoryInv, Holds, Entity
  <2>2. \A d \in Request \ {c} : Holds(request[d])'
    BY <1>1, <1>2, <1>6, <1>7, <1>8, <2>1, OthersHold
  <2>3. Holds(request[c])'
    BY <1>6, <1>7 DEF Holds, Advances
  <2> QED
    BY <2>2, <2>3
<1>14. NamesAgree'
  <2>1. \A d \in Entity \ {e} : (row'[d] = Null <=> label'[d] = Null) /\ (row'[d] # Null /\ d \notin overlapped' => label'[d] = row'[d].name)
    BY <1>2, <1>8, <1>9 DEF DirectoryInv, NamesAgree, Entity
  <2>2. ASSUME e \notin overlapped' PROVE called = new.name
    <3>1. k.row = row[e].name /\ k.label \in {Null, label[e]} /\ e \notin overlapped
      BY <1>2, <2>2
    <3>2. label[e] = row[e].name
      BY <1>1, <3>1 DEF DirectoryInv, NamesAgree, Entity
    <3> QED
      BY <1>1, <1>4, <3>1, <3>2 DEF called, Written, e, k
  <2> QED
    BY <1>8, <1>9, <2>1, <2>2 DEF NamesAgree, Entity
<1>15. RightsAreCurrent'
  <2>1. \A p \in Person : Right(p)'
    <3> TAKE p \in Person
    <3>1. CASE members' # members
      BY <1>2, <3>1 DEF Right
    <3>2. CASE members' = members /\ p = e
      <4>1. Promised(p)'
        BY <1>6, <1>7, <3>2, DirectoryAssumption DEF Promised, Advances
      <4> QED
        BY <4>1 DEF Right
    <3>3. CASE members' = members /\ p # e
      <4>1. row'[p] = row[p] /\ row'[Team].gone = row[Team].gone
        BY <1>4, <1>8, <3>3 DEF Entity
      <4>2. SameView(p)
        BY <1>2, <3>3, <4>1, ViewStays
      <4> QED
        BY <1>1, <1>2, <1>7, <3>3, <4>2, RightsAre, RightStays, PromisesStay DEF DirectoryInv, k
    <3> QED
      BY <3>1, <3>2, <3>3
  <2> QED
    BY <2>1, RightsWillBe
<1> QED
  BY <1>10, <1>11, <1>12, <1>13, <1>14, <1>15 DEF DirectoryInv

(* createGroup and remove of a group: everybody whose entry there is is excused *)
LEMMA TeamOK ==
  ASSUME DirectoryInv, RemoveTeam \/ \E name \in Name, users \in SUBSET Known : CreateTeam(name, users)
  PROVE  DirectoryInv'
<1>0. DirectoryTypeOK /\ Team \in Entity /\ Team \notin Person
  BY DirectoryAssumption DEF DirectoryInv, Entity
<1>1. /\ UNCHANGED <<account, role, cached, overlapped, request>>
      /\ excused' = { p \in Person : cached[p] # Null }
  BY DEF RemoveTeam, CreateTeam
<1>2. /\ row' \in [Entity -> DirectoryRow \cup {Null}] /\ row'[Team] # Null
      /\ \A d \in Person : row'[d] = row[d]
      /\ label' \in [Entity -> Name \cup {Null}] /\ label'[Team] # Null
      /\ \A d \in Person : label'[d] = label[d]
      /\ members' \subseteq Person
      /\ Team \notin overlapped => label'[Team] = row'[Team].name
  <2>1. ASSUME RemoveTeam
        PROVE  \E new : /\ RowOf(Team, new) /\ new.name = row[Team].name /\ row[Team] # Null
                        /\ UNCHANGED <<label, members>>
    <3>1. row[Team] \in DirectoryRow /\ row' = [row EXCEPT ![Team].gone = TRUE] /\ row[Team] # Null /\ UNCHANGED <<label, members>>
      BY <1>0, <2>1 DEF RemoveTeam, DirectoryTypeOK
    <3>2. \A x \in DirectoryRow : LET y == [x EXCEPT !.gone = TRUE] IN y \in DirectoryRow /\ y.name = x.name
      BY DEF DirectoryRow
    <3> DEFINE new == [row[Team] EXCEPT !.gone = TRUE]
    <3>3. row' = [row EXCEPT ![Team] = new] /\ new \in DirectoryRow /\ new.name = row[Team].name
      BY <3>1, <3>2
    <3> QED
      BY <3>1, <3>3 DEF RowOf
  <2>2. ASSUME NEW name \in Name, NEW users \in SUBSET Known, CreateTeam(name, users)
        PROVE  /\ RowOf(Team, [name |-> name, active |-> TRUE, gone |-> FALSE])
               /\ label' = [label EXCEPT ![Team] = name] /\ members' \subseteq Person
    BY <2>2 DEF CreateTeam, RowOf, DirectoryRow, Known
  <2>3. CASE RemoveTeam
    <3>1. PICK new : /\ RowOf(Team, new) /\ new.name = row[Team].name /\ row[Team] # Null
                     /\ UNCHANGED <<label, members>>
      BY <2>1, <2>3
    <3>2. /\ row' \in [Entity -> DirectoryRow \cup {Null}]
          /\ row'[Team] = new /\ new # Null
          /\ \A d \in Entity \ {Team} : row'[d] = row[d]
      BY <1>0, <3>1, RowsAre
    <3> QED
      BY <1>0, <3>1, <3>2 DEF DirectoryInv, DirectoryTypeOK, NamesAgree, Entity
  <2>4. ASSUME NEW name \in Name, NEW users \in SUBSET Known, CreateTeam(name, users)
        PROVE  /\ row' \in [Entity -> DirectoryRow \cup {Null}] /\ row'[Team] # Null
               /\ \A d \in Person : row'[d] = row[d]
               /\ label' \in [Entity -> Name \cup {Null}] /\ label'[Team] # Null
               /\ \A d \in Person : label'[d] = label[d]
               /\ members' \subseteq Person
               /\ Team \notin overlapped => label'[Team] = row'[Team].name
    <3> DEFINE new == [name |-> name, active |-> TRUE, gone |-> FALSE]
    <3>1. RowOf(Team, new) /\ new.name = name /\ label' = [label EXCEPT ![Team] = name] /\ members' \subseteq Person
      BY <2>2, <2>4
    <3> HIDE DEF new
    <3>2. /\ row' \in [Entity -> DirectoryRow \cup {Null}]
          /\ row'[Team] = new /\ new # Null
          /\ \A d \in Entity \ {Team} : row'[d] = row[d]
      BY <1>0, <3>1, RowsAre
    <3> QED
      BY <1>0, <3>1, <3>2, DirectoryAssumption DEF DirectoryTypeOK, Entity
  <2> QED
    BY <2>3, <2>4
<1>3. DirectoryTypeOK'
  BY <1>0, <1>1, <1>2 DEF DirectoryTypeOK
<1>4. OneCreates' /\ AccountsFirst'
  BY <1>1, <1>2 DEF DirectoryInv, OneCreates, AccountsFirst
<1>5. \A d \in Request : Holds(request[d])'
  <2> TAKE d \in Request
  <2>1. Holds(request[d]) /\ request'[d] = request[d]
    BY <1>1 DEF DirectoryInv
  <2>2. request[d].op \in {"create", "roles", "keep"} => request[d].who \in Person
    BY <1>0, RequestsAre
  <2>3. request[d].op \in {"rename", "save"} => request[d].who \in Entity
    BY <1>0, RequestsAre
  <2> QED
    BY <1>1, <1>2, <2>1, <2>2, <2>3 DEF Holds, Entity
<1>6. NamesAgree'
  BY <1>1, <1>2 DEF DirectoryInv, NamesAgree
<1>7. RightsAreCurrent'
  BY <1>1 DEF RightsAreCurrent
<1> QED
  BY <1>3, <1>4, <1>5, <1>6, <1>7 DEF DirectoryInv

(* updateActive and remove of a person, whose entry the request will drop     *)
LEMMA CloseOK ==
  ASSUME DirectoryInv, NEW c \in Request, NEW p \in Person,
         RemovePerson(c, p) \/ \E b \in BOOLEAN : SetActive(c, p, b)
  PROVE  DirectoryInv'
<1> DEFINE to == [op |-> "clear", whom |-> {p}]
<1>0. /\ DirectoryTypeOK /\ p \in Entity /\ row[p] \in DirectoryRow /\ row[p] # Null /\ p # Team
      /\ request[c].op = "none" /\ Proceeds(c, to)
      /\ UNCHANGED <<account, label, members, role, cached, excused, overlapped>>
  <2>1. p \in Entity /\ p # Team
    BY DirectoryAssumption DEF Entity
  <2>2. /\ row[p] # Null /\ request[c].op = "none" /\ Proceeds(c, to)
        /\ UNCHANGED <<account, label, members, role, cached, excused, overlapped>>
    BY DEF RemovePerson, SetActive, Free
  <2> QED
    BY <2>1, <2>2 DEF DirectoryInv, DirectoryTypeOK
<1>1. to \in RequestRecords /\ Advances(c, to) /\ to.op = "clear" /\ to.whom = {p}
  <2>1. to \in RequestRecords
    BY DEF RequestRecords
  <2> QED
    BY <1>0, <2>1, ProceedsOK
<1> HIDE DEF to
<1>2. \E new : RowOf(p, new) /\ new.name = row[p].name
  <2>1. \A x \in DirectoryRow, b \in BOOLEAN :
          /\ LET y == [x EXCEPT !.gone = TRUE] IN y \in DirectoryRow /\ y.name = x.name
          /\ LET y == [x EXCEPT !.active = b] IN y \in DirectoryRow /\ y.name = x.name
    BY DEF DirectoryRow
  <2>2. CASE RemovePerson(c, p)
    <3> DEFINE new == [row[p] EXCEPT !.gone = TRUE]
    <3>1. row' = [row EXCEPT ![p] = new] /\ new \in DirectoryRow /\ new.name = row[p].name
      BY <1>0, <2>1, <2>2 DEF RemovePerson
    <3> QED
      BY <3>1 DEF RowOf
  <2>3. ASSUME NEW b \in BOOLEAN, SetActive(c, p, b) PROVE \E new : RowOf(p, new) /\ new.name = row[p].name
    <3> DEFINE new == [row[p] EXCEPT !.active = b]
    <3>1. row' = [row EXCEPT ![p] = new] /\ new \in DirectoryRow /\ new.name = row[p].name
      BY <1>0, <2>1, <2>3 DEF SetActive
    <3> QED
      BY <3>1 DEF RowOf
  <2> QED
    BY <2>2, <2>3
<1>3. PICK new : RowOf(p, new) /\ new.name = row[p].name
  BY <1>2
<1>4. /\ row' \in [Entity -> DirectoryRow \cup {Null}] /\ row'[p] = new /\ new # Null
      /\ \A d \in Entity \ {p} : row'[d] = row[d]
  BY <1>0, <1>3, RowsAre
<1>5. DirectoryTypeOK'
  BY <1>0, <1>1, <1>4 DEF DirectoryTypeOK, Advances
<1>6. OneCreates' /\ AccountsFirst' /\ NamesAgree'
  <2>1. OneCreates'
    BY <1>1 DEF DirectoryInv, OneCreates, Advances
  <2>2. AccountsFirst'
    BY <1>0, <1>4 DEF DirectoryInv, AccountsFirst, Entity
  <2>3. NamesAgree'
    BY <1>0, <1>3, <1>4 DEF DirectoryInv, NamesAgree, Entity
  <2> QED
    BY <2>1, <2>2, <2>3
<1>7. \A d \in Request : Holds(request[d])'
  <2>1. \A d \in Request \ {c} : request[d].op = "create" => request[d].who # p /\ request[d].who \in Entity
    BY <1>0, RequestsAre DEF DirectoryInv, Holds, Entity
  <2>2. \A d \in Request \ {c} : Holds(request[d])'
    BY <1>0, <1>1, <1>4, <2>1, OthersHold
  <2>3. Holds(request[c])'
    BY <1>1 DEF Holds, Advances
  <2> QED
    BY <2>2, <2>3
<1>8. RightsAreCurrent'
  <2>1. Right(p)'
    BY <1>1 DEF Right, Promised, Advances
  <2>2. \A q \in Person \ {p} : Right(q)'
    <3> TAKE q \in Person \ {p}
    <3>1. row'[q] = row[q] /\ row'[Team] = row[Team]
      BY <1>0, <1>4 DEF Entity
    <3>2. SameView(q)
      BY <1>0, <3>1, ViewStays
    <3> QED
      BY <1>0, <1>1, <3>2, RightsAre, RightStays, PromisesStay DEF DirectoryInv
  <2>3. \A q \in Person : Right(q)'
    BY <2>1, <2>2
  <2> QED
    BY <2>3, RightsWillBe
<1> QED
  BY <1>5, <1>6, <1>7, <1>8 DEF DirectoryInv

-----------------------------------------------------------------------------
(* createRole and updateRole, the cache and its expiry, errors: no row changes *)
LEMMA RowsStandOK ==
  ASSUME DirectoryInv, NEW c \in Request, NEW to \in RequestRecords, Advances(c, to),
         UNCHANGED <<account, row, label, members, overlapped>>,
         role' \in [rights : Rights, holders : SUBSET Entity], excused' \subseteq Person,
         cached' \in [Person -> Entry \cup {Null}],
         \A p \in Person : cached'[p] # Null => row[p] # Null,
         to.op \in {"none", "clear", "holders"}
  PROVE  /\ DirectoryTypeOK' /\ OneCreates' /\ AccountsFirst' /\ NamesAgree'
         /\ \A d \in Request : Holds(request[d])'
<1>1. DirectoryTypeOK'
  BY DEF DirectoryInv, DirectoryTypeOK, Advances
<1>2. OneCreates'
  BY DEF DirectoryInv, OneCreates, Advances
<1>3. AccountsFirst' /\ NamesAgree'
  BY DEF DirectoryInv, AccountsFirst, NamesAgree
<1>4. \A d \in Request \ {c} : Holds(request[d])'
  BY OthersHold
<1>5. Holds(request[c])'
  BY DEF Holds, Advances
<1> QED
  BY <1>1, <1>2, <1>3, <1>4, <1>5

LEMMA SaveRightsOK ==
  ASSUME DirectoryInv, NEW c \in Request, NEW rights \in Rights, SaveRights(c, rights)
  PROVE  DirectoryInv'
<1>1. PICK holders \in SUBSET ValidHolders : Proceeds(c, [op |-> "holders", holders |-> holders])
  BY DEF SaveRights
<1> DEFINE to == [op |-> "holders", holders |-> holders]
<1>2. to \in RequestRecords /\ to.op = "holders"
  BY DEF RequestRecords, ValidHolders, Entity
<1> HIDE DEF to
<1>3. /\ DirectoryTypeOK /\ Advances(c, to)
      /\ UNCHANGED <<account, row, label, members, cached, excused, overlapped>> /\ role' = [role EXCEPT !.rights = rights]
  BY <1>1, <1>2, ProceedsOK DEF SaveRights, DirectoryInv, to
<1>4. role' \in [rights : Rights, holders : SUBSET Entity]
  BY <1>3 DEF DirectoryTypeOK
<1>5. \A p \in Person : Promised(p)'
  BY <1>2, <1>3 DEF Promised, Advances
<1>6. RightsAreCurrent'
  <2>1. \A p \in Person : Right(p)'
    BY <1>5 DEF Right
  <2> QED
    BY <2>1, RightsWillBe
<1>7. \A p \in Person : cached'[p] # Null => row[p] # Null
  BY <1>3 DEF DirectoryInv, AccountsFirst
<1> QED
  BY <1>2, <1>3, <1>4, <1>6, <1>7, RowsStandOK DEF DirectoryInv, DirectoryTypeOK

LEMMA SaveHoldersOK ==
  ASSUME DirectoryInv, NEW c \in Request, SaveHolders(c)
  PROVE  DirectoryInv'
<1> DEFINE to == [op |-> "clear", whom |-> Person]
<1>1. to \in RequestRecords /\ to.op = "clear" /\ to.whom = Person
  BY DEF RequestRecords
<1>2. Proceeds(c, to) /\ DirectoryTypeOK /\ request[c].holders \subseteq Entity
  BY RequestsAre DEF SaveHolders, AllCached, DirectoryInv
<1> HIDE DEF to
<1>3. /\ Advances(c, to)
      /\ UNCHANGED <<account, row, label, members, cached, excused, overlapped>>
      /\ role' = [role EXCEPT !.holders = request[c].holders]
  BY <1>1, <1>2, ProceedsOK DEF SaveHolders
<1>4. role' \in [rights : Rights, holders : SUBSET Entity]
  BY <1>2, <1>3 DEF DirectoryTypeOK
<1>5. \A p \in Person : Promised(p)'
  BY <1>1, <1>3 DEF Promised, Advances
<1>6. RightsAreCurrent'
  <2>1. \A p \in Person : Right(p)'
    BY <1>5 DEF Right
  <2> QED
    BY <2>1, RightsWillBe
<1>7. \A p \in Person : cached'[p] # Null => row[p] # Null
  BY <1>3 DEF DirectoryInv, AccountsFirst
<1> QED
  BY <1>1, <1>2, <1>3, <1>4, <1>6, <1>7, RowsStandOK DEF DirectoryInv, DirectoryTypeOK

(* A request is over: what it promised is done, or its promise was for        *)
(* entries that are dropped or excused                                       *)
LEMMA OverOK ==
  ASSUME DirectoryInv, NEW c \in Request, Clear(c) \/ Keep(c) \/ Fail(c)
  PROVE  DirectoryInv'
<1> DEFINE k == request[c]
<1>0. /\ DirectoryTypeOK /\ Holds(k) /\ Free \in RequestRecords /\ Free.op = "none"
      /\ UNCHANGED <<account, row, label, members, role, overlapped>> /\ Proceeds(c, Free)
  BY DEF DirectoryInv, Clear, Keep, Fail, Free, RequestRecords
<1>1. Advances(c, Free)
  BY <1>0, ProceedsOK
<1>2. \A p \in Person : SameView(p)
  BY <1>0, ViewStays
<1>3. /\ cached' \in [Person -> Entry \cup {Null}] /\ excused' \subseteq Person
      /\ \A p \in Person : (cached'[p] # Null => row[p] # Null) /\ Right(p)'
  <2>1. CASE Clear(c)
    <3>1. /\ k.op = "clear" /\ cached' = [p \in Person |-> IF p \in k.whom THEN Null ELSE cached[p]]
          /\ excused' = excused \ k.whom
      BY <2>1 DEF Clear
    <3>2. \A p \in Person \ k.whom : Promised(p) => Promised(p)'
      BY <1>1, <3>1 DEF Promised, Advances
    <3>3. \A p \in Person \ k.whom : Right(p)'
      BY <1>2, <3>1, <3>2, RightsAre, RightStays DEF DirectoryInv
    <3>4. \A p \in Person \cap k.whom : Right(p)'
      BY <3>1 DEF Right
    <3>5. cached' \in [Person -> Entry \cup {Null}] /\ excused' \subseteq Person
      BY <1>0, <3>1 DEF DirectoryTypeOK
    <3>6. \A p \in Person : cached'[p] # Null => row[p] # Null
      BY <3>1 DEF DirectoryInv, AccountsFirst
    <3> QED
      BY <3>3, <3>4, <3>5, <3>6
  <2>2. CASE Keep(c)
    <3>1. /\ k.op = "keep" /\ cached' = [cached EXCEPT ![k.who] = k.entry]
          /\ excused' = IF Current(k.who, k.entry) THEN excused \ {k.who} ELSE excused \cup {k.who}
          /\ k.who \in Person /\ k.entry \in Entry /\ row[k.who] # Null
      BY <1>0, <2>2, RequestsAre DEF Keep, Holds
    <3>2. cached' \in [Person -> Entry \cup {Null}] /\ excused' \subseteq Person
      BY <1>0, <3>1 DEF DirectoryTypeOK
    <3>3. \A p \in Person : cached'[p] # Null => row[p] # Null
      BY <1>0, <3>1 DEF DirectoryInv, AccountsFirst, DirectoryTypeOK
    <3>4. cached'[k.who] = k.entry /\ \A p \in Person \ {k.who} : cached'[p] = cached[p]
      BY <1>0, <3>1 DEF DirectoryTypeOK
    <3>5. ASSUME NEW p \in Person, p # k.who PROVE Right(p)'
      <4>1. (Promised(p) => Promised(p)') /\ (p \in excused => p \in excused')
        BY <1>1, <3>1, <3>5, PromisesStay
      <4> QED
        BY <1>2, <3>4, <3>5, <4>1, RightsAre, RightStays DEF DirectoryInv
    <3>6. ASSUME NEW p \in Person, p = k.who PROVE Right(p)'
      <4>1. CASE Current(k.who, k.entry)
        <5>1. MayEnter(p)' /\ cached'[p] = View(p)'
          BY <1>2, <3>4, <3>6, <4>1 DEF Current, SameView
        <5> QED
          BY <5>1 DEF Right, Current
      <4>2. CASE ~Current(k.who, k.entry)
        BY <3>1, <3>6, <4>2 DEF Right
      <4> QED
        BY <4>1, <4>2
    <3> QED
      BY <3>2, <3>3, <3>5, <3>6
  <2>3. CASE Fail(c)
    <3>1. /\ UNCHANGED cached
          /\ excused' = excused \cup (IF k.op \in {"holders", "clear"} THEN { p \in Person : cached[p] # Null } ELSE {})
      BY <2>3 DEF Fail
    <3>2. cached' \in [Person -> Entry \cup {Null}] /\ excused' \subseteq Person
      BY <1>0, <3>1 DEF DirectoryTypeOK
    <3>3. \A p \in Person : cached'[p] # Null => row[p] # Null
      BY <3>1 DEF DirectoryInv, AccountsFirst
    <3>4. CASE k.op \in {"holders", "clear"}
      BY <3>1, <3>2, <3>3, <3>4 DEF Right
    <3>5. CASE k.op \notin {"holders", "clear"}
      <4>1. \A p \in Person : Right(p)'
        BY <1>1, <1>2, <3>1, <3>5, RightsAre, RightStays, PromisesStay DEF DirectoryInv
      <4> QED
        BY <3>2, <3>3, <4>1
    <3> QED
      BY <3>4, <3>5
  <2> QED
    BY <2>1, <2>2, <2>3
<1>4. RightsAreCurrent'
  BY <1>3, RightsWillBe
<1>5. role' \in [rights : Rights, holders : SUBSET Entity]
  BY <1>0 DEF DirectoryTypeOK
<1> QED
  BY <1>0, <1>1, <1>3, <1>4, <1>5, RowsStandOK DEF DirectoryInv

(* AUTH_CACHE_TTL                                                            *)
LEMMA ExpiryOK ==
  ASSUME DirectoryInv, NEW p \in Person, Expire(p)
  PROVE  DirectoryInv'
<1>1. /\ UNCHANGED <<account, row, label, members, role, overlapped, request>> /\ DirectoryTypeOK
      /\ cached' = [cached EXCEPT ![p] = Null] /\ excused' = excused \ {p}
  BY DEF Expire, DirectoryInv
<1>2. DirectoryTypeOK'
  BY <1>1 DEF DirectoryTypeOK
<1>3. cached'[p] = Null /\ \A q \in Person \ {p} : cached'[q] = cached[q]
  BY <1>1 DEF DirectoryTypeOK
<1>4. OneCreates' /\ AccountsFirst' /\ NamesAgree' /\ \A d \in Request : Holds(request[d])'
  BY <1>1, <1>3 DEF DirectoryInv, OneCreates, AccountsFirst, NamesAgree, Holds
<1>5. RightsAreCurrent'
  <2>1. \A q \in Person \ {p} : Right(q)'
    <3> TAKE q \in Person \ {p}
    <3>1. SameView(q) /\ (Promised(q) => Promised(q)') /\ (q \in excused => q \in excused')
      BY <1>1, ViewStays DEF Promised
    <3> QED
      BY <1>3, <3>1, RightsAre, RightStays DEF DirectoryInv
  <2>2. Right(p)'
    BY <1>3 DEF Right
  <2>3. \A q \in Person : Right(q)'
    BY <2>1, <2>2
  <2> QED
    BY <2>3, RightsWillBe
<1> QED
  BY <1>2, <1>4, <1>5 DEF DirectoryInv

-----------------------------------------------------------------------------
DirectorySpec == DirectoryInit /\ [][DirectoryNext]_directoryVars

LEMMA DirectoryNextOK ==
  ASSUME DirectoryInv, [DirectoryNext]_directoryVars
  PROVE  DirectoryInv'
<1>1. ASSUME RemoveTeam \/ \E name \in Name, users \in SUBSET Known : CreateTeam(name, users) PROVE DirectoryInv'
  BY <1>1, TeamOK
<1>2. ASSUME NEW p \in Person, Expire(p) PROVE DirectoryInv'
  BY <1>2, ExpiryOK
<1>3. ASSUME NEW c \in Request, ReadPrincipal(c) \/ LoadRoles(c) PROVE DirectoryInv'
  BY <1>3, ReadsOK
<1>4. ASSUME NEW c \in Request, SaveHolders(c) \/ Clear(c) \/ Keep(c) \/ Fail(c) PROVE DirectoryInv'
  BY <1>4, SaveHoldersOK, OverOK
<1>5. ASSUME NEW c \in Request, NEW name \in Name,
             CreatePerson(c, name) \/ \E e \in Person \cup {Team} : ReadRow(c, e, name)
      PROVE  DirectoryInv'
  BY <1>5, CreatePersonOK, ReadsOK DEF Entity
<1>6. ASSUME NEW c \in Request, NEW asked \in SUBSET Known, SaveRow(c, asked) PROVE DirectoryInv'
  BY <1>6, SaveRowOK
<1>7. ASSUME NEW c \in Request, NEW p \in Person,
             \/ CreateAccount(c, p) \/ RemovePerson(c, p) \/ LoadPerson(c, p)
             \/ \E b \in BOOLEAN : SetActive(c, p, b)
      PROVE  DirectoryInv'
  BY <1>7, ReadsOK, CloseOK
<1>8. ASSUME NEW c \in Request, NEW rights \in Rights, SaveRights(c, rights) PROVE DirectoryInv'
  BY <1>8, SaveRightsOK
<1>9. CASE UNCHANGED directoryVars
  <2>1. UNCHANGED <<account, row, label, members, role, cached, excused, overlapped, request>>
    BY <1>9 DEF directoryVars
  <2>2. DirectoryTypeOK' /\ OneCreates' /\ AccountsFirst' /\ \A d \in Request : Holds(request[d])'
    BY <2>1 DEF DirectoryInv, DirectoryTypeOK, OneCreates, AccountsFirst, Holds
  <2>3. NamesAgree' /\ RightsAreCurrent'
    BY <2>1 DEF DirectoryInv, NamesAgree, RightsAreCurrent, Current, MayEnter, View, RightsOf, Principals
  <2> QED
    BY <2>2, <2>3 DEF DirectoryInv
<1> QED
  BY <1>1, <1>2, <1>3, <1>4, <1>5, <1>6, <1>7, <1>8, <1>9 DEF DirectoryNext

(* For any people, names, rights and requests, and any number of saves: a     *)
(* person or the team has a principal as soon as there is a row, and it has   *)
(* the same name unless two saves overlapped; and what the guard keeps of a   *)
(* person is what it would load now, unless a request that will drop it is    *)
(* under way or the entry is one of the exceptions.                          *)
THEOREM PeopleAreWhatTheirPrincipalsSay == DirectorySpec => []DirectoryAgrees
<1>1. DirectoryInit => DirectoryInv
  BY DirectoryInitOK
<1>2. DirectoryInv /\ [DirectoryNext]_directoryVars => DirectoryInv'
  BY DirectoryNextOK
<1>3. DirectoryInv => DirectoryAgrees
  BY DEF DirectoryInv, DirectoryAgrees
<1> QED
  BY <1>1, <1>2, <1>3, PTL DEF DirectorySpec

-----------------------------------------------------------------------------
(* Shares and comments: the inductive invariant                              *)

Replies(cs) == \A c \in DOMAIN cs : cs[c].parent # Nil => cs[c].parent \in 1..(c - 1)

RoundsBegin ==
  /\ topic.status = "draft" => topic.round = 0
  /\ topic.round = 0 => topic.status \in {"draft", "cancelled"}

(* A round something was written in                                          *)
WasOpen(n) == n \in 0..topic.round /\ (n = 0 => CancelledUnsent)

ThreadsAreSound ==
  /\ Replies(comments)
  /\ \A c \in DOMAIN comments :
       /\ WasOpen(comments[c].round)
       /\ comments[c].parent # Nil => comments[comments[c].parent].round <= comments[c].round
       /\ LevelOf(comments)[c] <= MaxDepth

WriterIsSound(u) ==
  /\ calls[u].op \in {"comment", "writing"} => WasOpen(topic.round) /\ calls[u].parent \in DOMAIN comments \cup {Nil}
  /\ calls[u].op \in {"edit", "remove"} => calls[u].comment \in DOMAIN comments
  /\ calls[u].op = "writing" =>
       /\ WasOpen(calls[u].round)
       /\ calls[u].parent # Nil =>
            comments[calls[u].parent].round <= calls[u].round /\ LevelOf(comments)[calls[u].parent] < MaxDepth

Taken == { shares[i].principal : i \in { j \in DOMAIN shares : ~shares[j].deleted } }

SharerIsAlone(u) ==
  /\ calls[u].op \in {"sharing", "unsharing"} <=> lock = u
  /\ calls[u].op \in {"unshare", "unsharing"} => calls[u].share \in DOMAIN shares
  /\ calls[u].op = "sharing" => (calls[u].already <=> calls[u].with \in Taken)

WritersAreSound == \A u \in Writer : WriterIsSound(u)
SharersAreAlone == \A u \in Writer : SharerIsAlone(u)

SharesDiffer ==
  \A i, j \in DOMAIN shares :
    i # j /\ shares[i].principal = shares[j].principal => shares[i].deleted \/ shares[j].deleted

TalkInv ==
  /\ TalkTypeOK
  /\ RoundsBegin
  /\ ThreadsAreSound
  /\ WritersAreSound
  /\ SharersAreAlone
  /\ SharesDiffer

(* Induction, over a set of numbers                                          *)
LEMMA FromZero ==
  ASSUME NEW T, 0 \in T, \A n \in Nat : n \in T => n + 1 \in T
  PROVE  Nat \subseteq T
<1> SUFFICES ASSUME Nat \ T # {} PROVE FALSE
  OBVIOUS
<1> DEFINE R == OpToRel(<, Nat)
<1>1. IsWellFoundedOn(R, Nat)
  BY NatLessThanWellFounded
<1>2. \A a, b \in Nat : a < b => <<a, b>> \in R
  BY DEF OpToRel
<1>3. PICK n \in Nat \ T : \A m \in Nat \ T : <<m, n>> \notin R
  BY <1>1, WFMin
<1> HIDE DEF R
<1>4. n # 0 /\ n - 1 \in Nat /\ n - 1 < n /\ n - 1 + 1 = n
  BY <1>3
<1>5. n - 1 \in T
  BY <1>2, <1>3, <1>4
<1> QED
  BY <1>3, <1>4, <1>5

(* How high a comment hangs is told by what it replies to, once, ...          *)
LEMMA LevelsExist ==
  ASSUME NEW cs \in Seq(Comment), Replies(cs)
  PROVE  /\ LevelOf(cs) \in [DOMAIN cs -> Nat \ {0}]
         /\ \A c \in DOMAIN cs : LevelOf(cs)[c] = IF cs[c].parent = Nil THEN 1 ELSE LevelOf(cs)[cs[c].parent] + 1
<1> DEFINE Above(l, c) == IF cs[c].parent = Nil THEN 1 ELSE l[cs[c].parent] + 1
           Good(n) == \E l \in [1..n -> Nat \ {0}] : \A c \in 1..n : l[c] = Above(l, c)
           T == { n \in Nat : n <= Len(cs) => Good(n) }
<1>1. DOMAIN cs = 1..Len(cs) /\ Len(cs) \in Nat
  OBVIOUS
<1>2. Good(0)
  <2> DEFINE l == [c \in 1..0 |-> 1]
  <2>1. l \in [1..0 -> Nat \ {0}] /\ \A c \in 1..0 : FALSE
    OBVIOUS
  <2> QED
    BY <2>1
<1>3. ASSUME NEW n \in Nat, Good(n), n + 1 <= Len(cs) PROVE Good(n + 1)
  <2>1. PICK l \in [1..n -> Nat \ {0}] : \A c \in 1..n : l[c] = Above(l, c)
    BY <1>3
  <2> DEFINE next == Above(l, n + 1)
             m == [c \in 1..(n + 1) |-> IF c = n + 1 THEN next ELSE l[c]]
  <2>2. \A c \in 1..(n + 1) : c \in DOMAIN cs /\ (cs[c].parent # Nil => cs[c].parent \in 1..n /\ cs[c].parent < c)
    BY <1>1, <1>3 DEF Replies
  <2>3. next \in Nat \ {0}
    BY <2>1, <2>2
  <2> HIDE DEF next
  <2>4. m \in [1..(n + 1) -> Nat \ {0}] /\ m[n + 1] = next /\ \A c \in 1..n : m[c] = l[c]
    BY <2>1, <2>3
  <2> HIDE DEF m
  <2>5. \A c \in 1..(n + 1) : m[c] = Above(m, c)
    <3>1. m[n + 1] = Above(m, n + 1)
      BY <2>2, <2>4 DEF next
    <3>2. \A c \in 1..n : m[c] = Above(m, c)
      BY <2>1, <2>2, <2>4
    <3> QED
      BY <3>1, <3>2
  <2> QED
    BY <2>4, <2>5
<1>4. Good(Len(cs))
  <2> HIDE DEF Good
  <2>1. 0 \in T /\ \A n \in Nat : n \in T => n + 1 \in T
    BY <1>1, <1>2, <1>3
  <2> HIDE DEF T
  <2>2. Len(cs) \in T
    BY <1>1, <2>1, FromZero
  <2> QED
    BY <1>1, <2>2 DEF T
<1>5. PICK l \in [DOMAIN cs -> Nat \ {0}] : \A c \in DOMAIN cs : l[c] = Above(l, c)
  BY <1>1, <1>4
<1> DEFINE P(f) == f = [c \in DOMAIN cs |-> IF cs[c].parent = Nil THEN 1 ELSE f[cs[c].parent] + 1]
<1>6. P(l)
  BY <1>5
<1>7. LevelOf(cs) = CHOOSE f : P(f)
  BY DEF LevelOf
<1> HIDE DEF P
<1>8. P(LevelOf(cs))
  BY <1>6, <1>7
<1>9. /\ LevelOf(cs) = [c \in DOMAIN cs |-> LevelOf(cs)[c]]
      /\ \A c \in DOMAIN cs : LevelOf(cs)[c] = Above(LevelOf(cs), c)
  BY <1>8 DEF P
<1> DEFINE Fine(n) == \A c \in 1..n : LevelOf(cs)[c] \in Nat \ {0}
           U == { n \in Nat : n <= Len(cs) => Fine(n) }
<1>10. Fine(0)
  OBVIOUS
<1>11. ASSUME NEW n \in Nat, Fine(n), n + 1 <= Len(cs) PROVE Fine(n + 1)
  <2> SUFFICES ASSUME NEW c \in 1..(n + 1) PROVE LevelOf(cs)[c] \in Nat \ {0}
    OBVIOUS
  <2>1. c \in DOMAIN cs /\ (cs[c].parent # Nil => cs[c].parent \in 1..n)
    BY <1>1, <1>11 DEF Replies
  <2>2. cs[c].parent # Nil => LevelOf(cs)[cs[c].parent] \in Nat
    BY <1>11, <2>1
  <2> QED
    BY <1>9, <2>1, <2>2
<1>12. Fine(Len(cs))
  <2> HIDE DEF Fine
  <2>1. 0 \in U /\ \A n \in Nat : n \in U => n + 1 \in U
    BY <1>1, <1>10, <1>11
  <2> HIDE DEF U
  <2>2. Len(cs) \in U
    BY <1>1, <2>1, FromZero
  <2> QED
    BY <1>1, <2>2 DEF U
<1>13. \A c \in DOMAIN cs : LevelOf(cs)[c] \in Nat \ {0}
  BY <1>1, <1>12
<1> QED
  BY <1>9, <1>13

(* ... whatever is appended or marked later                                  *)
LEMMA LevelsStay ==
  ASSUME NEW cs \in Seq(Comment), NEW ds \in Seq(Comment), Replies(cs), Replies(ds), Len(cs) <= Len(ds),
         \A c \in DOMAIN cs : ds[c].parent = cs[c].parent
  PROVE  \A c \in DOMAIN cs : LevelOf(ds)[c] = LevelOf(cs)[c]
<1> DEFINE Same(n) == \A c \in 1..n : LevelOf(ds)[c] = LevelOf(cs)[c]
           T == { n \in Nat : n <= Len(cs) => Same(n) }
<1>1. DOMAIN cs = 1..Len(cs) /\ Len(cs) \in Nat /\ DOMAIN cs \subseteq DOMAIN ds
  OBVIOUS
<1>2. /\ \A c \in DOMAIN cs : LevelOf(cs)[c] = IF cs[c].parent = Nil THEN 1 ELSE LevelOf(cs)[cs[c].parent] + 1
      /\ \A c \in DOMAIN cs : LevelOf(ds)[c] = IF cs[c].parent = Nil THEN 1 ELSE LevelOf(ds)[cs[c].parent] + 1
  BY <1>1, LevelsExist
<1>3. Same(0)
  OBVIOUS
<1>4. ASSUME NEW n \in Nat, Same(n), n + 1 <= Len(cs) PROVE Same(n + 1)
  <2> SUFFICES ASSUME NEW c \in 1..(n + 1) PROVE LevelOf(ds)[c] = LevelOf(cs)[c]
    OBVIOUS
  <2>1. c \in DOMAIN cs /\ (cs[c].parent # Nil => cs[c].parent \in 1..n)
    BY <1>1, <1>4 DEF Replies
  <2>2. cs[c].parent # Nil => LevelOf(ds)[cs[c].parent] = LevelOf(cs)[cs[c].parent]
    BY <1>4, <2>1
  <2> QED
    BY <1>2, <2>1, <2>2
<1> HIDE DEF Same
<1>5. 0 \in T /\ \A n \in Nat : n \in T => n + 1 \in T
  BY <1>1, <1>3, <1>4
<1> HIDE DEF T
<1>6. Len(cs) \in T
  BY <1>1, <1>5, FromZero
<1>7. Same(Len(cs))
  BY <1>1, <1>6 DEF T
<1> QED
  BY <1>1, <1>7 DEF Same

-----------------------------------------------------------------------------
(* What has a place on the page                                              *)

Below(s) == { c \in DOMAIN comments : \E r \in s : comments[r].parent = c }
Grows(k) ==
  /\ k[0] = { c \in DOMAIN comments : Live(c) }
  /\ \A n \in 0..MaxDepth : n # 0 => k[n] = k[n - 1] \cup Below(k[n - 1])

LEMMA PlacesGrow ==
  ASSUME TalkAssumption, Fetched = DOMAIN comments
  PROVE  \E k : Grows(k) /\ Places = k[MaxDepth] \cup { c \in DOMAIN comments : comments[c].parent = Nil }
<1> DEFINE First == { c \in DOMAIN comments : Live(c) }
           D == DOMAIN comments
           To(k, n) == IF n = 0 THEN First ELSE k[n - 1] \cup Below(k[n - 1])
           Good(n) == \E k \in [0..n -> SUBSET D] : \A m \in 0..n : k[m] = To(k, m)
           T == { n \in Nat : Good(n) }
<1>1. \A s : Below(s) \subseteq D
  BY DEF Below
<1>2. First \subseteq D
  OBVIOUS
<1> HIDE DEF First, D
<1>3. Good(0)
  <2> DEFINE k == [m \in 0..0 |-> First]
  <2>1. k \in [0..0 -> SUBSET D] /\ \A m \in 0..0 : k[m] = To(k, m)
    BY <1>2
  <2> QED
    BY <2>1
<1>4. ASSUME NEW n \in Nat, Good(n) PROVE Good(n + 1)
  <2>1. PICK k \in [0..n -> SUBSET D] : \A m \in 0..n : k[m] = To(k, m)
    BY <1>4
  <2> DEFINE next == k[n] \cup Below(k[n])
             l == [m \in 0..(n + 1) |-> IF m = n + 1 THEN next ELSE k[m]]
  <2>2. next \in SUBSET D
    BY <1>1, <2>1
  <2> HIDE DEF next
  <2>3. l \in [0..(n + 1) -> SUBSET D] /\ l[n + 1] = next /\ \A m \in 0..n : l[m] = k[m]
    BY <2>1, <2>2
  <2> HIDE DEF l
  <2>4. \A m \in 0..(n + 1) : l[m] = To(l, m)
    <3>1. l[n + 1] = To(l, n + 1)
      <4>1. n + 1 # 0 /\ n + 1 - 1 = n /\ l[n] = k[n]
        BY <2>3
      <4> QED
        BY <2>3, <4>1 DEF next
    <3>2. ASSUME NEW m \in 0..n PROVE l[m] = To(l, m)
      <4>1. l[m] = To(k, m)
        BY <2>1, <2>3
      <4>2. m # 0 => m - 1 \in 0..n
        OBVIOUS
      <4>3. m # 0 => l[m - 1] = k[m - 1]
        BY <2>3, <4>2
      <4> QED
        BY <4>1, <4>3
    <3>3. \A m \in 0..(n + 1) : m = n + 1 \/ m \in 0..n
      OBVIOUS
    <3> HIDE DEF To
    <3> QED
      BY <3>1, <3>2, <3>3
  <2> QED
    BY <2>3, <2>4
<1>5. Good(MaxDepth)
  <2> HIDE DEF Good
  <2>1. 0 \in T /\ \A n \in Nat : n \in T => n + 1 \in T
    BY <1>3, <1>4
  <2> HIDE DEF T
  <2>2. MaxDepth \in T
    BY <2>1, FromZero DEF TalkAssumption
  <2> QED
    BY <2>2 DEF T
<1>6. PICK k \in [0..MaxDepth -> SUBSET D] : \A m \in 0..MaxDepth : k[m] = To(k, m)
  BY <1>5
<1> DEFINE P(f) == f = [n \in 0..MaxDepth |->
                          IF n = 0 THEN { c \in Fetched : Live(c) }
                          ELSE f[n - 1] \cup { c \in Fetched : \E r \in f[n - 1] : comments[r].parent = c }]
           F == CHOOSE f : P(f)
<1>7. P(k)
  <2>1. \A m \in 0..MaxDepth : k[m] = IF m = 0 THEN { c \in Fetched : Live(c) }
          ELSE k[m - 1] \cup { c \in Fetched : \E r \in k[m - 1] : comments[r].parent = c }
    BY <1>6 DEF First, Below
  <2> QED
    BY <1>6, <2>1
<1>8. Places = F[MaxDepth] \cup { c \in DOMAIN comments : comments[c].parent = Nil }
  BY DEF Places
<1> HIDE DEF P
<1>9. P(F)
  BY <1>7
<1> HIDE DEF F
<1>10. /\ F = [n \in 0..MaxDepth |-> F[n]]
       /\ \A n \in 0..MaxDepth : F[n] = IF n = 0 THEN { c \in DOMAIN comments : Live(c) } ELSE F[n - 1] \cup Below(F[n - 1])
  BY <1>9 DEF P, Below
<1>11. Grows(F)
  <2>1. 0 \in 0..MaxDepth
    BY DEF TalkAssumption
  <2>2. F[0] = { c \in DOMAIN comments : Live(c) }
    BY <1>10, <2>1
  <2>3. \A n \in 0..MaxDepth : n # 0 => F[n] = F[n - 1] \cup Below(F[n - 1])
    BY <1>10
  <2> QED
    BY <2>2, <2>3 DEF Grows
<1> QED
  BY <1>8, <1>11

(* What is kept once is kept on every later turn of the search              *)
LEMMA PlacesOnlyGrow ==
  ASSUME TalkAssumption, NEW k, Grows(k)
  PROVE  \A n \in 0..MaxDepth : k[n] \subseteq k[MaxDepth]
<1> DEFINE Stays(n) == k[MaxDepth - n] \subseteq k[MaxDepth]
           U == { n \in Nat : n <= MaxDepth => Stays(n) }
<1>a. MaxDepth \in Nat
  BY DEF TalkAssumption
<1>b. \A n \in 0..MaxDepth : n # 0 => k[n] = k[n - 1] \cup Below(k[n - 1])
  BY DEF Grows
<1>1. Stays(0)
  BY <1>a
<1>2. ASSUME NEW n \in Nat, Stays(n), n + 1 <= MaxDepth PROVE Stays(n + 1)
  <2>1. MaxDepth - n \in 0..MaxDepth /\ MaxDepth - n # 0 /\ MaxDepth - n - 1 = MaxDepth - (n + 1)
    BY <1>a, <1>2
  <2>2. k[MaxDepth - n] = k[MaxDepth - (n + 1)] \cup Below(k[MaxDepth - (n + 1)])
    BY <1>b, <2>1
  <2> QED
    BY <1>2, <2>2
<1> HIDE DEF Stays
<1>3. 0 \in U /\ \A n \in Nat : n \in U => n + 1 \in U
  BY <1>a, <1>1, <1>2
<1> HIDE DEF U
<1>4. Nat \subseteq U
  BY <1>3, FromZero
<1>5. \A n \in 0..MaxDepth : Stays(MaxDepth - n) /\ MaxDepth - (MaxDepth - n) = n
  BY <1>a, <1>4 DEF U
<1> QED
  BY <1>5 DEF Stays

(* A comment that is kept hangs no deeper than there is room below it for    *)
(* what it is kept for, so what it replies to is found in time.              *)
LEMMA PlacesAreRight ==
  ASSUME TalkAssumption, comments \in Seq(Comment), NEW k, Grows(k), NEW level \in [DOMAIN comments -> Nat \ {0}],
         \A c \in DOMAIN comments : comments[c].parent # Nil =>
           comments[c].parent \in DOMAIN comments /\ level[c] = level[comments[c].parent] + 1,
         \A c \in DOMAIN comments : level[c] <= MaxDepth
  PROVE  \A c \in k[MaxDepth] :
           /\ c \in DOMAIN comments
           /\ Live(c) \/ \E r \in DOMAIN comments : comments[r].parent = c
           /\ comments[c].parent # Nil => comments[c].parent \in k[MaxDepth]
<1> DEFINE D == DOMAIN comments
           Held(c) == Live(c) \/ \E r \in D : comments[r].parent = c
           Early(c, n) == \E m \in 0..n : c \in k[m] /\ level[c] + m <= MaxDepth
           Good(n) == \A c \in k[n] : c \in D /\ Held(c) /\ Early(c, n)
           T == { n \in Nat : n <= MaxDepth => Good(n) }
<1>1. MaxDepth \in Nat
  BY DEF TalkAssumption
<1>2. k[0] = { c \in D : Live(c) }
  BY DEF Grows
<1>3. \A n \in 0..MaxDepth : n # 0 => k[n] = k[n - 1] \cup Below(k[n - 1])
  BY DEF Grows
<1>4. Good(0)
  <2> SUFFICES ASSUME NEW c \in k[0] PROVE c \in D /\ Held(c) /\ Early(c, 0)
    OBVIOUS
  <2>1. c \in D /\ Live(c)
    BY <1>2
  <2>2. 0 \in 0..0 /\ level[c] + 0 <= MaxDepth
    BY <1>1, <2>1
  <2> QED
    BY <2>1, <2>2
<1>5. ASSUME NEW n \in Nat, Good(n), n + 1 <= MaxDepth PROVE Good(n + 1)
  <2> SUFFICES ASSUME NEW c \in k[n + 1] PROVE c \in D /\ Held(c) /\ Early(c, n + 1)
    OBVIOUS
  <2>1. n + 1 \in 0..MaxDepth /\ n + 1 # 0 /\ n + 1 - 1 = n
    BY <1>1, <1>5
  <2>2. k[n + 1] = k[n] \cup Below(k[n])
    <3> HIDE DEF Good, Held, D
    <3>1. k[n + 1] = k[n + 1 - 1] \cup Below(k[n + 1 - 1])
      BY <1>3, <2>1
    <3> QED
      BY <2>1, <3>1
  <2>3. CASE c \in k[n]
    <3>1. c \in D /\ Held(c) /\ Early(c, n)
      BY <1>5, <2>3
    <3>2. PICK m \in 0..n : c \in k[m] /\ level[c] + m <= MaxDepth
      BY <3>1
    <3>3. m \in 0..(n + 1)
      OBVIOUS
    <3> QED
      BY <3>1, <3>2, <3>3
  <2>4. CASE c \in Below(k[n])
    <3>1. c \in D /\ \E r \in k[n] : comments[r].parent = c
      BY <2>4 DEF Below
    <3>2. PICK r \in k[n] : comments[r].parent = c
      BY <3>1
    <3>3. r \in D /\ Early(r, n)
      BY <1>5
    <3>4. PICK m \in 0..n : r \in k[m] /\ level[r] + m <= MaxDepth
      BY <3>3
    <3>5. c # Nil
      <4>1. c \in Nat /\ Nil \notin Nat
        BY <3>1 DEF TalkAssumption
      <4> QED
        BY <4>1
    <3>6. level[r] = level[c] + 1 /\ level[c] \in Nat /\ level[r] \in Nat
      BY <3>1, <3>2, <3>3, <3>5
    <3>7. m + 1 \in 0..(n + 1) /\ m + 1 \in 0..MaxDepth /\ m + 1 # 0 /\ m + 1 - 1 = m /\ level[c] + (m + 1) <= MaxDepth
      BY <1>1, <1>5, <3>4, <3>6
    <3>8. c \in k[m + 1]
      <4>1. k[m + 1] = k[m] \cup Below(k[m])
        BY <1>3, <3>7
      <4> QED
        BY <3>1, <3>2, <3>4, <4>1 DEF Below
    <3>9. Early(c, n + 1)
      BY <3>7, <3>8
    <3>10. Held(c)
      BY <3>2, <3>3
    <3> QED
      BY <3>1, <3>9, <3>10
  <2> QED
    BY <2>2, <2>3, <2>4
<1>6. Good(MaxDepth)
  <2> HIDE DEF Good
  <2>1. 0 \in T /\ \A n \in Nat : n \in T => n + 1 \in T
    BY <1>1, <1>4, <1>5
  <2> HIDE DEF T
  <2>2. MaxDepth \in T
    BY <1>1, <2>1, FromZero
  <2> QED
    BY <1>1, <2>2 DEF T
<1>7. \A n \in 0..MaxDepth : k[n] \subseteq k[MaxDepth]
  BY PlacesOnlyGrow
<1> SUFFICES ASSUME NEW c \in k[MaxDepth], comments[c].parent # Nil PROVE comments[c].parent \in k[MaxDepth]
  BY <1>6
<1>8. c \in D /\ Early(c, MaxDepth)
  BY <1>6
<1>9. PICK m \in 0..MaxDepth : c \in k[m] /\ level[c] + m <= MaxDepth
  BY <1>8
<1>10. comments[c].parent \in D /\ level[c] = level[comments[c].parent] + 1
  BY <1>8
<1>11. level[comments[c].parent] \in Nat \ {0}
  BY <1>10
<1>12. m + 1 \in 0..MaxDepth /\ m + 1 # 0 /\ m + 1 - 1 = m
  BY <1>1, <1>9, <1>10, <1>11
<1>13. k[m + 1] = k[m] \cup Below(k[m])
  BY <1>3, <1>12
<1>14. comments[c].parent \in k[m + 1]
  BY <1>9, <1>10, <1>13 DEF Below
<1> QED
  BY <1>7, <1>12, <1>14

(* What the invariant says of the page                                       *)
LEMMA PageOK ==
  ASSUME TalkInv, TalkAssumption
  PROVE  TalkIsKept
<1> DEFINE level == LevelOf(comments)
<1>1. comments \in Seq(Comment) /\ Replies(comments)
  BY DEF TalkInv, TalkTypeOK, ThreadsAreSound
<1>2. /\ level \in [DOMAIN comments -> Nat \ {0}]
      /\ \A c \in DOMAIN comments : level[c] = IF comments[c].parent = Nil THEN 1 ELSE level[comments[c].parent] + 1
  BY <1>1, LevelsExist
<1>3. \A c \in DOMAIN comments : level[c] <= MaxDepth
  BY DEF TalkInv, ThreadsAreSound
<1>4. Fetched = DOMAIN comments
  BY <1>3 DEF Fetched
<1> HIDE DEF level
<1>5. PICK k : Grows(k) /\ Places = k[MaxDepth] \cup { c \in DOMAIN comments : comments[c].parent = Nil }
  BY <1>4, PlacesGrow
<1>6. \A c \in DOMAIN comments : comments[c].parent # Nil =>
        comments[c].parent \in DOMAIN comments /\ level[c] = level[comments[c].parent] + 1
  BY <1>1, <1>2 DEF Replies
<1>7. \A c \in k[MaxDepth] :
        /\ c \in DOMAIN comments
        /\ Live(c) \/ \E r \in DOMAIN comments : comments[r].parent = c
        /\ comments[c].parent # Nil => comments[c].parent \in k[MaxDepth]
  BY <1>1, <1>2, <1>3, <1>5, <1>6, PlacesAreRight
<1>8. \A c \in DOMAIN comments : Live(c) => c \in k[MaxDepth]
  <2>1. k[0] = { c \in DOMAIN comments : Live(c) }
    BY <1>5 DEF Grows
  <2>2. k[0] \subseteq k[MaxDepth]
    BY <1>5, PlacesOnlyGrow DEF TalkAssumption
  <2> QED
    BY <2>1, <2>2
<1>9. \A c \in DOMAIN comments :
        /\ comments[c].round <= topic.round /\ (comments[c].round = 0 => CancelledUnsent)
        /\ comments[c].parent # Nil => comments[comments[c].parent].round <= comments[c].round
  <2>1. \A c \in DOMAIN comments : WasOpen(comments[c].round)
    BY DEF TalkInv, ThreadsAreSound
  <2>2. topic.round \in Nat
    BY DEF TalkInv, TalkTypeOK, TalkAssumption
  <2> QED
    BY <2>1, <2>2 DEF TalkInv, ThreadsAreSound, WasOpen
<1>10. SharesDiffer
  BY DEF TalkInv
<1> QED
  BY <1>5, <1>7, <1>8, <1>9, <1>10 DEF TalkIsKept, SharesDiffer

-----------------------------------------------------------------------------
(* Shares and comments: the steps                                            *)

LEMMA CallsAre ==
  ASSUME NEW k \in TalkCall
  PROVE  /\ k.op \in {"share", "sharing"} => k.with \in Writer \cup Group
         /\ k.op \in {"unshare", "unsharing"} => k.share \in Nat
         /\ k.op \in {"sharing", "unsharing"} => k.already \in BOOLEAN
         /\ k.op \in {"comment", "writing"} => k.parent \in Nat \cup {Nil}
         /\ k.op = "writing" => k.round \in Nat
         /\ k.op \in {"edit", "remove"} => k.comment \in Nat
BY DEF TalkCall, Rest

LEMMA RestIsCall == Rest \in TalkCall /\ Rest.op = "none"
BY DEF Rest, TalkCall

(* As long as comments only come and are marked and the round only grows,    *)
(* what is under way stays right                                             *)
LEMMA WritersGoOn ==
  ASSUME TalkInv, comments' \in Seq(Comment), Replies(comments'), Len(comments) <= Len(comments'),
         \A c \in DOMAIN comments : comments'[c].parent = comments[c].parent /\ comments'[c].round = comments[c].round,
         topic.round \in Nat, topic'.round \in Nat, topic.round <= topic'.round, CancelledUnsent => CancelledUnsent',
         NEW u \in Writer, calls'[u] = calls[u] \/ calls'[u] = Rest
  PROVE  WriterIsSound(u)'
<1>1. CASE calls'[u] = Rest
  BY <1>1, RestIsCall DEF WriterIsSound
<1>2. CASE calls'[u] = calls[u]
  <2> DEFINE k == calls[u]
  <2>1. comments \in Seq(Comment) /\ Replies(comments) /\ WriterIsSound(u)
    BY DEF TalkInv, TalkTypeOK, ThreadsAreSound, WritersAreSound
  <2>2. \A c \in DOMAIN comments : LevelOf(comments')[c] = LevelOf(comments)[c]
    BY <2>1, LevelsStay
  <2>3. DOMAIN comments \subseteq DOMAIN comments'
    BY <2>1
  <2>4. k.op \in {"comment", "writing"} => WasOpen(topic.round)' /\ k.parent \in DOMAIN comments' \cup {Nil}
    <3>1. k.op \in {"comment", "writing"} => WasOpen(topic.round) /\ k.parent \in DOMAIN comments \cup {Nil}
      BY <2>1 DEF WriterIsSound
    <3>2. WasOpen(topic.round) => WasOpen(topic.round)'
      BY DEF WasOpen
    <3> QED
      BY <2>3, <3>1, <3>2
  <2>5. k.op \in {"edit", "remove"} => k.comment \in DOMAIN comments'
    BY <2>1, <2>3 DEF WriterIsSound
  <2>6. ASSUME k.op = "writing" PROVE WasOpen(calls[u].round)'
    <3>1. WasOpen(k.round)
      BY <2>1, <2>6 DEF WriterIsSound
    <3> QED
      BY <1>2, <3>1 DEF WasOpen
  <2>7. ASSUME k.op = "writing", k.parent # Nil
        PROVE  comments'[k.parent].round <= k.round /\ LevelOf(comments')[k.parent] < MaxDepth
    <3>1. k.parent \in DOMAIN comments /\ comments[k.parent].round <= k.round /\ LevelOf(comments)[k.parent] < MaxDepth
      BY <2>1, <2>7 DEF WriterIsSound
    <3> QED
      BY <2>2, <3>1
  <2> QED
    BY <1>2, <2>4, <2>5, <2>6, <2>7 DEF WriterIsSound
<1> QED
  BY <1>1, <1>2

(* Nor does a thread get unsound                                             *)
LEMMA ThreadsGoOn ==
  ASSUME TalkInv, comments' \in Seq(Comment), Len(comments) = Len(comments'),
         \A c \in DOMAIN comments : comments'[c].parent = comments[c].parent /\ comments'[c].round = comments[c].round,
         topic.round \in Nat, topic'.round \in Nat, topic.round <= topic'.round, CancelledUnsent => CancelledUnsent'
  PROVE  ThreadsAreSound' /\ Replies(comments')
<1>1. comments \in Seq(Comment) /\ Replies(comments) /\ ThreadsAreSound
  BY DEF TalkInv, TalkTypeOK, ThreadsAreSound
<1>2. DOMAIN comments' = DOMAIN comments /\ Len(comments) \in Nat
  BY <1>1
<1>3. Replies(comments')
  <2>1. \A c \in DOMAIN comments : comments[c].parent # Nil => comments[c].parent \in 1..(c - 1)
    BY <1>1 DEF Replies
  <2>2. \A c \in DOMAIN comments' : comments'[c].parent # Nil => comments'[c].parent \in 1..(c - 1)
    BY <1>2, <2>1
  <2> QED
    BY <2>2 DEF Replies
<1>4. \A c \in DOMAIN comments : LevelOf(comments')[c] = LevelOf(comments)[c]
  <2>1. Len(comments) <= Len(comments') /\ \A c \in DOMAIN comments : comments'[c].parent = comments[c].parent
    BY <1>2
  <2> QED
    BY <1>1, <1>3, <2>1, LevelsStay
<1>5. ASSUME NEW c \in DOMAIN comments
      PROVE  /\ WasOpen(comments[c].round)'
             /\ comments'[c].parent # Nil => comments'[comments'[c].parent].round <= comments'[c].round
             /\ LevelOf(comments')[c] <= MaxDepth
  <2>0. WasOpen(comments[c].round)'
    <3>1. WasOpen(comments[c].round)
      BY <1>1 DEF ThreadsAreSound
    <3> QED
      BY <3>1 DEF WasOpen
  <2>1. LevelOf(comments)[c] <= MaxDepth
    BY <1>1 DEF ThreadsAreSound
  <2>2. comments[c].parent # Nil => comments[comments[c].parent].round <= comments[c].round
    BY <1>1 DEF ThreadsAreSound
  <2>3. comments[c].parent # Nil => comments[c].parent \in DOMAIN comments
    BY <1>1, <1>2 DEF Replies
  <2> QED
    BY <1>4, <2>0, <2>1, <2>2, <2>3
<1> QED
  BY <1>2, <1>3, <1>5 DEF ThreadsAreSound

LEMMA SharersGoOn ==
  ASSUME TalkInv, DOMAIN shares \subseteq DOMAIN shares', NEW u \in Writer,
         \/ calls'[u] = calls[u] /\ (lock' = u <=> lock = u) /\ shares' = shares
         \/ calls'[u] = calls[u] /\ lock # u /\ lock' # u
         \/ calls'[u] = Rest /\ lock' # u
  PROVE  SharerIsAlone(u)'
<1>1. SharerIsAlone(u)
  BY DEF TalkInv, SharersAreAlone
<1>2. CASE calls'[u] = calls[u] /\ (lock' = u <=> lock = u) /\ shares' = shares
  BY <1>1, <1>2 DEF SharerIsAlone, Taken
<1>3. CASE calls'[u] = calls[u] /\ lock # u /\ lock' # u
  BY <1>1, <1>3 DEF SharerIsAlone
<1>4. CASE calls'[u] = Rest /\ lock' # u
  BY <1>4, RestIsCall DEF SharerIsAlone
<1> QED
  BY <1>2, <1>3, <1>4

(* A step of one call that leaves the rows alone                             *)
LEMMA CallMoves ==
  ASSUME TalkInv, NEW u \in Writer, NEW w \in TalkCall, calls' = [calls EXCEPT ![u] = w],
         UNCHANGED <<topic, takers, inGroup, shares, comments>>, lock' \in Writer \cup {Nil},
         \A v \in Writer \ {u} : lock' = v <=> lock = v,
         WriterIsSound(u)', SharerIsAlone(u)'
  PROVE  TalkInv'
<1>1. calls \in [Writer -> TalkCall] /\ topic.round \in Nat /\ comments \in Seq(Comment)
  BY DEF TalkInv, TalkTypeOK
<1>2. calls'[u] = w /\ \A v \in Writer \ {u} : calls'[v] = calls[v]
  BY <1>1
<1>0. CancelledUnsent => CancelledUnsent'
  BY DEF CancelledUnsent
<1>3. ThreadsAreSound' /\ Replies(comments')
  BY <1>0, <1>1, ThreadsGoOn
<1>4. \A v \in Writer \ {u} : WriterIsSound(v)'
  BY <1>0, <1>1, <1>2, <1>3, WritersGoOn
<1>5. \A v \in Writer \ {u} : SharerIsAlone(v)'
  BY <1>2, SharersGoOn
<1>6. TalkTypeOK'
  BY <1>1 DEF TalkInv, TalkTypeOK
<1>7. RoundsBegin' /\ SharesDiffer'
  BY DEF TalkInv, RoundsBegin, SharesDiffer
<1>8. WritersAreSound' /\ SharersAreAlone'
  BY <1>4, <1>5 DEF WritersAreSound, SharersAreAlone
<1> QED
  BY <1>3, <1>6, <1>7, <1>8 DEF TalkInv

LEMMA TalkInitOK == TalkAssumption /\ TalkInit => TalkInv
<1> SUFFICES ASSUME TalkAssumption, TalkInit PROVE TalkInv
  OBVIOUS
<1> USE DEF TalkInit
<1>1. TalkTypeOK
  BY RestIsCall DEF TalkTypeOK, TalkAssumption
<1>2. RoundsBegin /\ ThreadsAreSound /\ SharesDiffer
  BY DEF RoundsBegin, ThreadsAreSound, Replies, SharesDiffer
<1>3. ASSUME NEW u \in Writer PROVE WriterIsSound(u) /\ SharerIsAlone(u)
  <2>1. calls[u].op = "none" /\ lock # u
    BY RestIsCall DEF TalkAssumption
  <2> QED
    BY <2>1 DEF WriterIsSound, SharerIsAlone
<1> QED
  BY <1>1, <1>2, <1>3 DEF TalkInv, WritersAreSound, SharersAreAlone

(* shareRequest, removeShare, create, update and removeComment               *)
LEMMA BeginsOK ==
  ASSUME TalkInv, TalkAssumption, NEW u \in Writer, NEW w \in TalkCall, Begins(u, w),
         w.op \notin {"sharing", "unsharing", "writing"},
         w.op = "comment" => WasOpen(topic.round) /\ w.parent \in DOMAIN comments \cup {Nil},
         w.op \in {"edit", "remove"} => w.comment \in DOMAIN comments,
         w.op = "unshare" => w.share \in DOMAIN shares
  PROVE  TalkInv'
<1>1. /\ calls[u] = Rest /\ calls' = [calls EXCEPT ![u] = w]
      /\ UNCHANGED <<topic, takers, inGroup, shares, comments, lock>>
  BY DEF Begins
<1>2. calls \in [Writer -> TalkCall] /\ lock \in Writer \cup {Nil}
  BY DEF TalkInv, TalkTypeOK
<1>3. calls'[u] = w
  BY <1>1, <1>2
<1>4. lock # u
  BY <1>1, RestIsCall DEF TalkInv, SharersAreAlone, SharerIsAlone
<1>5. WriterIsSound(u)'
  BY <1>1, <1>3 DEF WriterIsSound, WasOpen, CancelledUnsent
<1>6. SharerIsAlone(u)'
  BY <1>1, <1>3, <1>4 DEF SharerIsAlone
<1> QED
  BY <1>1, <1>2, <1>5, <1>6, CallMoves

LEMMA TalkAsksOK ==
  ASSUME TalkInv, TalkAssumption, NEW u \in Writer,
         \/ \E p \in Writer \cup Group : AskShare(u, p)
         \/ \E i \in DOMAIN shares : AskUnshare(u, i)
         \/ \E parent \in DOMAIN comments \cup {Nil}, mentions \in {{}, Writer \ {u}} : AskComment(u, parent, mentions)
         \/ \E c \in DOMAIN comments, how \in {"edit", "remove"} : AskChange(u, c, how)
  PROVE  TalkInv'
<1>1. DOMAIN shares \subseteq Nat /\ DOMAIN comments \subseteq Nat
  BY DEF TalkInv, TalkTypeOK
<1>2. ASSUME NEW p \in Writer \cup Group, AskShare(u, p) PROVE TalkInv'
  <2> DEFINE w == [op |-> "share", with |-> p]
  <2>1. Begins(u, w) /\ w \in TalkCall /\ w.op = "share"
    BY <1>2 DEF AskShare, TalkCall
  <2> QED
    BY <2>1, BeginsOK
<1>3. ASSUME NEW i \in DOMAIN shares, AskUnshare(u, i) PROVE TalkInv'
  <2> DEFINE w == [op |-> "unshare", share |-> i]
  <2>1. Begins(u, w) /\ w \in TalkCall /\ w.op = "unshare" /\ w.share = i
    BY <1>1, <1>3 DEF AskUnshare, TalkCall
  <2> HIDE DEF w
  <2> QED
    BY <2>1, BeginsOK
<1>4. ASSUME NEW parent \in DOMAIN comments \cup {Nil}, NEW mentions \in {{}, Writer \ {u}},
             AskComment(u, parent, mentions)
      PROVE  TalkInv'
  <2> DEFINE w == [op |-> "comment", parent |-> parent]
  <2>1. Begins(u, w) /\ w \in TalkCall /\ w.op = "comment" /\ w.parent = parent
    BY <1>1, <1>4 DEF AskComment, TalkCall
  <2>2. WasOpen(topic.round)
    <3>1. topic.round \in Nat /\ topic.status # "draft"
      BY <1>4 DEF AskComment, TalkInv, TalkTypeOK
    <3> QED
      BY <3>1 DEF TalkInv, RoundsBegin, WasOpen, CancelledUnsent
  <2> HIDE DEF w
  <2> QED
    BY <2>1, <2>2, BeginsOK
<1>5. ASSUME NEW c \in DOMAIN comments, NEW how \in {"edit", "remove"}, AskChange(u, c, how) PROVE TalkInv'
  <2> DEFINE w == [op |-> how, comment |-> c]
  <2>1. Begins(u, w) /\ w \in TalkCall /\ w.op = how /\ w.comment = c
    BY <1>1, <1>5 DEF AskChange, TalkCall
  <2> HIDE DEF w
  <2> QED
    BY <2>1, BeginsOK
<1> QED
  BY <1>2, <1>3, <1>4, <1>5

(* addComment reads what it replies to                                       *)
LEMMA ReadParentOK ==
  ASSUME TalkInv, TalkAssumption, NEW u \in Writer, ReadParent(u)
  PROVE  TalkInv'
<1> DEFINE c == calls[u].parent
           w == [op |-> "writing", parent |-> c, round |-> topic.round]
<1>1. /\ calls[u].op = "comment" /\ UNCHANGED <<topic, takers, inGroup, shares, comments, lock>>
      /\ \/ calls' = [calls EXCEPT ![u] = Rest]
         \/ (c = Nil \/ (Live(c) /\ MayBeAnswered(c))) /\ calls' = [calls EXCEPT ![u] = w]
  BY DEF ReadParent, StepsTo
<1>2. /\ calls \in [Writer -> TalkCall] /\ lock \in Writer \cup {Nil} /\ topic.round \in Nat
      /\ comments \in Seq(Comment) /\ ThreadsAreSound
  BY DEF TalkInv, TalkTypeOK
<1>3. WriterIsSound(u) /\ SharerIsAlone(u)
  BY DEF TalkInv, WritersAreSound, SharersAreAlone
<1>4. WasOpen(topic.round) /\ c \in DOMAIN comments \cup {Nil} /\ lock # u
  BY <1>1, <1>3 DEF WriterIsSound, SharerIsAlone
<1>5. CASE calls' = [calls EXCEPT ![u] = Rest]
  <2>1. calls'[u] = Rest
    BY <1>2, <1>5
  <2>2. WriterIsSound(u)' /\ SharerIsAlone(u)'
    BY <1>1, <1>4, <2>1, RestIsCall DEF WriterIsSound, SharerIsAlone
  <2> QED
    BY <1>1, <1>2, <1>5, <2>2, RestIsCall, CallMoves
<1>6. CASE (c = Nil \/ (Live(c) /\ MayBeAnswered(c))) /\ calls' = [calls EXCEPT ![u] = w]
  <2>1. w \in TalkCall /\ w.op = "writing" /\ w.parent = c /\ w.round = topic.round
    <3>1. c \in Nat \cup {Nil}
      BY <1>2, <1>4
    <3> QED
      BY <1>2, <3>1 DEF TalkCall
  <2>2. calls'[u] = w
    BY <1>2, <1>6
  <2>3. ASSUME c # Nil PROVE comments[c].round <= topic.round /\ LevelOf(comments)[c] < MaxDepth
    <3>1. comments[c].round \in 0..topic.round
      BY <1>2, <1>4, <2>3 DEF ThreadsAreSound, WasOpen
    <3> QED
      BY <1>2, <1>6, <2>3, <3>1 DEF MayBeAnswered
  <2> HIDE DEF w
  <2>4. WriterIsSound(u)'
    <3>1. WasOpen(topic.round)'
      BY <1>1, <1>4 DEF WasOpen, CancelledUnsent
    <3>2. WasOpen(calls[u].round)'
      BY <1>1, <2>1, <2>2, <3>1 DEF WasOpen, CancelledUnsent
    <3> QED
      BY <1>1, <1>2, <1>4, <2>1, <2>2, <2>3, <3>1, <3>2 DEF WriterIsSound
  <2>5. SharerIsAlone(u)'
    BY <1>1, <1>4, <2>1, <2>2 DEF SharerIsAlone
  <2> QED
    BY <1>1, <1>2, <1>6, <2>1, <2>4, <2>5, CallMoves
<1> QED
  BY <1>1, <1>5, <1>6

(* share and unshare take the lock                                           *)
LEMMA LockRequestOK ==
  ASSUME TalkInv, TalkAssumption, NEW u \in Writer, LockRequest(u)
  PROVE  TalkInv'
<1> DEFINE k == calls[u]
           w == IF k.op = "share" THEN [op |-> "sharing", with |-> k.with, already |-> k.with \in Taken]
                ELSE [op |-> "unsharing", share |-> k.share, already |-> shares[k.share].deleted]
<1>1. /\ k.op \in {"share", "unshare"} /\ lock = Nil /\ lock' = u
      /\ calls' = [calls EXCEPT ![u] = w] /\ UNCHANGED <<topic, takers, inGroup, shares, comments>>
  BY DEF LockRequest, StepsTo, Taken
<1>2. /\ calls \in [Writer -> TalkCall] /\ shares \in Seq(Shared) /\ k \in TalkCall
      /\ SharerIsAlone(u)
  BY DEF TalkInv, TalkTypeOK, SharersAreAlone
<1>3. k.op = "unshare" => k.share \in DOMAIN shares /\ k.share \in Nat
  BY <1>2, CallsAre DEF SharerIsAlone
<1>4. w \in TalkCall /\ w.op \in {"sharing", "unsharing"}
  <2>1. CASE k.op = "share"
    <3>1. k.with \in Writer \cup Group
      BY <1>2, <2>1, CallsAre
    <3> DEFINE taken == k.with \in Taken
    <3>2. taken \in BOOLEAN
      OBVIOUS
    <3>3. w = [op |-> "sharing", with |-> k.with, already |-> taken]
      BY <2>1
    <3> HIDE DEF taken, w
    <3>4. w.op = "sharing" /\ w \in [op : {"sharing"}, with : Writer \cup Group, already : BOOLEAN]
      BY <3>1, <3>2, <3>3
    <3> QED
      BY <3>4 DEF TalkCall
  <2>2. CASE k.op = "unshare"
    <3>1. shares[k.share].deleted \in BOOLEAN
      <4>1. k.share \in DOMAIN shares
        BY <1>3, <2>2
      <4>2. shares[k.share] \in Shared
        BY <1>2, <4>1
      <4> QED
        BY <4>2 DEF Shared
    <3> DEFINE gone == shares[k.share].deleted
               place == k.share
    <3>2. w = [op |-> "unsharing", share |-> place, already |-> gone] /\ place \in Nat
      BY <1>3, <2>2
    <3> HIDE DEF gone, place, w
    <3>3. w.op = "unsharing" /\ w \in [op : {"unsharing"}, share : Nat, already : BOOLEAN]
      BY <3>1, <3>2 DEF gone
    <3> QED
      BY <3>3 DEF TalkCall
  <2> QED
    BY <1>1, <2>1, <2>2
<1>5. /\ w.op = "unsharing" => w.share \in DOMAIN shares
      /\ w.op = "sharing" => (w.already <=> w.with \in Taken)
  BY <1>1, <1>3
<1>6. calls'[u] = w
  BY <1>1, <1>2
<1> HIDE DEF w
<1>7. WriterIsSound(u)'
  BY <1>4, <1>6 DEF WriterIsSound
<1>8. SharerIsAlone(u)'
  BY <1>1, <1>4, <1>5, <1>6 DEF SharerIsAlone, Taken
<1>9. lock' \in Writer \cup {Nil} /\ \A v \in Writer \ {u} : lock' = v <=> lock = v
  BY <1>1 DEF TalkAssumption
<1> QED
  BY <1>1, <1>4, <1>7, <1>8, <1>9, CallMoves

(* A step of the one who holds the lock, which ends with it                  *)
LEMMA SharesMove ==
  ASSUME TalkInv, TalkAssumption, NEW u \in Writer, lock = u, calls' = [calls EXCEPT ![u] = Rest], lock' = Nil,
         UNCHANGED <<topic, takers, inGroup, comments>>,
         shares' \in Seq(Shared), DOMAIN shares \subseteq DOMAIN shares', SharesDiffer'
  PROVE  TalkInv'
<1>1. calls \in [Writer -> TalkCall] /\ topic.round \in Nat /\ comments \in Seq(Comment)
  BY DEF TalkInv, TalkTypeOK
<1>2. calls'[u] = Rest /\ \A v \in Writer \ {u} : calls'[v] = calls[v]
  BY <1>1
<1>0. CancelledUnsent => CancelledUnsent'
  BY DEF CancelledUnsent
<1>3. ThreadsAreSound' /\ Replies(comments')
  BY <1>0, <1>1, ThreadsGoOn
<1>4. \A v \in Writer : WriterIsSound(v)'
  BY <1>0, <1>1, <1>2, <1>3, WritersGoOn
<1>5. Nil \notin Writer
  BY DEF TalkAssumption
<1>6. \A v \in Writer : SharerIsAlone(v)'
  <2>1. \A v \in Writer : lock' # v
    BY <1>5
  <2>2. \A v \in Writer \ {u} : SharerIsAlone(v)'
    BY <1>2, <2>1, SharersGoOn
  <2>3. SharerIsAlone(u)'
    BY <1>2, <2>1, SharersGoOn
  <2> QED
    BY <2>2, <2>3
<1>7. TalkTypeOK'
  BY <1>1, RestIsCall DEF TalkInv, TalkTypeOK
<1>8. RoundsBegin'
  BY DEF TalkInv, RoundsBegin
<1>9. WritersAreSound' /\ SharersAreAlone'
  BY <1>4, <1>6 DEF WritersAreSound, SharersAreAlone
<1> QED
  BY <1>3, <1>7, <1>8, <1>9 DEF TalkInv

LEMMA ShareOK ==
  ASSUME TalkInv, TalkAssumption, NEW u \in Writer, Share(u)
  PROVE  TalkInv'
<1> DEFINE k == calls[u]
           new == [principal |-> k.with, deleted |-> FALSE]
<1>1. /\ k.op = "sharing" /\ lock' = Nil /\ calls' = [calls EXCEPT ![u] = Rest]
      /\ shares' = IF k.already THEN shares ELSE Append(shares, new)
      /\ UNCHANGED <<topic, takers, inGroup, comments>>
  BY DEF Share, StepsTo
<1>2. k \in TalkCall /\ shares \in Seq(Shared) /\ SharesDiffer /\ SharerIsAlone(u)
  BY DEF TalkInv, TalkTypeOK, SharersAreAlone
<1>3. lock = u /\ (k.already <=> k.with \in Taken) /\ k.with \in Writer \cup Group
  BY <1>1, <1>2, CallsAre DEF SharerIsAlone
<1>4. CASE k.already
  <2>1. shares' = shares
    BY <1>1, <1>4
  <2>2. SharesDiffer'
    BY <1>2, <2>1 DEF SharesDiffer
  <2> QED
    BY <1>1, <1>2, <1>3, <2>1, <2>2, SharesMove
<1>5. CASE ~k.already
  <2> DEFINE n == Len(shares) + 1
  <2>1. new \in Shared /\ new.principal = k.with
    BY <1>3 DEF Shared
  <2> HIDE DEF new
  <2>2. /\ shares' \in Seq(Shared) /\ DOMAIN shares = 1..Len(shares) /\ DOMAIN shares' = 1..n /\ Len(shares) \in Nat
        /\ shares'[n] = new /\ \A i \in 1..Len(shares) : shares'[i] = shares[i]
    BY <1>1, <1>2, <1>5, <2>1
  <2>3. \A i \in DOMAIN shares : shares[i].principal = k.with => shares[i].deleted
    BY <1>3, <1>5 DEF Taken
  <2>4. SharesDiffer'
    <3> SUFFICES ASSUME NEW i \in DOMAIN shares', NEW j \in DOMAIN shares', i # j, shares'[i].principal = shares'[j].principal
                 PROVE  shares'[i].deleted \/ shares'[j].deleted
      BY DEF SharesDiffer
    <3>1. (i = n \/ i \in DOMAIN shares) /\ (j = n \/ j \in DOMAIN shares)
      BY <2>2
    <3>2. CASE i \in DOMAIN shares /\ j \in DOMAIN shares
      BY <1>2, <2>2, <3>2 DEF SharesDiffer
    <3>3. CASE i = n /\ j \in DOMAIN shares
      BY <2>1, <2>2, <2>3, <3>3
    <3>4. CASE j = n /\ i \in DOMAIN shares
      BY <2>1, <2>2, <2>3, <3>4
    <3> QED
      BY <3>1, <3>2, <3>3, <3>4
  <2>5. DOMAIN shares \subseteq DOMAIN shares'
    BY <2>2
  <2> QED
    BY <1>1, <1>3, <2>2, <2>4, <2>5, SharesMove
<1> QED
  BY <1>4, <1>5

LEMMA UnshareOK ==
  ASSUME TalkInv, TalkAssumption, NEW u \in Writer, Unshare(u)
  PROVE  TalkInv'
<1> DEFINE k == calls[u]
<1>1. /\ k.op = "unsharing" /\ lock' = Nil /\ calls' = [calls EXCEPT ![u] = Rest]
      /\ shares' = IF k.already THEN shares ELSE [shares EXCEPT ![k.share].deleted = TRUE]
      /\ UNCHANGED <<topic, takers, inGroup, comments>>
  BY DEF Unshare, StepsTo
<1>2. shares \in Seq(Shared) /\ SharesDiffer /\ SharerIsAlone(u)
  BY DEF TalkInv, TalkTypeOK, SharersAreAlone
<1>3. lock = u /\ k.share \in DOMAIN shares
  BY <1>1, <1>2 DEF SharerIsAlone
<1>4. /\ shares' \in Seq(Shared) /\ DOMAIN shares' = DOMAIN shares
      /\ \A i \in DOMAIN shares : shares'[i].principal = shares[i].principal /\ (shares[i].deleted => shares'[i].deleted)
  <2>1. CASE k.already
    BY <1>1, <1>2, <2>1
  <2>2. CASE ~k.already
    <3> DEFINE t == [shares[k.share] EXCEPT !.deleted = TRUE]
    <3>1. shares' = [shares EXCEPT ![k.share] = t]
      BY <1>1, <2>2
    <3>2. shares[k.share] \in Shared
      BY <1>2, <1>3
    <3>3. t \in Shared /\ t.principal = shares[k.share].principal /\ t.deleted = TRUE
      BY <3>2 DEF Shared
    <3> HIDE DEF t
    <3>4. shares' \in Seq(Shared) /\ DOMAIN shares' = DOMAIN shares
      BY <1>2, <1>3, <3>1, <3>3
    <3>5. \A i \in DOMAIN shares : shares'[i] = IF i = k.share THEN t ELSE shares[i]
      BY <1>2, <1>3, <3>1
    <3> QED
      BY <3>3, <3>4, <3>5
  <2> QED
    BY <2>1, <2>2
<1>5. SharesDiffer'
  BY <1>2, <1>4 DEF SharesDiffer
<1> QED
  BY <1>1, <1>3, <1>4, <1>5, SharesMove

(* A step that leaves the shares and their lock alone                        *)
LEMMA CommentsMove ==
  ASSUME TalkInv, UNCHANGED <<inGroup, shares, lock>>, TalkTypeOK', RoundsBegin', ThreadsAreSound',
         Replies(comments'), Len(comments) <= Len(comments'),
         topic.round <= topic'.round, CancelledUnsent => CancelledUnsent',
         \A c \in DOMAIN comments : comments'[c].parent = comments[c].parent /\ comments'[c].round = comments[c].round,
         \A v \in Writer : calls'[v] = calls[v] \/ (calls'[v] = Rest /\ lock # v)
  PROVE  TalkInv'
<1>1. topic.round \in Nat /\ topic'.round \in Nat /\ comments' \in Seq(Comment)
  BY DEF TalkInv, TalkTypeOK
<1>2. \A v \in Writer : WriterIsSound(v)'
  <2> TAKE v \in Writer
  <2>1. calls'[v] = calls[v] \/ calls'[v] = Rest
    OBVIOUS
  <2> QED
    BY <1>1, <2>1, WritersGoOn
<1>3. \A v \in Writer : SharerIsAlone(v)'
  <2> TAKE v \in Writer
  <2>1. \/ calls'[v] = calls[v] /\ (lock' = v <=> lock = v) /\ shares' = shares
        \/ calls'[v] = Rest /\ lock' # v
    OBVIOUS
  <2> QED
    BY <2>1, SharersGoOn
<1>4. SharesDiffer'
  BY DEF TalkInv, SharesDiffer
<1> QED
  BY <1>2, <1>3, <1>4 DEF TalkInv, WritersAreSound, SharersAreAlone

(* addComment stores the reply                                               *)
LEMMA AddCommentOK ==
  ASSUME TalkInv, TalkAssumption, NEW u \in Writer, AddComment(u)
  PROVE  TalkInv'
<1> DEFINE k == calls[u]
           new == [author |-> u, parent |-> k.parent, round |-> k.round, deleted |-> FALSE, edited |-> FALSE]
           n == Len(comments) + 1
           level == LevelOf(comments')
<1>1. /\ k.op = "writing" /\ calls' = [calls EXCEPT ![u] = Rest] /\ comments' = Append(comments, new)
      /\ UNCHANGED <<topic, takers, inGroup, shares, lock>>
  BY DEF AddComment, StepsTo
<1>2. /\ TalkTypeOK /\ k \in TalkCall /\ calls \in [Writer -> TalkCall] /\ comments \in Seq(Comment) /\ topic.round \in Nat
      /\ WriterIsSound(u) /\ SharerIsAlone(u) /\ Replies(comments) /\ ThreadsAreSound
  BY DEF TalkInv, TalkTypeOK, WritersAreSound, SharersAreAlone, ThreadsAreSound
<1>3. /\ k.parent \in DOMAIN comments \cup {Nil} /\ WasOpen(k.round)
      /\ k.parent # Nil => comments[k.parent].round <= k.round /\ LevelOf(comments)[k.parent] < MaxDepth
  BY <1>1, <1>2 DEF WriterIsSound
<1>4. new \in Comment /\ new.parent = k.parent /\ new.round = k.round
  <2>1. k.parent \in Nat \cup {Nil} /\ k.round \in Nat
    BY <1>1, <1>2, CallsAre
  <2> QED
    BY <2>1 DEF Comment
<1> HIDE DEF new
<1>5. /\ comments' \in Seq(Comment) /\ Len(comments) \in Nat /\ DOMAIN comments = 1..Len(comments) /\ Len(comments') = n
      /\ DOMAIN comments' = 1..n /\ comments'[n] = new /\ \A c \in 1..Len(comments) : comments'[c] = comments[c]
  BY <1>1, <1>2, <1>4
<1>6. /\ DOMAIN comments' = DOMAIN comments \cup {n} /\ n \notin DOMAIN comments /\ Len(comments) <= Len(comments')
      /\ \A c \in DOMAIN comments : comments'[c] = comments[c]
  BY <1>5
<1>7. Replies(comments')
  <2>1. \A c \in DOMAIN comments : comments'[c].parent # Nil => comments'[c].parent \in 1..(c - 1)
    BY <1>2, <1>6 DEF Replies
  <2>2. comments'[n].parent # Nil => comments'[n].parent \in 1..(n - 1)
    BY <1>3, <1>4, <1>5
  <2> QED
    BY <1>6, <2>1, <2>2 DEF Replies
<1>8. \A c \in DOMAIN comments : level[c] = LevelOf(comments)[c]
  BY <1>2, <1>5, <1>6, <1>7, LevelsStay
<1>9. level[n] <= MaxDepth
  <2>1. level[n] = IF comments'[n].parent = Nil THEN 1 ELSE level[comments'[n].parent] + 1
    BY <1>5, <1>6, <1>7, LevelsExist
  <2>2. CASE k.parent = Nil
    <3>1. level[n] = 1
      BY <1>4, <1>5, <2>1, <2>2
    <3> QED
      BY <3>1 DEF TalkAssumption
  <2>3. CASE k.parent # Nil
    <3>1. k.parent \in DOMAIN comments
      BY <1>3, <2>3
    <3>2. level[n] = LevelOf(comments)[k.parent] + 1
      BY <1>4, <1>5, <1>8, <2>1, <2>3, <3>1
    <3>3. LevelOf(comments)[k.parent] \in Nat
      BY <1>2, <3>1, LevelsExist
    <3> QED
      BY <1>3, <2>3, <3>2, <3>3 DEF TalkAssumption
  <2> QED
    BY <2>2, <2>3
<1>10. ASSUME NEW c \in DOMAIN comments'
       PROVE  /\ WasOpen(comments[c].round)'
              /\ comments'[c].parent # Nil => comments'[comments'[c].parent].round <= comments'[c].round
              /\ level[c] <= MaxDepth
  <2> HIDE DEF level
  <2>0. WasOpen(comments'[c].round) => WasOpen(comments[c].round)'
    BY <1>1 DEF WasOpen, CancelledUnsent
  <2>1. CASE c = n
    BY <1>1, <1>3, <1>4, <1>5, <1>6, <1>9, <2>0, <2>1
  <2>2. CASE c \in DOMAIN comments
    <3>1. WasOpen(comments[c].round) /\ level[c] <= MaxDepth
      BY <1>2, <1>8, <2>2 DEF ThreadsAreSound
    <3>2. comments[c].parent # Nil =>
            comments[c].parent \in DOMAIN comments /\ comments[comments[c].parent].round <= comments[c].round
      BY <1>2, <1>5, <2>2 DEF ThreadsAreSound, Replies
    <3> QED
      BY <1>1, <1>6, <2>0, <2>2, <3>1, <3>2
  <2> QED
    BY <1>6, <2>1, <2>2
<1>11. ThreadsAreSound'
  BY <1>7, <1>10 DEF ThreadsAreSound
<1>12. TalkTypeOK' /\ RoundsBegin'
  BY <1>1, <1>2, <1>5, RestIsCall DEF TalkTypeOK, TalkInv, RoundsBegin
<1>13. \A v \in Writer : calls'[v] = calls[v] \/ (calls'[v] = Rest /\ lock # v)
  BY <1>1, <1>2 DEF SharerIsAlone
<1>14. CancelledUnsent => CancelledUnsent'
  BY <1>1 DEF CancelledUnsent
<1> QED
  BY <1>1, <1>2, <1>6, <1>7, <1>11, <1>12, <1>13, <1>14, CommentsMove

(* update and removeComment mark a row                                       *)
LEMMA ChangeCommentOK ==
  ASSUME TalkInv, TalkAssumption, NEW u \in Writer, ChangeComment(u)
  PROVE  TalkInv'
<1> DEFINE k == calls[u]
<1>1. /\ k.op \in {"edit", "remove"} /\ calls' = [calls EXCEPT ![u] = Rest]
      /\ comments' = IF k.op = "edit" THEN [comments EXCEPT ![k.comment].edited = TRUE]
                     ELSE [comments EXCEPT ![k.comment].deleted = TRUE]
      /\ UNCHANGED <<topic, takers, inGroup, shares, lock>>
  BY DEF ChangeComment, StepsTo
<1>2. /\ TalkTypeOK /\ calls \in [Writer -> TalkCall] /\ comments \in Seq(Comment) /\ topic.round \in Nat
      /\ WriterIsSound(u) /\ SharerIsAlone(u)
  BY DEF TalkInv, TalkTypeOK, WritersAreSound, SharersAreAlone
<1>3. k.comment \in DOMAIN comments /\ lock # u
  BY <1>1, <1>2 DEF WriterIsSound, SharerIsAlone
<1>4. \E t \in Comment : /\ t.parent = comments[k.comment].parent /\ t.round = comments[k.comment].round
                         /\ comments' = [comments EXCEPT ![k.comment] = t]
  <2> DEFINE stored == comments[k.comment]
             edited == [stored EXCEPT !.edited = TRUE]
             removed == [stored EXCEPT !.deleted = TRUE]
  <2>1. stored \in Comment
    BY <1>2, <1>3
  <2>2. edited \in Comment /\ edited.parent = stored.parent /\ edited.round = stored.round
    BY <2>1 DEF Comment
  <2>3. removed \in Comment /\ removed.parent = stored.parent /\ removed.round = stored.round
    BY <2>1 DEF Comment
  <2>4. comments' = [comments EXCEPT ![k.comment] = edited] \/ comments' = [comments EXCEPT ![k.comment] = removed]
    BY <1>1
  <2> HIDE DEF stored, edited, removed
  <2>5. stored = comments[k.comment]
    BY DEF stored
  <2> QED
    BY <2>2, <2>3, <2>4, <2>5
<1>5. PICK t \in Comment : /\ t.parent = comments[k.comment].parent /\ t.round = comments[k.comment].round
                          /\ comments' = [comments EXCEPT ![k.comment] = t]
  BY <1>4
<1>6. comments' \in Seq(Comment) /\ Len(comments') = Len(comments) /\ Len(comments) \in Nat
  BY <1>2, <1>3, <1>5
<1>7. \A c \in DOMAIN comments : comments'[c].parent = comments[c].parent /\ comments'[c].round = comments[c].round
  BY <1>2, <1>3, <1>5
<1>0. CancelledUnsent => CancelledUnsent'
  BY <1>1 DEF CancelledUnsent
<1>8. ThreadsAreSound' /\ Replies(comments')
  BY <1>0, <1>1, <1>2, <1>6, <1>7, ThreadsGoOn
<1>9. TalkTypeOK' /\ RoundsBegin'
  BY <1>1, <1>2, <1>6, RestIsCall DEF TalkTypeOK, TalkInv, RoundsBegin
<1>10. \A v \in Writer : calls'[v] = calls[v] \/ (calls'[v] = Rest /\ lock # v)
  BY <1>1, <1>2, <1>3
<1> QED
  BY <1>0, <1>1, <1>2, <1>6, <1>7, <1>8, <1>9, <1>10, CommentsMove

(* submit, act and cancel                                                    *)
LEMMA BecomesOK ==
  ASSUME TalkInv, TalkAssumption,
         \/ \E u \in Writer : Submit(u)
         \/ \E status \in {"returned", "rejected", "approved"} : Decide(status)
         \/ Cancel
  PROVE  TalkInv'
<1> DEFINE GoesOn ==
      /\ UNCHANGED <<inGroup, shares, comments, lock, calls>> /\ TalkTypeOK' /\ RoundsBegin'
      /\ topic'.round \in Nat /\ topic.round <= topic'.round /\ (CancelledUnsent => CancelledUnsent')
<1>1. /\ TalkTypeOK /\ RoundsBegin /\ topic.round \in Nat /\ comments \in Seq(Comment) /\ MaxRound \in Nat
  BY DEF TalkInv, TalkTypeOK, TalkAssumption
<1>2. /\ UNCHANGED <<inGroup, shares, comments, lock, calls>> /\ TalkTypeOK' /\ RoundsBegin'
      /\ topic'.round \in Nat /\ topic.round <= topic'.round /\ (CancelledUnsent => CancelledUnsent')
  <2>1. ASSUME NEW u \in Writer, Submit(u) PROVE GoesOn
    <3>1. /\ topic' = [status |-> "pending", round |-> topic.round + 1] /\ topic.round < MaxRound
          /\ topic.status \in {"draft", "returned"}
          /\ takers' = takers \cup {<<topic.round + 1, u>>} /\ UNCHANGED <<inGroup, shares, comments, lock, calls>>
      BY <2>1 DEF Submit, Becomes
    <3>2. topic.round + 1 \in 0..MaxRound /\ topic.round + 1 \in 1..MaxRound /\ topic.round + 1 # 0
      BY <1>1, <3>1
    <3> QED
      BY <1>1, <3>1, <3>2 DEF TalkTypeOK, RoundsBegin, CancelledUnsent
  <2>2. ASSUME NEW status \in {"returned", "rejected", "approved"}, Decide(status) PROVE GoesOn
    <3>1. /\ topic.status = "pending" /\ topic' = [status |-> status, round |-> topic.round]
          /\ UNCHANGED <<takers, inGroup, shares, comments, lock, calls>>
      BY <2>2 DEF Decide, Becomes
    <3> QED
      BY <1>1, <3>1 DEF TalkTypeOK, RoundsBegin, CancelledUnsent
  <2>3. ASSUME Cancel PROVE GoesOn
    <3>1. /\ topic.status \in {"draft", "returned", "pending"} /\ topic' = [status |-> "cancelled", round |-> topic.round]
          /\ UNCHANGED <<takers, inGroup, shares, comments, lock, calls>>
      BY <2>3 DEF Cancel, Becomes
    <3> QED
      BY <1>1, <3>1 DEF TalkTypeOK, RoundsBegin, CancelledUnsent
  <2> QED
    BY <2>1, <2>2, <2>3
<1>3. ThreadsAreSound' /\ Replies(comments')
  BY <1>1, <1>2, ThreadsGoOn
<1>4. Len(comments) <= Len(comments')
  BY <1>1, <1>2
<1> QED
  BY <1>2, <1>3, <1>4, CommentsMove

(* The invariant says nothing of who is in a group                           *)
LEMMA SameTalk ==
  ASSUME TalkInv, UNCHANGED <<topic, shares, comments, lock, calls>>
  PROVE  RoundsBegin' /\ ThreadsAreSound' /\ WritersAreSound' /\ SharersAreAlone' /\ SharesDiffer'
<1>1. RoundsBegin' /\ SharesDiffer' /\ SharersAreAlone'
  BY DEF TalkInv, RoundsBegin, SharesDiffer, SharersAreAlone, SharerIsAlone, Taken
<1>2. ThreadsAreSound' /\ WritersAreSound'
  BY DEF TalkInv, ThreadsAreSound, WritersAreSound, WriterIsSound, Replies, WasOpen, CancelledUnsent
<1> QED
  BY <1>1, <1>2

LEMMA ChangeGroupOK ==
  ASSUME TalkInv, TalkAssumption, NEW g \in Group, NEW u \in Writer, ChangeGroup(g, u)
  PROVE  TalkInv'
<1>1. /\ inGroup' = [inGroup EXCEPT ![g] = IF u \in @ THEN @ \ {u} ELSE @ \cup {u}]
      /\ UNCHANGED <<topic, takers, shares, comments, lock, calls>>
  BY DEF ChangeGroup
<1>2. TalkTypeOK'
  BY <1>1 DEF TalkInv, TalkTypeOK
<1> QED
  BY <1>1, <1>2, SameTalk DEF TalkInv

LEMMA TalkNextOK ==
  ASSUME TalkInv, TalkAssumption, [TalkNext]_talkVars
  PROVE  TalkInv'
<1>1. ASSUME NEW u \in Writer,
             \/ \E p \in Writer \cup Group : Len(shares) < MaxShares /\ AskShare(u, p)
             \/ \E i \in DOMAIN shares : AskUnshare(u, i)
             \/ \E parent \in DOMAIN comments \cup {Nil}, mentions \in {{}, Writer \ {u}} : AskComment(u, parent, mentions)
             \/ \E c \in DOMAIN comments, how \in {"edit", "remove"} : AskChange(u, c, how)
      PROVE  TalkInv'
  BY <1>1, TalkAsksOK
<1>2. ASSUME NEW u \in Writer, LockRequest(u) \/ Share(u) \/ Unshare(u) PROVE TalkInv'
  BY <1>2, LockRequestOK, ShareOK, UnshareOK
<1>3. ASSUME NEW u \in Writer, ReadParent(u) \/ AddComment(u) \/ ChangeComment(u) PROVE TalkInv'
  BY <1>3, ReadParentOK, AddCommentOK, ChangeCommentOK
<1>4. ASSUME \/ \E u \in Writer : Submit(u)
             \/ \E status \in {"returned", "rejected", "approved"} : Decide(status)
             \/ Cancel
      PROVE  TalkInv'
  BY <1>4, BecomesOK
<1>5. ASSUME NEW u \in Writer, NEW g \in Group, ChangeGroup(g, u) PROVE TalkInv'
  BY <1>5, ChangeGroupOK
<1>6. CASE UNCHANGED talkVars
  <2>1. UNCHANGED <<topic, takers, inGroup, shares, comments, lock, calls>>
    BY <1>6 DEF talkVars
  <2>2. TalkTypeOK'
    BY <2>1 DEF TalkInv, TalkTypeOK
  <2> QED
    BY <2>1, <2>2, SameTalk DEF TalkInv
<1> QED
  BY <1>1, <1>2, <1>3, <1>4, <1>5, <1>6 DEF TalkNext

(* For any people and groups, any depth and any number of comments, shares    *)
(* and rounds: however replies, edits and deletions overlap, a comment that   *)
(* is not deleted has a place on the page and so has all it replies to, no    *)
(* reply is of an earlier round than what it replies to and none of a later   *)
(* one than the request has reached, of no round only on a draft that was      *)
(* cancelled, and of the shares with one person or group one stands.          *)
THEOREM TalkIsAlwaysKept == TalkSpec => []TalkIsKept
<1>1. TalkInit => TalkInv
  BY TalkInitOK, TalkAssumption
<1>2. TalkInv /\ [TalkNext]_talkVars => TalkInv'
  BY TalkNextOK, TalkAssumption
<1>3. TalkInv => TalkIsKept
  BY PageOK, TalkAssumption
<1> QED
  BY <1>1, <1>2, <1>3, PTL DEF TalkSpec

-----------------------------------------------------------------------------
(* Finding approvers                                                         *)

Walks ==
  [question : Question, at : Dept \cup {Missing}, row : DeptRows \cup {Missing}, depth : 0..MaxLevels,
   visited : SUBSET Dept, todo : Seq(Colleague \cup {Missing}), found : SUBSET Colleague,
   phase : {"asked", "enter", "test", "done"}]

(* What has been read, was so at some time since the question                *)
CacheTypes ==
  /\ DOMAIN cache.dept \subseteq Dept /\ \A d \in DOMAIN cache.dept : cache.dept[d] \in DeptRows
  /\ DOMAIN cache.user \subseteq Colleague /\ \A u \in DOMAIN cache.user : cache.user[u] \in BOOLEAN
  /\ cache = [dept |-> [d \in DOMAIN cache.dept |-> cache.dept[d]], user |-> [u \in DOMAIN cache.user |-> cache.user[u]]]
CacheIsHeard ==
  /\ \A d \in DOMAIN cache.dept : cache.dept[d].head \in past.led /\ cache.dept[d].deputy \in past.led
  /\ \A u \in DOMAIN cache.user : cache.user[u] => u \in past.active
Heard ==
  /\ dir.active \subseteq past.active
  /\ \A d \in Dept : dir.head[d] \in past.led /\ dir.deputy[d] \in past.led
  /\ CacheIsHeard
  /\ \A i \in DOMAIN walk.todo : walk.todo[i] \in past.led
  /\ walk.found \subseteq past.active \cap past.led /\ walk.found \cap Asked.except = {}

Placed ==
  /\ walk.phase \in {"asked", "enter"} => walk.found = {}
  /\ walk.phase = "asked" => walk.depth = 0 /\ walk.visited = {} /\ walk.row = Missing
  /\ walk.phase = "enter" => Asked.kind # "deputyAbove"
  /\ walk.phase = "test" => walk.depth < MaxLevels
  /\ walk.phase = "test" /\ Asked.kind = "deputyAbove" => walk.row = Missing
  /\ walk.phase = "test" /\ Asked.kind # "deputyAbove" => walk.row # Missing /\ walk.at \in Dept

(* Of a directory at rest, it is still so                                    *)
Remembered ==
  /\ \A d \in DOMAIN cache.dept : cache.dept[d] = DeptRow(d)
  /\ \A u \in DOMAIN cache.user : cache.user[u] <=> u \in dir.active

(* The departments passed, which had nobody who may be asked                 *)
Passed(n) ==
  \A m \in 0..(n - 1) :
    /\ Higher(m) # Missing /\ Higher(m) \notin dir.gone
    /\ \A u \in Colleague : ~Fit(u, Higher(m), m = 0)
    /\ ChecksVisited => \A k \in 0..(m - 1) : Higher(k) # Higher(m)

OnItsWay ==
  /\ Passed(walk.depth) /\ walk.at = Higher(walk.depth)
  /\ ~Climbs => walk.depth = 0

Entering == walk.phase = "enter" => OnItsWay /\ walk.visited = { Higher(m) : m \in 0..(walk.depth - 1) }

Inside ==
  walk.phase = "test" /\ Asked.kind # "deputyAbove" =>
    /\ OnItsWay /\ walk.visited = { Higher(m) : m \in 0..walk.depth }
    /\ walk.at \notin dir.gone /\ walk.row = DeptRow(walk.at)
    /\ ChecksVisited => \A k \in 0..(walk.depth - 1) : Higher(k) # walk.at

(* Who is still to be tried: all who may be asked, the first choice first     *)
Over == { d \in Dept \ dir.gone : dir.deputy[d] = Asked.who }
Suitable ==
  IF Asked.kind = "deputyAbove" THEN { u \in HeadsOver : MayBeAsked(u) }
  ELSE { u \in Colleague : Fit(u, walk.at, walk.depth = 0) }
Preferred(u) ==
  IF Asked.kind = "deputyAbove" THEN dir.home[Asked.who] \in Over /\ u = dir.head[dir.home[Asked.who]]
  ELSE ~TakesAll /\ u = dir.deputy[walk.at]
Trying ==
  walk.phase = "test" =>
    /\ \A i \in DOMAIN walk.todo : ~Skip(walk.todo[i]) /\ walk.todo[i] \in dir.active => walk.todo[i] \in Suitable
    /\ \A u \in Suitable : u \in walk.found \/ \E i \in DOMAIN walk.todo : walk.todo[i] = u
    /\ \A u \in Suitable : Preferred(u) => walk.todo # <<>> /\ walk.todo[1] = u
    /\ walk.found \subseteq Suitable /\ (~TakesAll => walk.found = {})

AtRestInv == changes = 0 => Remembered /\ Entering /\ Inside /\ Trying

ApproversInv ==
  /\ ApproversTypeOK
  /\ Heard
  /\ Placed
  /\ AtRestInv
  /\ TheRightOnesAreAsked

(* What the types say, field by field                                        *)
LEMMA SearchTypes ==
  ASSUME ApproversAssumption, ApproversTypeOK
  PROVE  /\ dir.head \in [Dept -> Colleague \cup {Missing}] /\ dir.deputy \in [Dept -> Colleague \cup {Missing}]
         /\ dir.parent \in [Dept -> Dept \cup {Missing}] /\ dir.home \in [Colleague -> Dept \cup {Missing}]
         /\ dir.gone \subseteq Dept /\ dir.active \subseteq Colleague
         /\ Asked.kind \in Kind /\ Asked.dept \in Dept \cup {Missing} /\ Asked.except \subseteq Colleague /\ Asked.climb \in BOOLEAN
         /\ Asked.kind \in {"above", "deputyAbove"} => Asked.who \in Colleague
         /\ Asked \in Question
<1>1. dir \in Charts /\ Asked \in Questions /\ Asked \in Question
  BY DEF ApproversAssumption, ApproversTypeOK, Asked
<1>2. Asked.kind \in {"above", "deputyAbove"} => Asked.who \in Colleague
  BY <1>1 DEF ApproversAssumption
<1> QED
  BY <1>1, <1>2 DEF Charts, Questions

LEMMA WalkTypes ==
  ASSUME ApproversTypeOK
  PROVE  /\ walk.at \in Dept \cup {Missing} /\ walk.row \in DeptRows \cup {Missing} /\ walk.depth \in 0..MaxLevels
         /\ walk.visited \subseteq Dept /\ walk.todo \in Seq(Colleague \cup {Missing}) /\ walk.found \subseteq Colleague
         /\ walk.phase \in {"asked", "enter", "test", "done"}
  BY DEF ApproversTypeOK

(* The chain of command goes from a department to the one above it            *)
LEMMA HigherIs ==
  ASSUME ApproversAssumption, ApproversTypeOK
  PROVE  /\ Higher(0) = From
         /\ \A n \in 0..MaxLevels : Higher(n) \in Dept \cup {Missing}
         /\ \A n \in 0..(MaxLevels - 1) : Higher(n + 1) = IF Higher(n) = Missing THEN Missing ELSE dir.parent[Higher(n)]
<1> DEFINE Some == Dept \cup {Missing}
           Next(d) == IF d = Missing THEN Missing ELSE dir.parent[d]
           Good(n) == \E f \in [0..n -> Some] : f[0] = From /\ \A k \in 1..n : f[k] = Next(f[k - 1])
           T == { n \in Nat : n <= MaxLevels => Good(n) }
<1>1. MaxLevels \in Nat /\ MaxLevels > 0
  BY DEF ApproversAssumption
<1>2. From \in Some /\ \A d \in Some : Next(d) \in Some
  BY SearchTypes DEF From
<1> HIDE DEF Some, Next
<1>3. Good(0)
  <2> DEFINE f == [k \in 0..0 |-> From]
  <2>1. f \in [0..0 -> Some] /\ f[0] = From /\ \A k \in 1..0 : FALSE
    BY <1>2
  <2> QED
    BY <2>1
<1>4. ASSUME NEW n \in Nat, Good(n) PROVE Good(n + 1)
  <2>1. PICK f \in [0..n -> Some] : f[0] = From /\ \A k \in 1..n : f[k] = Next(f[k - 1])
    BY <1>4
  <2> DEFINE g == [k \in 0..(n + 1) |-> IF k = n + 1 THEN Next(f[n]) ELSE f[k]]
  <2>2. g \in [0..(n + 1) -> Some] /\ g[n + 1] = Next(f[n]) /\ \A k \in 0..n : g[k] = f[k]
    BY <1>2, <2>1
  <2> HIDE DEF g
  <2>3. g[0] = From /\ g[n + 1] = Next(g[n])
    BY <2>1, <2>2
  <2>4. \A k \in 1..n : g[k] = Next(g[k - 1])
    BY <2>1, <2>2
  <2>5. \A k \in 1..(n + 1) : g[k] = Next(g[k - 1])
    <3> SUFFICES ASSUME NEW k \in 1..(n + 1) PROVE g[k] = Next(g[k - 1])
      OBVIOUS
    <3>1. CASE k = n + 1
      <4>1. k - 1 = n
        BY <3>1
      <4> QED
        BY <2>3, <3>1, <4>1
    <3>2. CASE k \in 1..n
      BY <2>4, <3>2
    <3> QED
      BY <3>1, <3>2
  <2> QED
    BY <2>2, <2>3, <2>5
<1>5. Good(MaxLevels)
  <2> HIDE DEF Good
  <2>1. 0 \in T /\ \A n \in Nat : n \in T => n + 1 \in T
    BY <1>1, <1>3, <1>4
  <2> HIDE DEF T
  <2>2. MaxLevels \in T
    BY <1>1, <2>1, FromZero
  <2> QED
    BY <1>1, <2>2 DEF T
<1>6. PICK f \in [0..MaxLevels -> Some] : f[0] = From /\ \A k \in 1..MaxLevels : f[k] = Next(f[k - 1])
  BY <1>5
<1> DEFINE P(h) == h = [k \in 0..MaxLevels |-> IF k = 0 THEN From ELSE IF h[k - 1] = Missing THEN Missing ELSE dir.parent[h[k - 1]]]
<1>7. P(f)
  BY <1>1, <1>6 DEF Next
<1> DEFINE up == Up(dir.parent, From)
<1>8. up = CHOOSE h : P(h)
  BY DEF Up
<1> HIDE DEF P, up
<1>9. P(up)
  BY <1>7, <1>8
<1>10. up[0] = From /\ \A k \in 1..MaxLevels : up[k] = Next(up[k - 1])
  BY <1>1, <1>9 DEF P, Next
<1> DEFINE U == { n \in Nat : n <= MaxLevels => up[n] \in Some }
<1>11. 0 \in U
  BY <1>2, <1>10
<1>12. ASSUME NEW n \in Nat, n \in U PROVE n + 1 \in U
  <2>1. n + 1 <= MaxLevels => up[n + 1] = Next(up[n + 1 - 1])
    BY <1>10
  <2>2. n + 1 - 1 = n
    OBVIOUS
  <2> QED
    BY <1>1, <1>2, <1>12, <2>1, <2>2
<1> HIDE DEF U
<1>13. \A n \in 0..MaxLevels : n \in U
  BY <1>1, <1>11, <1>12, FromZero
<1>14. \A n \in 0..MaxLevels : up[n] \in Some
  BY <1>13 DEF U
<1>15. \A n \in 0..(MaxLevels - 1) : up[n + 1] = Next(up[n])
  <2> SUFFICES ASSUME NEW n \in 0..(MaxLevels - 1) PROVE up[n + 1] = Next(up[n])
    OBVIOUS
  <2>1. n + 1 \in 1..MaxLevels /\ n + 1 - 1 = n
    BY <1>1
  <2> QED
    BY <1>10, <2>1
<1>16. \A n : Higher(n) = up[n]
  BY DEF Higher, up
<1> QED
  BY <1>1, <1>10, <1>14, <1>15, <1>16 DEF Some, Next

(* A chain that comes back to a department goes on as before                  *)
LEMMA ChainsRepeat ==
  ASSUME ApproversAssumption, ApproversTypeOK, NEW m \in Nat, NEW k \in Nat, m < k, Higher(m) = Higher(k)
  PROVE  \A j \in Nat : k + j <= MaxLevels => Higher(k + j) = Higher(m + j)
<1> DEFINE T == { j \in Nat : k + j <= MaxLevels => Higher(k + j) = Higher(m + j) }
<1>1. MaxLevels \in Nat
  BY DEF ApproversAssumption
<1>2. 0 \in T
  OBVIOUS
<1>3. ASSUME NEW j \in Nat, j \in T PROVE j + 1 \in T
  <2> SUFFICES ASSUME k + (j + 1) <= MaxLevels PROVE Higher(k + (j + 1)) = Higher(m + (j + 1))
    OBVIOUS
  <2>1. Higher(k + j) = Higher(m + j)
    BY <1>1, <1>3
  <2>2. k + j \in 0..(MaxLevels - 1) /\ m + j \in 0..(MaxLevels - 1) /\ k + (j + 1) = k + j + 1 /\ m + (j + 1) = m + j + 1
    BY <1>1
  <2> QED
    BY <2>1, <2>2, HigherIs
<1> HIDE DEF T
<1>4. \A j \in Nat : j \in T
  BY <1>2, <1>3, FromZero
<1> QED
  BY <1>4 DEF T

LEMMA FitIs ==
  ASSUME ApproversAssumption, ApproversTypeOK, NEW u, NEW d, NEW own \in BOOLEAN, Fit(u, d, own)
  PROVE  /\ u \in Colleague /\ u \in dir.active /\ ~Skip(u) /\ u \in {dir.head[d], dir.deputy[d]}
         /\ ~ChecksVisited => Fit(u, d, TRUE)
<1>1. u \in dir.active /\ u \notin Asked.except /\ dir.active \subseteq Colleague
  BY SearchTypes DEF Fit, MayBeAsked
<1>2. u # Missing
  BY <1>1 DEF ApproversAssumption
<1>3. u \in {dir.head[d], dir.deputy[d]}
  BY DEF Fit
<1>4. ~ChecksVisited => Fit(u, d, TRUE)
  BY DEF Fit, ChecksVisited
<1> QED
  BY <1>1, <1>2, <1>3, <1>4 DEF Skip

LEMMA WithIs ==
  ASSUME NEW n
  PROVE  With(n) \subseteq { u \in Colleague : Fit(u, Higher(n), n = 0) }
  BY DEF With, GoesFirst

(* Nobody is left to be asked where the way ends                             *)
LEMMA TheWayEnds ==
  ASSUME ApproversAssumption, ApproversTypeOK, NEW n \in 0..MaxLevels, Passed(n),
         \/ n = MaxLevels \/ Higher(n) = Missing \/ Higher(n) \in dir.gone
         \/ \E k \in 0..(n - 1) : Higher(k) = Higher(n)
         \/ ~Climbs /\ n = 1
  PROVE  \A k \in Levels : With(k) = {}
<1> SUFFICES ASSUME NEW k \in Levels PROVE With(k) = {}
  OBVIOUS
<1>1. MaxLevels \in Nat
  BY DEF ApproversAssumption
<1>2. k \in 0..(MaxLevels - 1) /\ OnTheWay(k) /\ (~Climbs => k = 0)
  BY <1>1 DEF Levels
<1>3. k < n
  <2> SUFFICES ASSUME n <= k PROVE FALSE
    BY <1>1, <1>2
  <2>1. n \in 0..k
    BY <1>1, <1>2
  <2>2. Higher(n) # Missing /\ Higher(n) \notin dir.gone /\ \A m \in 0..(n - 1) : Higher(m) # Higher(n)
    BY <1>2, <2>1 DEF OnTheWay
  <2> QED
    BY <1>1, <1>2, <2>1, <2>2
<1>4. \A u \in Colleague : ~Fit(u, Higher(k), k = 0)
  BY <1>1, <1>2, <1>3 DEF Passed
<1> QED
  BY <1>4, WithIs

(* Where somebody may be asked for the first time, the way has not yet       *)
(* repeated itself                                                           *)
LEMMA TheWayIsStraight ==
  ASSUME ApproversAssumption, ApproversTypeOK, NEW n \in 0..(MaxLevels - 1), Passed(n),
         Higher(n) # Missing, Higher(n) \notin dir.gone, ~Climbs => n = 0,
         ChecksVisited => \A k \in 0..(n - 1) : Higher(k) # Higher(n),
         NEW u, Fit(u, Higher(n), n = 0)
  PROVE  n \in Levels
<1>1. MaxLevels \in Nat
  BY DEF ApproversAssumption
<1>2. ASSUME NEW k \in 0..n PROVE Higher(k) # Missing /\ Higher(k) \notin dir.gone
  BY <1>1 DEF Passed
<1>3. ASSUME NEW k \in 0..n, NEW m \in 0..(k - 1), Higher(m) = Higher(k) PROVE FALSE
  <2>1. CASE ChecksVisited
    BY <1>1, <1>3, <2>1 DEF Passed
  <2>2. CASE ~ChecksVisited
    <3> DEFINE j == n - k
    <3>1. j \in Nat /\ m \in Nat /\ k \in Nat /\ m < k /\ k + j = n /\ k + j <= MaxLevels /\ m + j \in 0..(n - 1) /\ n # 0
      BY <1>1
    <3> HIDE DEF j
    <3>2. Higher(k + j) = Higher(m + j)
      BY <1>3, <3>1, ChainsRepeat
    <3>3. Higher(n) = Higher(m + j)
      BY <3>1, <3>2
    <3>4. u \in Colleague /\ Fit(u, Higher(n), TRUE) /\ Fit(u, Higher(n), FALSE)
      BY <2>2, <3>1, FitIs
    <3>5. Fit(u, Higher(m + j), m + j = 0)
      <4>1. (m + j = 0) \in BOOLEAN
        OBVIOUS
      <4>2. CASE m + j = 0
        BY <3>3, <3>4, <4>2
      <4>3. CASE m + j # 0
        BY <3>3, <3>4, <4>3
      <4> QED
        BY <4>2, <4>3
    <3> QED
      BY <3>1, <3>4, <3>5 DEF Passed
  <2> QED
    BY <2>1, <2>2
<1>4. OnTheWay(n)
  BY <1>2, <1>3 DEF OnTheWay
<1>5. From # Missing
  <2>1. Higher(0) # Missing
    BY <1>1, <1>2
  <2> QED
    BY <2>1, HigherIs
<1> QED
  BY <1>1, <1>4, <1>5 DEF Levels

(* As long as nobody changes the directory, the way and its leaders stay      *)
LEMMA SameChart ==
  ASSUME dir' = dir, walk'.question = walk.question
  PROVE  /\ Asked' = Asked /\ From' = From /\ (Climbs' <=> Climbs) /\ (TakesAll' <=> TakesAll) /\ (ChecksVisited' <=> ChecksVisited)
         /\ \A n : Higher(n)' = Higher(n)
         /\ \A d : DeptRow(d)' = DeptRow(d)
         /\ \A u : (Skip(u)' <=> Skip(u)) /\ (MayBeAsked(u)' <=> MayBeAsked(u))
         /\ \A u, d : \A own \in BOOLEAN : Fit(u, d, own)' <=> Fit(u, d, own)
         /\ Levels' = Levels /\ \A n : With(n)' = With(n)
         /\ \A n : Passed(n)' <=> Passed(n)
         /\ HeadsOver' = HeadsOver /\ Over' = Over
<1>1. /\ Asked' = Asked /\ From' = From /\ (Climbs' <=> Climbs) /\ (TakesAll' <=> TakesAll) /\ (ChecksVisited' <=> ChecksVisited)
  BY DEF Asked, From, Climbs, TakesAll, ChecksVisited
<1>2. \A n : Higher(n)' = Higher(n)
  BY <1>1 DEF Higher, Up
<1>3. \A d : DeptRow(d)' = DeptRow(d)
  BY DEF DeptRow
<1>4. \A u : (Skip(u)' <=> Skip(u)) /\ (MayBeAsked(u)' <=> MayBeAsked(u))
  BY <1>1 DEF Skip, MayBeAsked
<1>5. \A u, d : \A own \in BOOLEAN : Fit(u, d, own)' <=> Fit(u, d, own)
  BY <1>1, <1>4 DEF Fit
<1>6. Levels' = Levels
  BY <1>1, <1>2 DEF Levels, OnTheWay
<1>7. \A n : With(n)' = With(n)
  BY <1>1, <1>2, <1>5 DEF With, GoesFirst
<1>8. \A n : Passed(n)' <=> Passed(n)
  BY <1>1, <1>2, <1>5 DEF Passed
<1>9. HeadsOver' = HeadsOver /\ Over' = Over
  BY <1>1 DEF HeadsOver, Over
<1> QED
  BY <1>1, <1>2, <1>3, <1>4, <1>5, <1>6, <1>7, <1>8, <1>9

(* A step of the walk keeps the types                                        *)
LEMMA WalkKeepsTypes ==
  ASSUME ApproversTypeOK, UNCHANGED <<dir, past, changes>>,
         NEW w, walk' = w,
         w \in Walks,
         CacheTypes'
  PROVE  ApproversTypeOK'
  BY DEF ApproversTypeOK, Walks, CacheTypes

LEMMA CacheKept ==
  ASSUME ApproversTypeOK, UNCHANGED cache
  PROVE  CacheTypes'
  BY DEF ApproversTypeOK, CacheTypes

LEMMA DeptCached ==
  ASSUME ApproversTypeOK, NEW d \in Dept, NEW r \in DeptRows,
         cache' = [cache EXCEPT !.dept = [e \in DOMAIN @ \cup {d} |-> IF e = d THEN r ELSE @[e]]]
  PROVE  /\ cache'.user = cache.user /\ DOMAIN cache'.dept = DOMAIN cache.dept \cup {d} /\ cache'.dept[d] = r
         /\ \A e \in DOMAIN cache.dept \ {d} : cache'.dept[e] = cache.dept[e]
         /\ CacheTypes'
<1> DEFINE depts == [e \in DOMAIN cache.dept \cup {d} |-> IF e = d THEN r ELSE cache.dept[e]]
<1>1. /\ DOMAIN cache.dept \subseteq Dept /\ \A e \in DOMAIN cache.dept : cache.dept[e] \in DeptRows
      /\ DOMAIN cache.user \subseteq Colleague /\ \A u \in DOMAIN cache.user : cache.user[u] \in BOOLEAN
      /\ cache = [dept |-> [e \in DOMAIN cache.dept |-> cache.dept[e]], user |-> [u \in DOMAIN cache.user |-> cache.user[u]]]
  BY DEF ApproversTypeOK
<1>2. /\ DOMAIN depts = DOMAIN cache.dept \cup {d} /\ depts[d] = r /\ \A e \in DOMAIN cache.dept \ {d} : depts[e] = cache.dept[e]
      /\ \A e \in DOMAIN depts : depts[e] \in DeptRows
      /\ depts = [e \in DOMAIN depts |-> depts[e]]
  BY <1>1
<1> HIDE DEF depts
<1>3. cache' = [cache EXCEPT !.dept = depts]
  BY DEF depts
<1>4. DOMAIN cache = {"dept", "user"} /\ cache.user = [u \in DOMAIN cache.user |-> cache.user[u]]
  BY <1>1
<1>5. cache'.dept = depts /\ cache'.user = cache.user /\ DOMAIN cache' = {"dept", "user"}
  BY <1>3, <1>4
<1>6. cache' = [dept |-> depts, user |-> cache.user]
  BY <1>1, <1>3
<1> QED
  BY <1>1, <1>2, <1>4, <1>5, <1>6 DEF CacheTypes

LEMMA UserCached ==
  ASSUME ApproversTypeOK, NEW u \in Colleague, NEW b \in BOOLEAN,
         cache' = [cache EXCEPT !.user = [v \in DOMAIN @ \cup {u} |-> IF v = u THEN b ELSE @[v]]]
  PROVE  /\ cache'.dept = cache.dept /\ DOMAIN cache'.user = DOMAIN cache.user \cup {u} /\ cache'.user[u] = b
         /\ \A v \in DOMAIN cache.user \ {u} : cache'.user[v] = cache.user[v]
         /\ CacheTypes'
<1> DEFINE users == [v \in DOMAIN cache.user \cup {u} |-> IF v = u THEN b ELSE cache.user[v]]
<1>1. /\ DOMAIN cache.dept \subseteq Dept /\ \A e \in DOMAIN cache.dept : cache.dept[e] \in DeptRows
      /\ DOMAIN cache.user \subseteq Colleague /\ \A v \in DOMAIN cache.user : cache.user[v] \in BOOLEAN
      /\ cache = [dept |-> [e \in DOMAIN cache.dept |-> cache.dept[e]], user |-> [v \in DOMAIN cache.user |-> cache.user[v]]]
  BY DEF ApproversTypeOK
<1>2. /\ DOMAIN users = DOMAIN cache.user \cup {u} /\ users[u] = b /\ \A v \in DOMAIN cache.user \ {u} : users[v] = cache.user[v]
      /\ users = [v \in DOMAIN users |-> users[v]]
  BY <1>1, Zenon
<1>3. \A v \in DOMAIN users : users[v] \in BOOLEAN
  BY <1>1, <1>2, Zenon
<1> HIDE DEF users
<1>4. cache' = [cache EXCEPT !.user = users]
  BY DEF users
<1>5. DOMAIN cache = {"dept", "user"} /\ cache.dept = [e \in DOMAIN cache.dept |-> cache.dept[e]]
  BY <1>1
<1>6. cache' = [dept |-> cache.dept, user |-> users]
  BY <1>1, <1>4
<1>7. cache'.user = users /\ cache'.dept = cache.dept
  BY <1>6
<1> QED
  BY <1>1, <1>2, <1>3, <1>5, <1>6, <1>7 DEF CacheTypes

LEMMA LeadersFit ==
  ASSUME ApproversAssumption, ApproversTypeOK, NEW d \in Dept, NEW own \in BOOLEAN, Asked.kind # "deputyAbove"
  PROVE  LET todo == Leaders(DeptRow(d), own)
         IN  /\ todo \in Seq(Colleague \cup {Missing}) /\ \A i \in DOMAIN todo : todo[i] \in {dir.head[d], dir.deputy[d]}
             /\ \A i \in DOMAIN todo : ~Skip(todo[i]) /\ todo[i] \in dir.active => Fit(todo[i], d, own)
             /\ \A u : Fit(u, d, own) => \E i \in DOMAIN todo : todo[i] = u
             /\ ~TakesAll /\ Fit(dir.deputy[d], d, own) => todo # <<>> /\ todo[1] = dir.deputy[d]
<1> DEFINE h == dir.head[d]
           p == dir.deputy[d]
           todo == Leaders(DeptRow(d), own)
           OnlyHead == \A u : Fit(u, d, own) <=> MayBeAsked(u) /\ u = h
           Both == \A u : Fit(u, d, own) <=> MayBeAsked(u) /\ u \in {h, p}
           Nobody == \A u : ~Fit(u, d, own)
           Proper(l) == /\ l \in Seq(Colleague \cup {Missing}) /\ \A i \in DOMAIN l : l[i] \in {h, p}
                        /\ \A i \in DOMAIN l : ~Skip(l[i]) /\ l[i] \in dir.active => Fit(l[i], d, own)
                        /\ \A u : Fit(u, d, own) => \E i \in DOMAIN l : l[i] = u
                        /\ ~TakesAll /\ Fit(p, d, own) => l # <<>> /\ l[1] = p
<1>1. h \in Colleague \cup {Missing} /\ p \in Colleague \cup {Missing} /\ DeptRow(d).head = h /\ DeptRow(d).deputy = p
  BY SearchTypes DEF DeptRow
<1>2. \A u : ~Skip(u) /\ u \in dir.active => MayBeAsked(u)
  BY DEF Skip, MayBeAsked
<1> HIDE DEF h, p
<1>3. OnlyHead => Proper(<<h>>)
  <2> SUFFICES ASSUME OnlyHead PROVE Proper(<<h>>)
    OBVIOUS
  <2>1. DOMAIN <<h>> = {1} /\ <<h>>[1] = h /\ <<h>> \in Seq(Colleague \cup {Missing}) /\ <<h>> # <<>>
    BY <1>1
  <2> QED
    BY <1>2, <2>1
<1>4. Both => Proper(<<p, h>>)
  <2> SUFFICES ASSUME Both PROVE Proper(<<p, h>>)
    OBVIOUS
  <2>1. DOMAIN <<p, h>> = {1, 2} /\ <<p, h>>[1] = p /\ <<p, h>>[2] = h /\ <<p, h>> \in Seq(Colleague \cup {Missing}) /\ <<p, h>> # <<>>
    BY <1>1
  <2> QED
    BY <1>2, <2>1
<1>5. Both /\ TakesAll => Proper(<<h, p>>)
  <2> SUFFICES ASSUME Both, TakesAll PROVE Proper(<<h, p>>)
    OBVIOUS
  <2>1. DOMAIN <<h, p>> = {1, 2} /\ <<h, p>>[1] = h /\ <<h, p>>[2] = p /\ <<h, p>> \in Seq(Colleague \cup {Missing})
    BY <1>1
  <2> QED
    BY <1>2, <2>1
<1>6. Nobody => Proper(<<>>)
  OBVIOUS
<1> SUFFICES Proper(todo)
  BY DEF h, p
<1> HIDE DEF Proper, todo, OnlyHead, Both, Nobody
<1>7. CASE Asked.kind \in {"head", "leaderHead"}
  <2>1. OnlyHead
    BY <1>7 DEF Fit, h, p, OnlyHead, Both, Nobody
  <2>2. todo = <<h>>
    BY <1>1, <1>7 DEF Leaders, todo
  <2> QED
    BY <1>3, <2>1, <2>2
<1>8. CASE Asked.kind = "deputy"
  <2>1. CASE own
    <3>1. Both
      BY <1>8, <2>1 DEF Fit, h, p, OnlyHead, Both, Nobody
    <3>2. todo = <<p, h>>
      BY <1>1, <1>8, <2>1 DEF Leaders, todo
    <3> QED
      BY <1>4, <3>1, <3>2
  <2>2. CASE ~own
    <3>1. OnlyHead
      BY <1>8, <2>2 DEF Fit, h, p, OnlyHead, Both, Nobody
    <3>2. todo = <<h>>
      BY <1>1, <1>8, <2>2 DEF Leaders, todo
    <3> QED
      BY <1>3, <3>1, <3>2
  <2> QED
    BY <2>1, <2>2
<1>9. CASE Asked.kind = "leaderDeputy"
  <2>1. Both
    BY <1>9 DEF Fit, h, p, OnlyHead, Both, Nobody
  <2>2. todo = <<p, h>>
    BY <1>1, <1>9 DEF Leaders, todo
  <2> QED
    BY <1>4, <2>1, <2>2
<1>10. CASE Asked.kind = "leaderAny"
  <2>1. Both
    BY <1>10 DEF Fit, h, p, OnlyHead, Both, Nobody
  <2>2. TakesAll
    BY <1>10 DEF TakesAll
  <2>3. CASE p = h
    <3>1. todo = <<h>>
      BY <1>1, <1>10, <2>3 DEF Leaders, todo
    <3>2. OnlyHead
      BY <2>1, <2>3 DEF OnlyHead, Both
    <3> QED
      BY <1>3, <3>1, <3>2
  <2>4. CASE p # h
    <3>1. todo = <<h, p>>
      BY <1>1, <1>10, <2>4 DEF Leaders, todo
    <3> QED
      BY <1>5, <2>1, <2>2, <3>1
  <2> QED
    BY <2>3, <2>4
<1>11. CASE Asked.kind = "above"
  <2>1. todo = EscalationCandidates(Asked.who, DeptRow(d), own)
    BY <1>11 DEF Leaders, todo
  <2>2. CASE own /\ Asked.who = h
    <3>1. Nobody
      BY <1>11, <2>2 DEF Fit, h, p, OnlyHead, Both, Nobody
    <3>2. todo = <<>>
      BY <1>1, <2>1, <2>2 DEF EscalationCandidates
    <3> QED
      BY <1>6, <3>1, <3>2
  <2>3. CASE own /\ Asked.who # h /\ Asked.who = p
    <3>1. OnlyHead
      BY <1>11, <2>3 DEF Fit, h, p, OnlyHead, Both, Nobody
    <3>2. todo = <<h>>
      BY <1>1, <2>1, <2>3 DEF EscalationCandidates
    <3> QED
      BY <1>3, <3>1, <3>2
  <2>4. CASE ~own \/ Asked.who \notin {h, p}
    <3>1. Both
      BY <1>11, <2>4 DEF Fit, h, p, OnlyHead, Both, Nobody
    <3>2. CASE p = h
      <4>1. todo = <<h>>
        BY <1>1, <2>1, <2>4, <3>2 DEF EscalationCandidates
      <4>2. OnlyHead
        BY <3>1, <3>2 DEF OnlyHead, Both
      <4> QED
        BY <1>3, <4>1, <4>2
    <3>3. CASE p # h
      <4>1. todo = <<p, h>>
        BY <1>1, <2>1, <2>4, <3>3 DEF EscalationCandidates
      <4> QED
        BY <1>4, <3>1, <4>1
    <3> QED
      BY <3>2, <3>3
  <2> QED
    BY <2>2, <2>3, <2>4
<1>12. Asked.kind \in Kind
  BY SearchTypes
<1> QED
  BY <1>7, <1>8, <1>9, <1>10, <1>11, <1>12 DEF Kind

LEMMA LeadersType ==
  ASSUME ApproversAssumption, ApproversTypeOK, NEW r \in DeptRows, NEW own \in BOOLEAN, Asked.kind # "deputyAbove"
  PROVE  Leaders(r, own) \in Seq(Colleague \cup {Missing}) /\ \A i \in DOMAIN Leaders(r, own) : Leaders(r, own)[i] \in {r.head, r.deputy}
<1> DEFINE S == Colleague \cup {Missing}
           h == r.head
           p == r.deputy
           Proper(l) == l \in Seq(S) /\ \A i \in DOMAIN l : l[i] \in {h, p}
<1>1. h \in S /\ p \in S
  BY DEF DeptRows
<1> SUFFICES Proper(Leaders(r, own))
  OBVIOUS
<1> HIDE DEF S, h, p
<1>2. Proper(<<>>) /\ Proper(<<h>>) /\ Proper(<<p, h>>) /\ Proper(<<h, p>>)
  <2>1. Proper(<<>>)
    OBVIOUS
  <2>2. Proper(<<h>>)
    BY <1>1
  <2>3. Proper(<<p, h>>)
    <3>1. DOMAIN <<p, h>> = {1, 2} /\ <<p, h>>[1] = p /\ <<p, h>>[2] = h /\ <<p, h>> \in Seq(S)
      BY <1>1
    <3> QED
      BY <3>1
  <2>4. Proper(<<h, p>>)
    <3>1. DOMAIN <<h, p>> = {1, 2} /\ <<h, p>>[1] = h /\ <<h, p>>[2] = p /\ <<h, p>> \in Seq(S)
      BY <1>1
    <3> QED
      BY <3>1
  <2> QED
    BY <2>1, <2>2, <2>3, <2>4
<1> HIDE DEF Proper
<1>3. EscalationCandidates(Asked.who, r, own) \in {<<>>, <<h>>, <<p, h>>}
  BY DEF EscalationCandidates, h, p
<1>4. Leaders(r, own) \in {<<>>, <<h>>, <<p, h>>, <<h, p>>}
  <2>1. Asked.kind \in Kind \ {"deputyAbove"}
    BY SearchTypes
  <2> QED
    BY <1>3, <2>1 DEF Leaders, Kind, h, p
<1> QED
  BY <1>2, <1>4

LEMMA SearchBegins == ApproversAssumption /\ ApproversInit => ApproversInv
<1> SUFFICES ASSUME ApproversAssumption, ApproversInit PROVE ApproversInv
  OBVIOUS
<1>1. PICK q \in Question :
        walk = [question |-> q, at |-> Missing, row |-> Missing, depth |-> 0, visited |-> {}, todo |-> <<>>, found |-> {}, phase |-> "asked"]
  BY DEF ApproversInit
<1>2. /\ dir \in Charts
      /\ past = [active |-> dir.active, led |-> { dir.head[d] : d \in Dept } \cup { dir.deputy[d] : d \in Dept }]
      /\ changes = 0 /\ cache = [dept |-> [d \in {} |-> Missing], user |-> [u \in {} |-> FALSE]]
  BY DEF ApproversInit, ApproversAssumption
<1>3. DOMAIN cache.dept = {} /\ DOMAIN cache.user = {} /\ walk.phase = "asked" /\ walk.found = {} /\ DOMAIN walk.todo = {}
  BY <1>1, <1>2
<1>4. dir.head \in [Dept -> Colleague \cup {Missing}] /\ dir.deputy \in [Dept -> Colleague \cup {Missing}] /\ dir.active \subseteq Colleague
  BY <1>2 DEF Charts
<1>5. ApproversTypeOK
  <2>1. past \in [active : SUBSET Colleague, led : SUBSET (Colleague \cup {Missing})]
    BY <1>2, <1>4
  <2>2. walk \in [question : Question, at : Dept \cup {Missing}, row : DeptRows \cup {Missing}, depth : 0..MaxLevels,
               visited : SUBSET Dept, todo : Seq(Colleague \cup {Missing}), found : SUBSET Colleague,
               phase : {"asked", "enter", "test", "done"}]
    <3> DEFINE S == Colleague \cup {Missing}
    <3>1. <<>> \in Seq(S) /\ 0 \in 0..MaxLevels
      BY DEF ApproversAssumption
    <3> HIDE DEF S
    <3> QED
      BY <1>1, <3>1 DEF S
  <2>3. cache.dept = [d \in {} |-> Missing] /\ cache.user = [u \in {} |-> FALSE]
    BY <1>2
  <2>4. cache = [dept |-> [d \in DOMAIN cache.dept |-> cache.dept[d]], user |-> [u \in DOMAIN cache.user |-> cache.user[u]]]
    BY <1>2, <2>3
  <2> QED
    BY <1>2, <1>3, <2>1, <2>2, <2>4 DEF ApproversTypeOK
<1>6. Heard
  BY <1>2, <1>3, <1>4 DEF Heard, CacheIsHeard
<1>7. Placed
  BY <1>1 DEF Placed
<1>8. AtRestInv
  BY <1>3 DEF AtRestInv, Remembered, Entering, Inside, Trying
<1>9. TheRightOnesAreAsked
  BY <1>3 DEF TheRightOnesAreAsked
<1> QED
  BY <1>5, <1>6, <1>7, <1>8, <1>9 DEF ApproversInv

(* The walk ends with those who were found; a state that was never reached    *)
(* before is judged by what it found                                         *)
LEMMA DoneOK ==
  ASSUME ApproversAssumption, ApproversInv, NEW S, Done(S), UNCHANGED <<dir, past, changes>>,
         S \subseteq past.active \cap past.led, S \subseteq Colleague, S \cap Asked.except = {},
         CacheTypes',
         CacheIsHeard',
         changes = 0 => Remembered',
         changes = 0 => IF Asked.kind = "deputyAbove" THEN OneOverHim' ELSE NearestOnes'
  PROVE  ApproversInv'
<1> DEFINE w == [walk EXCEPT !.phase = "done", !.found = S]
<1>1. walk' = w
  BY DEF Done
<1>2. /\ w \in Walks
      /\ w.phase = "done" /\ w.found = S /\ w.question = walk.question /\ w.todo = walk.todo
  <2> DEFINE K == Seq(Colleague \cup {Missing})
             R == DeptRows \cup {Missing}
             D == Dept \cup {Missing}
             L == 0..MaxLevels
  <2>1. walk \in [question : Question, at : D, row : R, depth : L, visited : SUBSET Dept, todo : K, found : SUBSET Colleague,
                  phase : {"asked", "enter", "test", "done"}]
    BY DEF ApproversInv, ApproversTypeOK
  <2> HIDE DEF K, R, D, L
  <2>2. /\ w \in [question : Question, at : D, row : R, depth : L, visited : SUBSET Dept, todo : K, found : SUBSET Colleague,
                  phase : {"asked", "enter", "test", "done"}]
        /\ w.phase = "done" /\ w.found = S /\ w.question = walk.question /\ w.todo = walk.todo
    BY <2>1
  <2> QED
    BY <2>2 DEF K, R, D, L, Walks
<1> HIDE DEF w
<1>3. Asked' = Asked /\ walk'.phase = "done" /\ walk'.found = S /\ walk'.todo = walk.todo
  BY <1>1, <1>2 DEF Asked
<1>4. ApproversTypeOK'
  BY <1>1, <1>2, WalkKeepsTypes DEF ApproversInv
<1>5. Heard'
  BY <1>3 DEF Heard, CacheIsHeard, ApproversInv
<1>6. Placed'
  BY <1>3 DEF Placed
<1>7. AtRestInv'
  BY <1>3 DEF AtRestInv, Entering, Inside, Trying
<1>8. TheRightOnesAreAsked'
  BY <1>3 DEF TheRightOnesAreAsked
<1> QED
  BY <1>4, <1>5, <1>6, <1>7, <1>8 DEF ApproversInv

LEMMA BeginOK ==
  ASSUME ApproversAssumption, ApproversInv, Begin
  PROVE  ApproversInv'
<1>1. walk.phase = "asked" /\ Asked.kind # "deputyAbove" /\ UNCHANGED <<dir, cache, past, changes>>
  BY DEF Begin
<1>2. ApproversTypeOK /\ Heard /\ Placed /\ AtRestInv
  BY DEF ApproversInv
<1>3. walk.depth = 0 /\ walk.found = {} /\ walk.visited = {}
  BY <1>1, <1>2 DEF Placed
<1>4. From \in Dept \cup {Missing}
  BY <1>2, SearchTypes DEF From
<1>5. CASE From = Missing
  <2>1. Done({})
    BY <1>1, <1>5 DEF Begin, From
  <2>2. walk'.question = walk.question /\ walk'.found = {}
    BY <1>2, <2>1, WalkTypes DEF Done, ApproversTypeOK
  <2>3. NearestOnes'
    <3>1. Levels' = {}
      BY <1>1, <1>5, <2>2, SameChart DEF Levels
    <3> QED
      BY <2>2, <3>1 DEF NearestOnes
  <2>4. changes = 0 => Remembered'
    BY <1>1, <1>2, <2>2, SameChart DEF AtRestInv, Remembered
  <2>5. CacheIsHeard'
    BY <1>1, <1>2 DEF Heard, CacheIsHeard
  <2> QED
    BY <1>1, <1>2, <2>1, <2>3, <2>4, <2>5, CacheKept, DoneOK
<1>6. CASE From # Missing
  <2> DEFINE w == [walk EXCEPT !.at = From, !.phase = "enter"]
  <2>1. walk' = w
    BY <1>1, <1>6 DEF Begin, From
  <2>2. /\ w \in Walks /\ w.at = From /\ w.phase = "enter" /\ w.question = walk.question /\ w.depth = 0 /\ w.found = {} /\ w.visited = {}
        /\ w.todo = walk.todo
    <3>1. walk \in Walks
      BY <1>2 DEF ApproversTypeOK, Walks
    <3> DEFINE K == Seq(Colleague \cup {Missing})
               R == DeptRows \cup {Missing}
               D == Dept \cup {Missing}
               L == 0..MaxLevels
    <3>2. From \in D
      BY <1>4
    <3> HIDE DEF K, R, D, L
    <3>3. walk \in [question : Question, at : D, row : R, depth : L, visited : SUBSET Dept, todo : K, found : SUBSET Colleague,
                  phase : {"asked", "enter", "test", "done"}]
      BY <3>1 DEF Walks, K, R, D, L
    <3>4. w \in [question : Question, at : D, row : R, depth : L, visited : SUBSET Dept, todo : K, found : SUBSET Colleague,
                  phase : {"asked", "enter", "test", "done"}]
      BY <3>2, <3>3
    <3>5. w \in Walks
      BY <3>4 DEF Walks, K, R, D, L
    <3> QED
      BY <1>3, <3>3, <3>5
  <2> HIDE DEF w
  <2>3. Asked' = Asked /\ walk'.phase = "enter" /\ walk'.at = From /\ walk'.depth = 0 /\ walk'.found = {} /\ walk'.visited = {} /\ walk'.todo = walk.todo
    BY <2>1, <2>2 DEF Asked
  <2>4. ApproversTypeOK'
    BY <1>1, <1>2, <2>1, <2>2, CacheKept, WalkKeepsTypes
  <2>5. Heard'
    BY <1>1, <1>2, <2>3 DEF Heard, CacheIsHeard
  <2>6. Placed'
    BY <1>1, <2>3 DEF Placed
  <2>7. AtRestInv'
    <3> SUFFICES ASSUME changes = 0 PROVE Remembered' /\ Entering' /\ Inside' /\ Trying'
      BY <1>1 DEF AtRestInv
    <3>1. Remembered'
      BY <1>1, <1>2, <2>1, <2>2, SameChart DEF AtRestInv, Remembered
    <3>2. Entering'
      <4>1. Higher(0) = From
        BY <1>2, HigherIs
      <4>2. Higher(0)' = From
        BY <1>1, <2>1, <2>2, <4>1, SameChart
      <4>3. Passed(0)'
        BY DEF Passed
      <4>4. { Higher(m)' : m \in 0..(0 - 1) } = {}
        OBVIOUS
      <4> QED
        BY <2>3, <4>2, <4>3, <4>4 DEF Entering, OnItsWay
    <3> QED
      BY <2>3, <3>1, <3>2 DEF Inside, Trying
  <2>8. TheRightOnesAreAsked'
    BY <2>3 DEF TheRightOnesAreAsked
  <2> QED
    BY <2>4, <2>5, <2>6, <2>7, <2>8 DEF ApproversInv
<1> QED
  BY <1>5, <1>6

LEMMA BeginDeputyOK ==
  ASSUME ApproversAssumption, ApproversInv, BeginDeputy
  PROVE  ApproversInv'
<1>1. walk.phase = "asked" /\ Asked.kind = "deputyAbove" /\ UNCHANGED <<dir, cache, past, changes>>
  BY DEF BeginDeputy
<1>2. ApproversTypeOK /\ Heard /\ Placed /\ AtRestInv
  BY DEF ApproversInv
<1>3. walk.depth = 0 /\ walk.found = {} /\ walk.visited = {} /\ walk.row = Missing
  BY <1>1, <1>2 DEF Placed
<1> DEFINE N == Cardinality(Over)
<1>4. PICK order \in [1..N -> Over] :
        /\ { order[i] : i \in DOMAIN order } = Over
        /\ dir.home[Asked.who] \in Over => order[1] = dir.home[Asked.who]
        /\ walk' = [walk EXCEPT !.phase = "test", !.todo = [i \in DOMAIN order |-> dir.head[order[i]]]]
  BY Zenon DEF BeginDeputy, Over
<1>5. N \in Nat
  <2>1. IsFiniteSet(Over)
    BY FS_Subset DEF Over, ApproversAssumption
  <2> QED
    BY <2>1, FS_CardinalityType
<1> HIDE DEF N
<1> DEFINE todo == [i \in 1..N |-> dir.head[order[i]]]
<1>6. /\ todo \in Seq(Colleague \cup {Missing}) /\ DOMAIN todo = 1..N
      /\ \A i \in 1..N : todo[i] = dir.head[order[i]] /\ order[i] \in Over
  <2>1. Over \subseteq Dept /\ dir.head \in [Dept -> Colleague \cup {Missing}]
    BY <1>2, SearchTypes DEF Over
  <2> DEFINE H == Colleague \cup {Missing}
  <2>2. \A i \in 1..N : dir.head[order[i]] \in H
    BY <2>1
  <2> HIDE DEF H
  <2>3. todo \in [1..N -> H]
    BY <2>2
  <2>4. todo \in Seq(H)
    BY <1>5, <2>3
  <2> QED
    BY <2>4 DEF H
<1>7. walk' = [walk EXCEPT !.phase = "test", !.todo = todo]
  BY <1>4
<1> HIDE DEF todo
<1> DEFINE w == [walk EXCEPT !.phase = "test", !.todo = todo]
<1>8. /\ w \in Walks /\ w.phase = "test" /\ w.question = walk.question /\ w.depth = 0 /\ w.found = {} /\ w.row = Missing
      /\ w.todo = todo
  <2> DEFINE K == Seq(Colleague \cup {Missing})
             R == DeptRows \cup {Missing}
             D == Dept \cup {Missing}
             L == 0..MaxLevels
  <2>1. todo \in K
    BY <1>6
  <2>2. walk \in [question : Question, at : D, row : R, depth : L, visited : SUBSET Dept, todo : K, found : SUBSET Colleague,
                phase : {"asked", "enter", "test", "done"}]
    BY <1>2 DEF ApproversTypeOK
  <2> HIDE DEF K, R, D, L
  <2>3. w \in [question : Question, at : D, row : R, depth : L, visited : SUBSET Dept, todo : K, found : SUBSET Colleague,
                phase : {"asked", "enter", "test", "done"}]
    BY <2>1, <2>2
  <2>4. w \in Walks
    BY <2>3 DEF Walks, K, R, D, L
  <2> QED
    BY <1>3, <2>2, <2>4
<1> HIDE DEF w
<1>9. walk' = w /\ Asked' = Asked
  BY <1>7, <1>8 DEF w, Asked
<1>10. ApproversTypeOK'
  BY <1>1, <1>2, <1>8, <1>9, CacheKept, WalkKeepsTypes
<1>11. Heard'
  <2>1. \A i \in 1..N : todo[i] \in past.led
    <3>1. Over \subseteq Dept
      BY DEF Over
    <3> QED
      BY <1>2, <1>6, <3>1 DEF Heard, CacheIsHeard
  <2> QED
    BY <1>1, <1>2, <1>6, <1>8, <1>9, <2>1 DEF Heard, CacheIsHeard
<1>12. Placed'
  BY <1>1, <1>8, <1>9 DEF Placed, ApproversAssumption
<1>13. AtRestInv'
  <2> SUFFICES ASSUME changes = 0 PROVE Remembered' /\ Entering' /\ Inside' /\ Trying'
    BY <1>1 DEF AtRestInv
  <2>1. Remembered'
    BY <1>1, <1>2, <1>8, <1>9, SameChart DEF AtRestInv, Remembered
  <2>2. Entering' /\ Inside'
    BY <1>1, <1>8, <1>9 DEF Entering, Inside
  <2>3. /\ \A u : (Skip(u)' <=> Skip(u)) /\ (MayBeAsked(u)' <=> MayBeAsked(u))
        /\ HeadsOver' = HeadsOver /\ Over' = Over /\ (TakesAll' <=> TakesAll)
    BY <1>1, <1>8, <1>9, SameChart
  <2>4. Suitable' = { u \in HeadsOver : MayBeAsked(u) }
    BY <1>1, <1>9, <2>3 DEF Suitable
  <2>5. HeadsOver = { dir.head[d] : d \in Over }
    BY DEF HeadsOver, Over
  <2>6. \A i \in 1..N : ~Skip(todo[i]) /\ todo[i] \in dir.active => todo[i] \in HeadsOver /\ MayBeAsked(todo[i])
    BY <1>6, <2>5 DEF Skip, MayBeAsked
  <2>7. \A u \in HeadsOver : \E i \in 1..N : todo[i] = u
    <3> SUFFICES ASSUME NEW d \in Over PROVE \E i \in 1..N : todo[i] = dir.head[d]
      BY <2>5
    <3>1. PICK i \in DOMAIN order : order[i] = d
      BY <1>4
    <3> QED
      BY <1>6, <3>1
  <2>8. dir.home[Asked.who] \in Over => todo # <<>> /\ todo[1] = dir.head[dir.home[Asked.who]]
    <3> SUFFICES ASSUME dir.home[Asked.who] \in Over PROVE 1 \in 1..N /\ order[1] = dir.home[Asked.who]
      <4>1. DOMAIN <<>> = {}
        OBVIOUS
      <4> QED
        BY <1>6, <4>1
    <3>1. PICK i \in DOMAIN order : order[i] = dir.home[Asked.who]
      BY <1>4
    <3>2. order[1] = dir.home[Asked.who] /\ DOMAIN order = 1..N
      BY <1>4
    <3> QED
      BY <1>5, <3>1, <3>2
  <2>9. Trying'
    <3>1. walk'.todo = todo /\ walk'.found = {} /\ DOMAIN todo = 1..N /\ dir' = dir
      BY <1>1, <1>6, <1>8, <1>9
    <3>2. \A u : Preferred(u)' <=> dir.home[Asked.who] \in Over /\ u = dir.head[dir.home[Asked.who]]
      BY <1>1, <1>9, <2>3, <3>1 DEF Preferred
    <3>3. (\A i \in DOMAIN walk.todo : ~Skip(walk.todo[i]) /\ walk.todo[i] \in dir.active => walk.todo[i] \in Suitable)'
      BY <1>1, <1>9, <2>4, <2>6, <3>1 DEF Skip
    <3>4. (\A u \in Suitable : \E i \in DOMAIN walk.todo : walk.todo[i] = u)'
      BY <2>4, <2>7, <3>1
    <3>5. (\A u \in Suitable : Preferred(u) => walk.todo # <<>> /\ walk.todo[1] = u)'
      BY <2>8, <3>1, <3>2
    <3>6. walk'.found \subseteq Suitable'
      BY <3>1
    <3> QED
      BY <3>1, <3>3, <3>4, <3>5, <3>6 DEF Trying
  <2> QED
    BY <2>1, <2>2, <2>9
<1>14. TheRightOnesAreAsked'
  BY <1>8, <1>9 DEF TheRightOnesAreAsked
<1> QED
  BY <1>10, <1>11, <1>12, <1>13, <1>14 DEF ApproversInv

LEMMA EnterOK ==
  ASSUME ApproversAssumption, ApproversInv, Enter
  PROVE  ApproversInv'
<1>1. walk.phase = "enter" /\ UNCHANGED <<dir, past, changes>>
  BY DEF Enter
<1>2. ApproversTypeOK /\ Heard /\ Placed /\ AtRestInv
  BY DEF ApproversInv
<1>3. Asked.kind # "deputyAbove" /\ walk.found = {} /\ walk.depth \in 0..MaxLevels /\ walk.at \in Dept \cup {Missing}
  BY <1>1, <1>2, WalkTypes DEF Placed
<1>4. changes = 0 => Remembered /\ OnItsWay /\ walk.visited = { Higher(m) : m \in 0..(walk.depth - 1) }
  BY <1>1, <1>2 DEF AtRestInv, Entering
<1>5. MaxLevels \in Nat
  BY DEF ApproversAssumption
(* Where the way ends, nobody is asked                                        *)
<1>6. ASSUME changes = 0, Done({}),
             \/ walk.depth = MaxLevels \/ Higher(walk.depth) = Missing \/ Higher(walk.depth) \in dir.gone
             \/ \E k \in 0..(walk.depth - 1) : Higher(k) = Higher(walk.depth)
      PROVE  NearestOnes'
  <2>1. \A k \in Levels : With(k) = {}
    BY <1>2, <1>3, <1>4, <1>6, TheWayEnds DEF OnItsWay
  <2>2. walk'.question = walk.question /\ walk'.found = {}
    BY <1>2, <1>6 DEF Done, ApproversTypeOK
  <2>3. Levels' = Levels /\ \A n : With(n)' = With(n)
    BY <1>1, <2>2, SameChart
  <2> QED
    BY <2>1, <2>2, <2>3 DEF NearestOnes
<1>7. CASE walk.at = Missing \/ walk.depth >= MaxLevels \/ (ChecksVisited /\ walk.at \in walk.visited)
  <2>1. Done({}) /\ cache' = cache
    BY <1>1, <1>3, <1>7 DEF Enter
  <2>2. walk'.question = walk.question
    BY <1>2, <2>1 DEF Done, ApproversTypeOK
  <2>3. changes = 0 => Remembered'
    BY <1>1, <1>4, <2>1, <2>2, SameChart DEF Remembered
  <2>4. changes = 0 => NearestOnes'
    BY <1>3, <1>4, <1>5, <1>6, <1>7, <2>1 DEF OnItsWay
  <2>5. CacheIsHeard'
    BY <1>1, <1>2, <2>1 DEF Heard, CacheIsHeard
  <2> QED
    BY <1>1, <1>2, <1>3, <2>1, <2>3, <2>4, <2>5, CacheKept, DoneOK
<1>8. CASE ~(walk.at = Missing \/ walk.depth >= MaxLevels \/ (ChecksVisited /\ walk.at \in walk.visited))
  <2> DEFINE r == IF walk.at \in DOMAIN cache.dept THEN cache.dept[walk.at] ELSE DeptRow(walk.at)
  <2>1. walk.at \in Dept /\ walk.depth < MaxLevels
    BY <1>3, <1>5, <1>8
  <2>2. DeptRow(walk.at) \in DeptRows
    <3>1. dir.head[walk.at] \in Colleague \cup {Missing} /\ dir.deputy[walk.at] \in Colleague \cup {Missing}
          /\ dir.parent[walk.at] \in Dept \cup {Missing}
      BY <1>2, <2>1, SearchTypes
    <3> QED
      BY <3>1 DEF DeptRow, DeptRows
  <2>3. r \in DeptRows
    BY <1>2, <2>2 DEF ApproversTypeOK
  <2>4. r.head \in past.led /\ r.deputy \in past.led
    BY <1>1, <1>2, <2>1 DEF Heard, CacheIsHeard, DeptRow
  <2>5. changes = 0 => r = DeptRow(walk.at)
    BY <1>4 DEF Remembered
  <2>6. cache' = [cache EXCEPT !.dept = [d \in DOMAIN @ \cup {walk.at} |-> IF d = walk.at THEN r ELSE @[d]]]
    BY <1>1, <1>8 DEF Enter
  <2>7. IF r.gone THEN Done({})
        ELSE walk' = [walk EXCEPT !.phase = "test", !.row = r, !.visited = @ \cup {walk.at}, !.todo = Leaders(r, walk.depth = 0)]
    BY <1>1, <1>8 DEF Enter
  <2> HIDE DEF r
  <2>8. /\ cache'.user = cache.user /\ DOMAIN cache'.dept = DOMAIN cache.dept \cup {walk.at} /\ cache'.dept[walk.at] = r
        /\ \A e \in DOMAIN cache.dept \ {walk.at} : cache'.dept[e] = cache.dept[e]
        /\ CacheTypes'
    BY <1>2, <2>1, <2>3, <2>6, DeptCached
  <2>9. CacheIsHeard'
    BY <1>1, <1>2, <2>4, <2>8 DEF Heard, CacheIsHeard
  <2>10. walk'.question = walk.question => (changes = 0 => Remembered')
    <3> SUFFICES ASSUME walk'.question = walk.question, changes = 0 PROVE Remembered'
      OBVIOUS
    <3>1. \A d : DeptRow(d)' = DeptRow(d)
      BY <1>1, SameChart
    <3> QED
      BY <1>1, <1>4, <2>5, <2>8, <3>1 DEF Remembered
  <2>11. DeptRow(walk.at).gone <=> walk.at \in dir.gone
    BY DEF DeptRow
  <2>12. CASE r.gone
    <3>1. Done({})
      BY <2>7, <2>12
    <3>2. walk'.question = walk.question
      BY <1>2, <3>1 DEF Done, ApproversTypeOK
    <3>3. changes = 0 => NearestOnes'
      <4> SUFFICES ASSUME changes = 0 PROVE Higher(walk.depth) \in dir.gone
        BY <1>6, <3>1
      <4> QED
        BY <1>4, <2>5, <2>12, <2>11 DEF OnItsWay
    <3>4. changes = 0 => Remembered'
      BY <2>10, <3>2
    <3>5. {} \subseteq past.active \cap past.led /\ {} \subseteq Colleague /\ {} \cap Asked.except = {}
      OBVIOUS
    <3> QED
      BY <1>1, <1>3, <2>8, <2>9, <3>1, <3>3, <3>4, <3>5, DoneOK
  <2>13. CASE ~r.gone
    <3> DEFINE todo == Leaders(r, walk.depth = 0)
               w == [walk EXCEPT !.phase = "test", !.row = r, !.visited = @ \cup {walk.at}, !.todo = todo]
    <3>1. walk' = w
      BY <2>7, <2>13
    <3>2. todo \in Seq(Colleague \cup {Missing}) /\ \A i \in DOMAIN todo : todo[i] \in {r.head, r.deputy}
      BY <1>2, <1>3, <2>3, LeadersType
    <3> HIDE DEF todo
    <3>3. /\ w \in Walks /\ w.phase = "test" /\ w.question = walk.question /\ w.depth = walk.depth /\ w.found = {} /\ w.row = r
          /\ w.todo = todo /\ w.at = walk.at /\ w.visited = walk.visited \cup {walk.at}
      <4> DEFINE K == Seq(Colleague \cup {Missing})
                 R == DeptRows \cup {Missing}
                 D == Dept \cup {Missing}
                 L == 0..MaxLevels
      <4>1. todo \in K /\ r \in R
        BY <2>3, <3>2
      <4>2. walk \in [question : Question, at : D, row : R, depth : L, visited : SUBSET Dept, todo : K, found : SUBSET Colleague,
                    phase : {"asked", "enter", "test", "done"}]
        BY <1>2 DEF ApproversTypeOK
      <4> HIDE DEF K, R, D, L
      <4>3. w \in [question : Question, at : D, row : R, depth : L, visited : SUBSET Dept, todo : K, found : SUBSET Colleague,
                    phase : {"asked", "enter", "test", "done"}]
        BY <2>1, <4>1, <4>2
      <4>4. w \in Walks
        BY <4>3 DEF Walks, K, R, D, L
      <4> QED
        BY <1>3, <4>2, <4>4
    <3> HIDE DEF w
    <3>4. Asked' = Asked
      BY <3>1, <3>3 DEF Asked
    <3>5. ApproversTypeOK'
      BY <1>1, <1>2, <2>8, <3>1, <3>3, WalkKeepsTypes
    <3>6. Heard'
      BY <1>1, <1>2, <2>4, <2>9, <3>1, <3>2, <3>3, <3>4 DEF Heard, CacheIsHeard
    <3>7. Placed'
      <4>1. r # Missing
        BY <2>3 DEF ApproversAssumption
      <4> QED
        BY <1>1, <1>3, <2>1, <3>1, <3>3, <3>4, <4>1 DEF Placed
    <3>8. AtRestInv'
      <4> SUFFICES ASSUME changes = 0 PROVE Remembered' /\ Entering' /\ Inside' /\ Trying'
        BY <1>1 DEF AtRestInv
      <4>1. Remembered'
        BY <2>10, <3>1, <3>3
      <4>2. Entering'
        BY <3>1, <3>3 DEF Entering
      <4>3. walk.at = Higher(walk.depth) /\ Passed(walk.depth) /\ (~Climbs => walk.depth = 0) /\ r = DeptRow(walk.at)
        BY <1>4, <2>5 DEF OnItsWay
      <4>4. Inside'
        <5>1. /\ Asked' = Asked /\ (Climbs' <=> Climbs) /\ (ChecksVisited' <=> ChecksVisited) /\ dir' = dir
              /\ \A n : Higher(n)' = Higher(n)
              /\ \A d : DeptRow(d)' = DeptRow(d)
              /\ \A n : Passed(n)' <=> Passed(n)
          BY <1>1, <3>1, <3>3, SameChart
        <5>2. walk'.depth = walk.depth /\ walk'.at = walk.at /\ walk'.row = r /\ walk'.visited = walk.visited \cup {walk.at}
          BY <3>1, <3>3
        <5>3. OnItsWay'
          <6>1. PICK n : n = walk.depth
            OBVIOUS
          <6>2. Passed(n)' /\ Higher(n)' = walk.at
            BY <4>3, <5>1, <6>1
          <6>3. walk'.depth = n
            BY <5>2, <6>1
          <6> QED
            BY <4>3, <5>1, <5>2, <6>1, <6>2, <6>3 DEF OnItsWay
        <5>4. walk.visited \cup {walk.at} = { Higher(m) : m \in 0..walk.depth }
          <6>1. walk.visited = { Higher(m) : m \in 0..(walk.depth - 1) }
            BY <1>4
          <6>2. 0..walk.depth = 0..(walk.depth - 1) \cup {walk.depth}
            BY <1>3, <1>5
          <6> QED
            BY <4>3, <6>1, <6>2
        <5>5. walk'.visited = { Higher(m)' : m \in 0..walk'.depth }
          <6>1. { Higher(m)' : m \in 0..walk'.depth } = { Higher(m) : m \in 0..walk'.depth }
            BY <5>1
          <6> QED
            BY <5>2, <5>4, <6>1
        <5>6. ChecksVisited => \A k \in 0..(walk.depth - 1) : Higher(k) # walk.at
          BY <1>4, <1>8
        <5>7. walk.at \notin dir.gone
          BY <2>13, <2>11, <4>3
        <5> QED
          BY <4>3, <5>1, <5>2, <5>3, <5>5, <5>6, <5>7 DEF Inside
      <4>5. Trying'
        <5>1. /\ (TakesAll' <=> TakesAll) /\ dir' = dir /\ Asked' = Asked
              /\ \A u : (Skip(u)' <=> Skip(u)) /\ (MayBeAsked(u)' <=> MayBeAsked(u))
              /\ \A u, d : \A own \in BOOLEAN : Fit(u, d, own)' <=> Fit(u, d, own)
          BY <1>1, <3>1, <3>3, SameChart
        <5>2. walk'.depth = walk.depth /\ walk'.at = walk.at /\ walk'.todo = todo /\ walk'.found = {}
          BY <3>1, <3>3
        <5> DEFINE own == walk.depth = 0
        <5>3. own \in BOOLEAN /\ todo = Leaders(DeptRow(walk.at), own)
          BY <4>3 DEF todo
        <5>4. Suitable' = { u \in Colleague : Fit(u, walk.at, own) }
          <6>1. \A u : Fit(u, walk.at, walk.depth = 0)' <=> Fit(u, walk.at, own)
            BY <5>1, <5>2 DEF Fit
          <6> QED
            BY <1>3, <5>1, <6>1 DEF Suitable
        <5> HIDE DEF own
        <5>5. /\ \A i \in DOMAIN todo : ~Skip(todo[i]) /\ todo[i] \in dir.active => Fit(todo[i], walk.at, own)
              /\ \A u : Fit(u, walk.at, own) => \E i \in DOMAIN todo : todo[i] = u
              /\ ~TakesAll /\ Fit(dir.deputy[walk.at], walk.at, own) => todo # <<>> /\ todo[1] = dir.deputy[walk.at]
          BY <1>2, <1>3, <2>1, <5>3, LeadersFit
        <5>6. \A u : Preferred(u)' <=> ~TakesAll /\ u = dir.deputy[walk.at]
          BY <1>3, <5>1, <5>2 DEF Preferred
        <5>7. dir.active \subseteq Colleague
          BY <1>2, SearchTypes
        <5>8. (\A i \in DOMAIN walk.todo : ~Skip(walk.todo[i]) /\ walk.todo[i] \in dir.active => walk.todo[i] \in Suitable)'
          BY <5>1, <5>2, <5>4, <5>5, <5>7 DEF Skip
        <5>9. (\A u \in Suitable : \E i \in DOMAIN walk.todo : walk.todo[i] = u)'
          BY <5>2, <5>4, <5>5
        <5>10. (\A u \in Suitable : Preferred(u) => walk.todo # <<>> /\ walk.todo[1] = u)'
          BY <5>2, <5>4, <5>5, <5>6
        <5> QED
          BY <5>2, <5>8, <5>9, <5>10 DEF Trying
      <4> QED
        BY <4>1, <4>2, <4>4, <4>5
    <3>9. TheRightOnesAreAsked'
      BY <3>1, <3>3 DEF TheRightOnesAreAsked
    <3> QED
      BY <3>5, <3>6, <3>7, <3>8, <3>9 DEF ApproversInv
  <2> QED
    BY <2>12, <2>13
<1> QED
  BY <1>7, <1>8

LEMMA SuitableMay ==
  ASSUME ApproversAssumption, ApproversTypeOK, NEW u \in Suitable
  PROVE  u \in Colleague /\ u \in dir.active /\ ~Skip(u)
<1>1. CASE Asked.kind = "deputyAbove"
  <2>1. u \in dir.active /\ u \notin Asked.except /\ dir.active \subseteq Colleague
    BY <1>1, SearchTypes DEF Suitable, MayBeAsked
  <2>2. u # Missing
    BY <2>1 DEF ApproversAssumption
  <2> QED
    BY <2>1, <2>2 DEF Skip
<1>2. CASE Asked.kind # "deputyAbove"
  <2>1. Fit(u, walk.at, walk.depth = 0)
    BY <1>2 DEF Suitable
  <2>2. (walk.depth = 0) \in BOOLEAN
    OBVIOUS
  <2> QED
    BY <2>1, <2>2, FitIs
<1> QED
  BY <1>1, <1>2

(* The first who is tried                                                    *)
FirstMay == ~Skip(Head(walk.todo)) /\ Head(walk.todo) \in dir.active
Tried(F) == walk' = [walk EXCEPT !.todo = Tail(walk.todo), !.found = F]
Growing == IF FirstMay THEN walk.found \cup {Head(walk.todo)} ELSE walk.found

(* One candidate less to try                                                 *)
LEMMA TriedOK ==
  ASSUME ApproversAssumption, ApproversInv, walk.phase = "test", walk.todo # <<>>, UNCHANGED <<dir, past, changes>>,
         NEW F, Tried(F),
         F \subseteq past.active \cap past.led, F \subseteq Colleague, F \cap Asked.except = {},
         CacheTypes',
         CacheIsHeard',
         changes = 0 => Remembered' /\ F = Growing /\ (TakesAll \/ ~FirstMay)
  PROVE  ApproversInv'
<1>1. ApproversTypeOK /\ Heard /\ Placed /\ AtRestInv
  BY DEF ApproversInv
<1> DEFINE first == Head(walk.todo)
           rest == Tail(walk.todo)
           n == Len(walk.todo)
           S == Colleague \cup {Missing}
<1>2. walk.todo \in Seq(S)
  BY <1>1, WalkTypes
<1>3. /\ n \in Nat /\ n > 0 /\ DOMAIN walk.todo = 1..n /\ rest \in Seq(S) /\ first = walk.todo[1]
      /\ DOMAIN rest = 1..(n - 1) /\ \A i \in 1..(n - 1) : rest[i] = walk.todo[i + 1] /\ i + 1 \in 1..n
  BY <1>2
<1> HIDE DEF S, rest, n, first
<1> DEFINE w == [walk EXCEPT !.todo = rest, !.found = F]
<1>4. /\ w \in Walks /\ w.phase = "test" /\ w.question = walk.question /\ w.depth = walk.depth /\ w.row = walk.row
      /\ w.todo = rest /\ w.at = walk.at /\ w.visited = walk.visited /\ w.found = F
  <2> DEFINE K == Seq(Colleague \cup {Missing})
             R == DeptRows \cup {Missing}
             D == Dept \cup {Missing}
             L == 0..MaxLevels
  <2>1. rest \in K
    BY <1>3 DEF S
  <2>2. walk \in [question : Question, at : D, row : R, depth : L, visited : SUBSET Dept, todo : K, found : SUBSET Colleague,
                phase : {"asked", "enter", "test", "done"}]
    BY <1>1 DEF ApproversTypeOK
  <2> HIDE DEF K, R, D, L
  <2>3. w \in [question : Question, at : D, row : R, depth : L, visited : SUBSET Dept, todo : K, found : SUBSET Colleague,
                phase : {"asked", "enter", "test", "done"}]
    BY <2>1, <2>2
  <2>4. w \in Walks
    BY <2>3 DEF Walks, K, R, D, L
  <2> QED
    BY <2>2, <2>4
<1> HIDE DEF w
<1>5. walk' = w /\ Asked' = Asked
  BY <1>4 DEF w, rest, Asked, Tried
<1>6. ApproversTypeOK'
  BY <1>1, <1>4, <1>5, WalkKeepsTypes
<1>7. Heard'
  <2>1. \A i \in DOMAIN rest : rest[i] \in past.led
    BY <1>1, <1>3 DEF Heard, CacheIsHeard
  <2> QED
    BY <1>1, <1>4, <1>5, <2>1 DEF Heard, CacheIsHeard
<1>8. Placed'
  BY <1>1, <1>4, <1>5 DEF Placed
<1>9. AtRestInv'
  <2> SUFFICES ASSUME changes = 0 PROVE Remembered' /\ Entering' /\ Inside' /\ Trying'
    BY DEF AtRestInv
  <2>1. Entering'
    BY <1>4, <1>5 DEF Entering
  <2>2. /\ (Climbs' <=> Climbs) /\ (TakesAll' <=> TakesAll) /\ (ChecksVisited' <=> ChecksVisited)
        /\ \A m : Higher(m)' = Higher(m)
        /\ \A d : DeptRow(d)' = DeptRow(d)
        /\ \A u : (Skip(u)' <=> Skip(u)) /\ (MayBeAsked(u)' <=> MayBeAsked(u))
        /\ \A m : Passed(m)' <=> Passed(m)
        /\ HeadsOver' = HeadsOver /\ Over' = Over
    BY <1>4, <1>5, SameChart
  <2>3. /\ walk'.depth = walk.depth /\ walk'.at = walk.at /\ walk'.row = walk.row /\ walk'.visited = walk.visited
        /\ walk'.todo = rest /\ walk'.found = F /\ dir' = dir
    BY <1>4, <1>5
  <2>4. Inside'
    <3> SUFFICES ASSUME Asked.kind # "deputyAbove" PROVE Inside'
      BY <1>5 DEF Inside
    <3>1. /\ OnItsWay /\ walk.visited = { Higher(m) : m \in 0..walk.depth }
          /\ walk.at \notin dir.gone /\ walk.row = DeptRow(walk.at)
          /\ ChecksVisited => \A k \in 0..(walk.depth - 1) : Higher(k) # walk.at
      BY <1>1 DEF AtRestInv, Inside
    <3>2. PICK m : m = walk.depth
      OBVIOUS
    <3>3. Passed(m)' /\ Higher(m)' = walk.at /\ walk'.depth = m
      BY <2>2, <2>3, <3>1, <3>2 DEF OnItsWay
    <3>4. OnItsWay'
      BY <2>2, <2>3, <3>1, <3>2, <3>3 DEF OnItsWay
    <3>5. { Higher(k)' : k \in 0..walk'.depth } = { Higher(k) : k \in 0..walk'.depth }
      BY <2>2
    <3>6. PICK d : d = walk.at
      OBVIOUS
    <3>7. DeptRow(d)' = DeptRow(walk.at) /\ walk'.at = d
      BY <2>2, <2>3, <3>6
    <3> QED
      BY <2>2, <2>3, <3>1, <3>4, <3>5, <3>6, <3>7 DEF Inside
  <2>5. Suitable' = Suitable
    <3>1. \A u : Fit(u, walk.at, walk.depth = 0)' <=> Fit(u, walk.at, walk.depth = 0)
      BY <1>5, <2>2, <2>3 DEF Fit
    <3> QED
      BY <1>5, <2>2, <3>1 DEF Suitable
  <2>6. Trying
    BY <1>1 DEF AtRestInv
  <2>7. (\A i \in DOMAIN walk.todo : ~Skip(walk.todo[i]) /\ walk.todo[i] \in dir.active => walk.todo[i] \in Suitable)'
    <3>1. \A i \in 1..(n - 1) : ~Skip(rest[i]) /\ rest[i] \in dir.active => rest[i] \in Suitable
      <4> SUFFICES ASSUME NEW i \in 1..(n - 1), ~Skip(rest[i]), rest[i] \in dir.active PROVE rest[i] \in Suitable
        OBVIOUS
      <4>1. rest[i] = walk.todo[i + 1] /\ i + 1 \in DOMAIN walk.todo
        BY <1>3
      <4> QED
        BY <2>6, <4>1 DEF Trying
    <3> QED
      BY <1>3, <1>5, <2>3, <2>5, <3>1 DEF Skip
  <2>8. \A u \in Suitable : u = first => u \in F
    BY <1>1, SuitableMay DEF first, FirstMay, Growing
  <2>9. (\A u \in Suitable : u \in walk.found \/ \E i \in DOMAIN walk.todo : walk.todo[i] = u)'
    <3> SUFFICES ASSUME NEW u \in Suitable PROVE u \in F \/ \E i \in 1..(n - 1) : rest[i] = u
      BY <1>3, <2>3, <2>5
    <3>1. walk.found \subseteq F
      BY DEF Growing
    <3>2. u \in walk.found \/ \E i \in 1..n : walk.todo[i] = u
      BY <1>3, <2>6 DEF Trying
    <3>3. ASSUME NEW i \in 1..n, walk.todo[i] = u, i # 1 PROVE i - 1 \in 1..(n - 1) /\ rest[i - 1] = u
      <4>1. i - 1 \in 1..(n - 1) /\ i - 1 + 1 = i
        BY <1>3, <3>3
      <4>2. rest[i - 1] = walk.todo[i - 1 + 1]
        BY <1>3, <4>1
      <4> QED
        BY <3>3, <4>1, <4>2
    <3> QED
      BY <1>3, <2>8, <3>1, <3>2, <3>3
  <2>10. \A u \in Suitable : ~Preferred(u)
    <3> SUFFICES ASSUME NEW u \in Suitable, Preferred(u) PROVE FALSE
      OBVIOUS
    <3>1. walk.todo[1] = u
      BY <2>6 DEF Trying
    <3>2. ~TakesAll
      BY DEF Preferred, TakesAll
    <3>3. ~Skip(u) /\ u \in dir.active
      BY <1>1, SuitableMay
    <3> QED
      BY <1>3, <3>1, <3>2, <3>3 DEF first, FirstMay
  <2>11. \A u : Preferred(u)' <=> Preferred(u)
    BY <1>5, <2>2, <2>3 DEF Preferred
  <2>12. F \subseteq Suitable /\ (~TakesAll => F = {})
    <3>1. walk.found \subseteq Suitable /\ (~TakesAll => walk.found = {})
      BY <2>6 DEF Trying
    <3>2. ~Skip(first) /\ first \in dir.active => first \in Suitable
      BY <1>3, <2>6 DEF Trying
    <3> QED
      BY <3>1, <3>2 DEF first, FirstMay, Growing
  <2>13. (\A u \in Suitable : Preferred(u) => walk.todo # <<>> /\ walk.todo[1] = u)'
    BY <2>5, <2>10, <2>11
  <2>14. Trying'
    BY <2>2, <2>3, <2>5, <2>7, <2>9, <2>12, <2>13 DEF Trying
  <2> QED
    BY <2>1, <2>4, <2>14
<1>10. TheRightOnesAreAsked'
  BY <1>4, <1>5 DEF TheRightOnesAreAsked
<1> QED
  BY <1>6, <1>7, <1>8, <1>9, <1>10 DEF ApproversInv

(* The first choice who may be asked is the one to ask                        *)
LEMMA FirstChoice ==
  ASSUME ApproversAssumption, ApproversInv, changes = 0, walk.phase = "test", walk.todo # <<>>, ~TakesAll,
         NEW u, u = Head(walk.todo), ~Skip(u), u \in dir.active,
         dir' = dir, walk'.question = walk.question, walk'.found = {u}
  PROVE  IF Asked.kind = "deputyAbove" THEN OneOverHim' ELSE NearestOnes'
<1>1. ApproversTypeOK /\ Placed /\ Trying /\ Inside
  BY DEF ApproversInv, AtRestInv
<1>2. walk.todo \in Seq(Colleague \cup {Missing}) /\ walk.depth \in 0..MaxLevels
  BY <1>1, WalkTypes
<1>3. u = walk.todo[1] /\ 1 \in DOMAIN walk.todo
  BY <1>2
<1>4. u \in Suitable /\ \A v \in Suitable : Preferred(v) => v = u
  BY <1>1, <1>3 DEF Trying
<1>5. CASE Asked.kind = "deputyAbove"
  <2>1. Suitable = { v \in HeadsOver : MayBeAsked(v) }
    BY <1>5 DEF Suitable
  <2>2. HeadsOver' = HeadsOver /\ Over' = Over /\ Asked' = Asked /\ \A v : MayBeAsked(v)' <=> MayBeAsked(v)
    BY SameChart
  <2>3. Cardinality({u}) = 1
    BY FS_Singleton
  <2> DEFINE own == dir.home[Asked.who]
  <2>4. ASSUME own # Missing, own \notin dir.gone, dir.deputy[own] = Asked.who, dir.head[own] \in Suitable
        PROVE  u = dir.head[own]
    <3>1. own \in Dept
      BY <1>1, <1>5, <2>4, SearchTypes
    <3>2. own \in Over
      BY <2>4, <3>1 DEF Over
    <3> QED
      BY <1>4, <1>5, <2>4, <3>2 DEF Preferred
  <2>5. OneOverHim'
    <3>1. { v \in HeadsOver : MayBeAsked(v) }' = Suitable
      BY <2>1, <2>2
    <3> HIDE DEF own
    <3>2. own' = own
      BY <2>2 DEF own
    <3>3. own # Missing /\ own \notin dir.gone /\ dir.deputy[own] = Asked.who /\ dir.head[own] \in Suitable => {u} = {dir.head[own]}
      BY <2>4
    <3> QED
      BY <1>4, <2>2, <2>3, <3>1, <3>2, <3>3 DEF OneOverHim, own
  <2> QED
    BY <1>5, <2>5
<1>6. CASE Asked.kind # "deputyAbove"
  <2> DEFINE d == walk.at
  <2> PICK n : n = walk.depth
    OBVIOUS
  <2> DEFINE own == n = 0
  <2>1. /\ Passed(n) /\ d = Higher(n) /\ (~Climbs => n = 0) /\ d \in Dept /\ d # Missing /\ d \notin dir.gone /\ n \in 0..(MaxLevels - 1)
        /\ ChecksVisited => \A k \in 0..(n - 1) : Higher(k) # Higher(n)
    BY <1>1, <1>2, <1>6 DEF Placed, Inside, OnItsWay, ApproversAssumption
  <2>2. Suitable = { v \in Colleague : Fit(v, d, own) } /\ u \in Colleague /\ Fit(u, d, own)
    BY <1>4, <1>6 DEF Suitable
  <2>3. n \in Levels
    <3>1. Fit(u, Higher(n), n = 0) /\ Higher(n) # Missing /\ Higher(n) \notin dir.gone
      BY <2>1, <2>2
    <3> QED
      BY <1>1, <2>1, <3>1, TheWayIsStraight
  <2>4. \A m \in 0..(n - 1) : With(m) = {}
    BY <2>1, WithIs DEF Passed
  <2>5. With(n) = {u}
    <3>1. With(n) = { v \in Colleague : GoesFirst(v, d, own) }
      BY <2>1 DEF With
    <3>2. \A v : Fit(v, d, own) => v \in Colleague /\ v \in {dir.head[d], dir.deputy[d]}
      <4>1. own \in BOOLEAN
        OBVIOUS
      <4> QED
        BY <1>1, <4>1, FitIs
    <3>3. Fit(dir.deputy[d], d, own) => u = dir.deputy[d]
      BY <1>4, <1>6, <2>2, <3>2 DEF Preferred
    <3>4. Asked.kind # "leaderAny"
      BY DEF TakesAll
    <3> HIDE DEF d, own
    <3>5. \A v : GoesFirst(v, d, own) <=> v = u
      BY <2>2, <3>2, <3>3, <3>4 DEF GoesFirst
    <3> QED
      BY <2>2, <3>1, <3>5
  <2>6. Levels' = Levels /\ \A m : With(m)' = With(m)
    BY SameChart
  <2>7. NearestOnes'
    <3> HIDE DEF d, own
    <3>1. n \in Levels' /\ {u} = With(n)' /\ \A m \in 0..(n - 1) : With(m)' = {}
      BY <2>3, <2>4, <2>5, <2>6
    <3> QED
      BY <3>1 DEF NearestOnes
  <2> QED
    BY <1>6, <2>7
<1> QED
  BY <1>5, <1>6

LEMMA TestOK ==
  ASSUME ApproversAssumption, ApproversInv, Test
  PROVE  ApproversInv'
<1>1. walk.phase = "test" /\ walk.todo # <<>> /\ UNCHANGED <<dir, past, changes>>
  BY DEF Test
<1>2. ApproversTypeOK /\ Heard /\ Placed /\ AtRestInv
  BY DEF ApproversInv
<1>3. /\ walk.todo \in Seq(Colleague \cup {Missing}) /\ walk.found \subseteq Colleague
      /\ walk.found \subseteq past.active \cap past.led /\ walk.found \cap Asked.except = {}
  BY <1>2, WalkTypes DEF Heard, CacheIsHeard
<1> DEFINE u == Head(walk.todo)
           known == u \in DOMAIN cache.user
           works == IF known THEN cache.user[u] ELSE u \in dir.active
<1>4. u \in Colleague \cup {Missing} /\ u \in past.led
  <2>1. u = walk.todo[1] /\ 1 \in DOMAIN walk.todo /\ walk.todo[1] \in Colleague \cup {Missing}
    BY <1>1, <1>3
  <2> QED
    BY <1>2, <2>1 DEF Heard, CacheIsHeard
<1>5. works \in BOOLEAN /\ (works => u \in past.active) /\ (changes = 0 => (works <=> u \in dir.active))
  <2>1. CASE known
    BY <1>2, <2>1 DEF ApproversTypeOK, Heard, CacheIsHeard, AtRestInv, Remembered
  <2>2. CASE ~known
    BY <1>2, <2>2 DEF Heard, CacheIsHeard
  <2> QED
    BY <2>1, <2>2
<1>6. Skip(u) => walk' = [walk EXCEPT !.todo = Tail(@)] /\ cache' = cache
  BY DEF Test
<1>7. ~Skip(u) =>
        /\ cache' = [cache EXCEPT !.user = [v \in DOMAIN @ \cup {u} |-> IF v = u THEN works ELSE @[v]]]
        /\ IF works /\ ~TakesAll THEN Done({u})
           ELSE walk' = [walk EXCEPT !.todo = Tail(@), !.found = IF works THEN @ \cup {u} ELSE @]
  BY DEF Test
<1> HIDE DEF works, known
<1>8. changes = 0 => Remembered
  BY <1>2 DEF AtRestInv
<1>9. CASE Skip(u)
  <2>1. Tried(walk.found) /\ walk'.question = walk.question
    <3>1. walk \in Walks
      BY <1>2 DEF ApproversTypeOK, Walks
    <3>2. DOMAIN walk = {"question", "at", "row", "depth", "visited", "todo", "found", "phase"}
      BY <3>1 DEF Walks
    <3> QED
      BY <1>6, <1>9, <3>2 DEF Tried
  <2>2. CacheIsHeard'
    BY <1>1, <1>2, <1>6, <1>9 DEF Heard, CacheIsHeard
  <2>3. changes = 0 => Remembered'
    BY <1>1, <1>6, <1>8, <1>9, <2>1, SameChart DEF Remembered
  <2>4. CacheTypes'
    BY <1>2, <1>6, <1>9, CacheKept
  <2>5. ~FirstMay /\ walk.found = Growing
    BY <1>9 DEF FirstMay, Growing
  <2> HIDE DEF u
  <2> QED
    BY <1>1, <1>3, <2>1, <2>2, <2>3, <2>4, <2>5, TriedOK
<1>10. CASE ~Skip(u)
  <2>1. u \in Colleague /\ u \notin Asked.except
    BY <1>4, <1>10 DEF Skip
  <2>2. /\ cache'.dept = cache.dept /\ DOMAIN cache'.user = DOMAIN cache.user \cup {u} /\ cache'.user[u] = works
        /\ \A v \in DOMAIN cache.user \ {u} : cache'.user[v] = cache.user[v]
        /\ CacheTypes'
    BY <1>2, <1>5, <1>7, <1>10, <2>1, UserCached
  <2>3. CacheIsHeard'
    BY <1>1, <1>2, <1>5, <2>2 DEF Heard, CacheIsHeard
  <2>4. walk'.question = walk.question => (changes = 0 => Remembered')
    <3> SUFFICES ASSUME walk'.question = walk.question, changes = 0 PROVE Remembered'
      OBVIOUS
    <3>1. \A d : DeptRow(d)' = DeptRow(d)
      BY <1>1, SameChart
    <3>2. \A d \in DOMAIN cache'.dept : cache'.dept[d] = DeptRow(d)'
      BY <1>8, <2>2, <3>1 DEF Remembered
    <3>3. \A v \in DOMAIN cache'.user : cache'.user[v] <=> v \in dir'.active
      BY <1>1, <1>5, <1>8, <2>2 DEF Remembered
    <3> QED
      BY <3>2, <3>3 DEF Remembered
  <2>5. CASE works /\ ~TakesAll
    <3>1. Done({u})
      BY <1>7, <1>10, <2>5
    <3>2. walk'.question = walk.question /\ walk'.found = {u}
      BY <1>2, <3>1 DEF Done, ApproversTypeOK
    <3>3. {u} \subseteq past.active \cap past.led /\ {u} \subseteq Colleague /\ {u} \cap Asked.except = {}
      BY <1>4, <1>5, <2>1, <2>5
    <3>4. changes = 0 => Remembered'
      BY <2>4, <3>2
    <3>5. changes = 0 => IF Asked.kind = "deputyAbove" THEN OneOverHim' ELSE NearestOnes'
      BY <1>1, <1>5, <1>10, <2>5, <3>2, FirstChoice
    <3> QED
      BY <1>1, <2>2, <2>3, <3>1, <3>3, <3>4, <3>5, DoneOK
  <2>6. CASE ~(works /\ ~TakesAll)
    <3> DEFINE F == IF works THEN walk.found \cup {u} ELSE walk.found
    <3>1. Tried(F)
      BY <1>7, <1>10, <2>6 DEF Tried
    <3>2. F \subseteq past.active \cap past.led /\ F \subseteq Colleague /\ F \cap Asked.except = {}
      BY <1>3, <1>4, <1>5, <2>1
    <3>3. changes = 0 => F = Growing
      BY <1>5, <1>10 DEF Growing, FirstMay
    <3>4. changes = 0 => TakesAll \/ ~FirstMay
      BY <1>5, <2>6 DEF FirstMay
    <3> HIDE DEF F
    <3>5. walk'.question = walk.question
      BY <1>2, <3>1 DEF ApproversTypeOK, Tried
    <3>6. changes = 0 => Remembered'
      BY <2>4, <3>5
    <3> QED
      BY <1>1, <2>2, <2>3, <3>1, <3>2, <3>3, <3>4, <3>6, TriedOK
  <2> QED
    BY <2>5, <2>6
<1> QED
  BY <1>9, <1>10

LEMMA GoUpOK ==
  ASSUME ApproversAssumption, ApproversInv, GoUp
  PROVE  ApproversInv'
<1>1. walk.phase = "test" /\ walk.todo = <<>> /\ UNCHANGED <<dir, cache, past, changes>>
  BY DEF GoUp
<1>2. ApproversTypeOK /\ Heard /\ Placed /\ AtRestInv
  BY DEF ApproversInv
<1>3. /\ walk.found \subseteq Colleague /\ walk.found \subseteq past.active \cap past.led /\ walk.found \cap Asked.except = {}
      /\ walk.depth \in 0..(MaxLevels - 1) /\ MaxLevels \in Nat
  BY <1>1, <1>2, WalkTypes DEF Heard, CacheIsHeard, Placed, ApproversAssumption
<1>4. changes = 0 => Remembered /\ Suitable = walk.found /\ (~TakesAll => walk.found = {}) /\ Inside
  <2> SUFFICES ASSUME changes = 0 PROVE Suitable = walk.found /\ (~TakesAll => walk.found = {})
    BY <1>2 DEF AtRestInv
  <2>1. DOMAIN walk.todo = {}
    BY <1>1
  <2> QED
    BY <1>1, <1>2, <2>1 DEF AtRestInv, Trying
<1>5. CacheTypes'
  BY <1>1, <1>2, CacheKept
<1>6. CacheIsHeard'
  BY <1>1, <1>2 DEF Heard, CacheIsHeard
(* In the department just left: everybody who may be asked is found           *)
<1>7. ASSUME changes = 0, Asked.kind # "deputyAbove"
      PROVE  /\ Passed(walk.depth) /\ walk.at = Higher(walk.depth) /\ walk.at \in Dept /\ walk.at \notin dir.gone
             /\ (~Climbs => walk.depth = 0) /\ walk.row = DeptRow(walk.at)
             /\ ChecksVisited => \A k \in 0..(walk.depth - 1) : Higher(k) # Higher(walk.depth)
             /\ walk.found = { u \in Colleague : Fit(u, Higher(walk.depth), walk.depth = 0) }
             /\ walk.visited = { Higher(m) : m \in 0..walk.depth }
  <2>1. /\ Passed(walk.depth) /\ walk.at = Higher(walk.depth) /\ walk.at \in Dept /\ walk.at \notin dir.gone
        /\ (~Climbs => walk.depth = 0) /\ walk.row = DeptRow(walk.at)
        /\ ChecksVisited => \A k \in 0..(walk.depth - 1) : Higher(k) # walk.at
        /\ walk.visited = { Higher(m) : m \in 0..walk.depth }
    BY <1>1, <1>2, <1>4, <1>7 DEF Inside, OnItsWay, Placed
  <2>2. walk.found = { u \in Colleague : Fit(u, walk.at, walk.depth = 0) }
    BY <1>4, <1>7 DEF Suitable
  <2> QED
    BY <2>1, <2>2
<1>8. ASSUME changes = 0, Asked.kind # "deputyAbove", walk.found = {} PROVE Passed(walk.depth + 1)
  <2> PICK n : n = walk.depth + 1
    OBVIOUS
  <2>0. n - 1 = walk.depth
    BY <1>3
  <2> SUFFICES Passed(n)
    OBVIOUS
  <2> SUFFICES ASSUME NEW m \in 0..(n - 1)
               PROVE  /\ Higher(m) # Missing /\ Higher(m) \notin dir.gone
                      /\ \A u \in Colleague : ~Fit(u, Higher(m), m = 0)
                      /\ ChecksVisited => \A k \in 0..(m - 1) : Higher(k) # Higher(m)
    BY DEF Passed
  <2>1. CASE m = walk.depth
    <3>1. Missing \notin Dept
      BY DEF ApproversAssumption
    <3> QED
      BY <1>7, <1>8, <2>1, <3>1
  <2>2. CASE m # walk.depth
    <3>1. m \in 0..(walk.depth - 1)
      BY <1>3, <2>0, <2>2
    <3> QED
      BY <1>7, <1>8, <3>1 DEF Passed
  <2> QED
    BY <2>1, <2>2
<1>9. CASE walk.found # {} \/ ~Climbs \/ walk.row = Missing
  <2>1. Done(walk.found)
    BY <1>1, <1>9 DEF GoUp
  <2>2. walk'.question = walk.question /\ walk'.found = walk.found
    BY <1>2, <2>1 DEF Done, ApproversTypeOK
  <2>3. changes = 0 => Remembered'
    BY <1>1, <1>4, <2>2, SameChart DEF Remembered
  <2>4. ASSUME changes = 0, Asked.kind = "deputyAbove" PROVE OneOverHim'
    <3>1. walk.found = {} /\ Suitable = { u \in HeadsOver : MayBeAsked(u) }
      BY <1>4, <2>4 DEF TakesAll, Suitable
    <3>2. HeadsOver' = HeadsOver /\ Asked' = Asked /\ \A v : MayBeAsked(v)' <=> MayBeAsked(v)
      BY <1>1, <2>2, SameChart
    <3>3. { v \in HeadsOver : MayBeAsked(v) }' = {}
      BY <1>4, <2>4, <3>1, <3>2
    <3>4. Cardinality({}) = 0
      BY FS_EmptySet
    <3> QED
      BY <2>2, <3>1, <3>3, <3>4 DEF OneOverHim
  <2>5. ASSUME changes = 0, Asked.kind # "deputyAbove" PROVE NearestOnes'
    <3>1. Levels' = Levels /\ \A m : With(m)' = With(m)
      BY <1>1, <2>2, SameChart
    <3>2. CASE walk.found = {}
      <4>1. ~Climbs
        <5>1. walk.row # Missing
          BY <1>1, <1>2, <2>5 DEF Placed
        <5> QED
          BY <1>9, <3>2, <5>1
      <4>2. walk.depth = 0 /\ walk.depth + 1 = 1 /\ walk.depth + 1 \in 0..MaxLevels
        BY <1>3, <1>7, <2>5, <4>1
      <4>3. \A k \in Levels : With(k) = {}
        BY <1>2, <1>8, <2>5, <3>2, <4>1, <4>2, TheWayEnds
      <4> QED
        BY <2>2, <3>1, <3>2, <4>3 DEF NearestOnes
    <3>3. CASE walk.found # {}
      <4>1. PICK n : n = walk.depth
        OBVIOUS
      <4>2. n \in Levels
        <5>1. PICK u \in walk.found : TRUE
          BY <3>3
        <5>2. Fit(u, Higher(n), n = 0) /\ Higher(n) # Missing /\ Higher(n) \notin dir.gone
          BY <1>7, <2>5, <4>1, <5>1 DEF ApproversAssumption
        <5> QED
          BY <1>2, <1>3, <1>7, <2>5, <4>1, <5>2, TheWayIsStraight
      <4>3. TakesAll
        BY <1>4, <2>5, <3>3
      <4>4. With(n) = walk.found
        <5>1. With(n) = { u \in Colleague : Fit(u, Higher(n), n = 0) }
          BY <4>3 DEF With, GoesFirst, TakesAll
        <5> QED
          BY <1>7, <2>5, <4>1, <5>1
      <4>5. \A m \in 0..(n - 1) : With(m) = {}
        BY <1>7, <2>5, <4>1, WithIs DEF Passed
      <4>6. n \in Levels' /\ walk'.found = With(n)' /\ walk'.found # {} /\ \A m \in 0..(n - 1) : With(m)' = {}
        BY <2>2, <3>1, <3>3, <4>2, <4>4, <4>5
      <4> QED
        BY <4>6 DEF NearestOnes
    <3> QED
      BY <3>2, <3>3
  <2> QED
    BY <1>1, <1>3, <1>5, <1>6, <2>1, <2>3, <2>4, <2>5, DoneOK
<1>10. CASE ~(walk.found # {} \/ ~Climbs \/ walk.row = Missing)
  <2> DEFINE w == [walk EXCEPT !.phase = "enter", !.at = walk.row.parent, !.depth = walk.depth + 1]
  <2>1. walk' = w
    BY <1>1, <1>10 DEF GoUp
  <2>2. walk.found = {} /\ Climbs /\ walk.row # Missing /\ Asked.kind # "deputyAbove"
    BY <1>1, <1>2, <1>10 DEF Placed
  <2>3. walk.row.parent \in Dept \cup {Missing} /\ walk.depth + 1 \in 0..MaxLevels
    <3>1. walk.row \in DeptRows
      BY <1>2, <2>2, WalkTypes
    <3> QED
      BY <1>3, <3>1 DEF DeptRows
  <2>4. /\ w \in Walks /\ w.phase = "enter" /\ w.question = walk.question /\ w.depth = walk.depth + 1 /\ w.found = {}
        /\ w.todo = walk.todo /\ w.at = walk.row.parent /\ w.visited = walk.visited
    <3> DEFINE K == Seq(Colleague \cup {Missing})
               R == DeptRows \cup {Missing}
               D == Dept \cup {Missing}
               L == 0..MaxLevels
    <3>1. walk.row.parent \in D /\ walk.depth + 1 \in L
      BY <2>3
    <3>2. walk \in [question : Question, at : D, row : R, depth : L, visited : SUBSET Dept, todo : K, found : SUBSET Colleague,
                  phase : {"asked", "enter", "test", "done"}]
      BY <1>2 DEF ApproversTypeOK
    <3> HIDE DEF K, R, D, L
    <3>3. w \in [question : Question, at : D, row : R, depth : L, visited : SUBSET Dept, todo : K, found : SUBSET Colleague,
                  phase : {"asked", "enter", "test", "done"}]
      BY <3>1, <3>2
    <3>4. w \in Walks
      BY <3>3 DEF Walks, K, R, D, L
    <3> QED
      BY <2>2, <3>2, <3>4
  <2> HIDE DEF w
  <2>5. Asked' = Asked
    BY <2>1, <2>4 DEF Asked
  <2>6. ApproversTypeOK'
    BY <1>1, <1>2, <1>5, <2>1, <2>4, WalkKeepsTypes
  <2>7. Heard'
    BY <1>1, <1>2, <2>1, <2>4, <2>5 DEF Heard, CacheIsHeard
  <2>8. Placed'
    BY <2>1, <2>2, <2>4, <2>5 DEF Placed
  <2>9. AtRestInv'
    <3> SUFFICES ASSUME changes = 0 PROVE Remembered' /\ Entering' /\ Inside' /\ Trying'
      BY <1>1 DEF AtRestInv
    <3>1. /\ (Climbs' <=> Climbs) /\ \A m : Higher(m)' = Higher(m)
          /\ \A d : DeptRow(d)' = DeptRow(d)
          /\ \A m : Passed(m)' <=> Passed(m)
      BY <1>1, <2>1, <2>4, SameChart
    <3>2. Remembered'
      BY <1>1, <1>4, <3>1 DEF Remembered
    <3>3. PICK n : n = walk.depth + 1
      OBVIOUS
    <3>4. Passed(n) /\ Higher(n) = walk.row.parent
      <4>1. Higher(walk.depth) = walk.at /\ walk.at \in Dept /\ walk.row = DeptRow(walk.at)
        BY <1>7, <2>2
      <4>2. Higher(walk.depth + 1) = dir.parent[walk.at]
        <5>1. Missing \notin Dept
          BY DEF ApproversAssumption
        <5> QED
          BY <1>2, <1>3, <4>1, <5>1, HigherIs
      <4>3. walk.row.parent = dir.parent[walk.at]
        BY <4>1 DEF DeptRow
      <4> QED
        BY <1>8, <2>2, <3>3, <4>2, <4>3
    <3>5. Passed(n)' /\ Higher(n)' = walk.row.parent /\ walk'.depth = n /\ walk'.at = walk.row.parent
      BY <2>1, <2>4, <3>1, <3>3, <3>4
    <3>6. OnItsWay'
      BY <2>2, <3>1, <3>5 DEF OnItsWay
    <3>7. walk'.visited = { Higher(m)' : m \in 0..(walk'.depth - 1) }
      <4>1. { Higher(m)' : m \in 0..(walk'.depth - 1) } = { Higher(m) : m \in 0..(walk'.depth - 1) }
        BY <3>1
      <4>2. walk'.depth - 1 = walk.depth
        BY <1>3, <3>3, <3>5
      <4> QED
        BY <1>7, <2>1, <2>2, <2>4, <4>1, <4>2
    <3> QED
      BY <2>1, <2>4, <3>2, <3>6, <3>7 DEF Entering, Inside, Trying
  <2>10. TheRightOnesAreAsked'
    BY <2>1, <2>4 DEF TheRightOnesAreAsked
  <2> QED
    BY <2>6, <2>7, <2>8, <2>9, <2>10 DEF ApproversInv
<1> QED
  BY <1>9, <1>10

(* What was true of the directory before a change is still remembered         *)
LEMMA ChangeOK ==
  ASSUME ApproversAssumption, ApproversInv, Change
  PROVE  ApproversInv'
<1>1. /\ walk.phase # "done" /\ walk' = walk /\ cache' = cache /\ changes' = changes + 1
      /\ past' = [active |-> past.active \cup dir'.active,
                  led |-> past.led \cup { dir'.head[d] : d \in Dept } \cup { dir'.deputy[d] : d \in Dept }]
  BY DEF Change
<1>2. ApproversTypeOK /\ Heard /\ Placed
  BY DEF ApproversInv
<1>3. /\ dir \in Charts /\ past \in [active : SUBSET Colleague, led : SUBSET (Colleague \cup {Missing})] /\ changes \in Nat
  BY <1>2 DEF ApproversTypeOK
<1>4. dir' \in Charts
  <2> DEFINE H == [Dept -> Colleague \cup {Missing}]
             P == [Dept -> Dept \cup {Missing}]
             W == [Colleague -> Dept \cup {Missing}]
  <2>1. dir \in [head : H, deputy : H, parent : P, gone : SUBSET Dept, home : W, active : SUBSET Colleague]
    BY <1>3 DEF Charts
  <2>2. \A f \in H, d \in Dept, u \in Colleague : [f EXCEPT ![d] = u] \in H
    OBVIOUS
  <2>3. \A f \in P, d \in Dept, e \in Dept : [f EXCEPT ![d] = e] \in P
    OBVIOUS
  <2> HIDE DEF H, P, W
  <2>4. CASE \E u \in Colleague : dir' = [dir EXCEPT !.active = IF u \in @ THEN @ \ {u} ELSE @ \cup {u}]
    <3>1. PICK u \in Colleague : dir' = [dir EXCEPT !.active = IF u \in @ THEN @ \ {u} ELSE @ \cup {u}]
      BY <2>4
    <3>2. PICK a \in SUBSET Colleague : dir' = [dir EXCEPT !.active = a]
      BY <2>1, <3>1
    <3> QED
      BY <2>1, <3>2 DEF Charts, H, P, W
  <2>5. CASE \E d \in Dept, u \in Colleague : dir' = [dir EXCEPT !.head[d] = u] \/ dir' = [dir EXCEPT !.deputy[d] = u]
    <3>1. PICK d \in Dept, u \in Colleague : dir' = [dir EXCEPT !.head[d] = u] \/ dir' = [dir EXCEPT !.deputy[d] = u]
      BY <2>5
    <3>2. PICK h \in H : dir' = [dir EXCEPT !.head = h] \/ dir' = [dir EXCEPT !.deputy = h]
      BY <2>1, <2>2, <3>1
    <3>3. dir' \in [head : H, deputy : H, parent : P, gone : SUBSET Dept, home : W, active : SUBSET Colleague]
      BY <2>1, <3>2
    <3> QED
      BY <3>3 DEF Charts, H, P, W
  <2>6. CASE \E d, e \in Dept : d # e /\ dir' = [dir EXCEPT !.parent[d] = e]
    <3>1. PICK d \in Dept, e \in Dept : dir' = [dir EXCEPT !.parent[d] = e]
      BY <2>6
    <3>2. PICK p \in P : dir' = [dir EXCEPT !.parent = p]
      BY <2>1, <2>3, <3>1
    <3>3. dir' \in [head : H, deputy : H, parent : P, gone : SUBSET Dept, home : W, active : SUBSET Colleague]
      BY <2>1, <3>2
    <3> QED
      BY <3>3 DEF Charts, H, P, W
  <2>7. CASE \E d \in Dept : dir' = [dir EXCEPT !.gone = @ \cup {d}]
    <3>1. PICK g \in SUBSET Dept : dir' = [dir EXCEPT !.gone = g]
      BY <2>1, <2>7
    <3>2. dir' \in [head : H, deputy : H, parent : P, gone : SUBSET Dept, home : W, active : SUBSET Colleague]
      BY <2>1, <3>1
    <3> QED
      BY <3>2 DEF Charts, H, P, W
  <2> QED
    BY <2>4, <2>5, <2>6, <2>7 DEF Change
<1>5. /\ dir'.active \subseteq Colleague
      /\ \A d \in Dept : dir'.head[d] \in Colleague \cup {Missing} /\ dir'.deputy[d] \in Colleague \cup {Missing}
  BY <1>4 DEF Charts
<1>6. past' \in [active : SUBSET Colleague, led : SUBSET (Colleague \cup {Missing})]
  BY <1>1, <1>3, <1>5
<1>7. ApproversTypeOK'
  BY <1>1, <1>2, <1>3, <1>4, <1>6 DEF ApproversTypeOK
<1>8. Asked' = Asked
  BY <1>1 DEF Asked
<1>9. /\ past.active \subseteq past'.active /\ past.led \subseteq past'.led /\ dir'.active \subseteq past'.active
      /\ \A d \in Dept : dir'.head[d] \in past'.led /\ dir'.deputy[d] \in past'.led
  BY <1>1
<1>10. Heard'
  BY <1>1, <1>2, <1>8, <1>9 DEF Heard, CacheIsHeard
<1>11. Placed'
  BY <1>1, <1>2, <1>8 DEF Placed
<1>12. AtRestInv'
  BY <1>1, <1>3 DEF AtRestInv
<1>13. TheRightOnesAreAsked'
  BY <1>1 DEF TheRightOnesAreAsked
<1> QED
  BY <1>7, <1>10, <1>11, <1>12, <1>13 DEF ApproversInv

LEMMA NothingSearched ==
  ASSUME ApproversAssumption, ApproversInv, UNCHANGED approverVars
  PROVE  ApproversInv'
<1>1. dir' = dir /\ walk' = walk /\ cache' = cache /\ past' = past /\ changes' = changes
  BY DEF approverVars
<1>2. ApproversTypeOK /\ Heard /\ Placed /\ AtRestInv /\ TheRightOnesAreAsked
  BY DEF ApproversInv
<1>3. /\ Asked' = Asked /\ (Climbs' <=> Climbs) /\ (TakesAll' <=> TakesAll) /\ (ChecksVisited' <=> ChecksVisited)
      /\ \A n : Higher(n)' = Higher(n)
      /\ \A d : DeptRow(d)' = DeptRow(d)
      /\ \A u : (Skip(u)' <=> Skip(u)) /\ (MayBeAsked(u)' <=> MayBeAsked(u))
      /\ Levels' = Levels /\ \A n : With(n)' = With(n)
      /\ \A n : Passed(n)' <=> Passed(n)
      /\ HeadsOver' = HeadsOver /\ Over' = Over
  BY <1>1, SameChart
<1>4. ApproversTypeOK'
  BY <1>1, <1>2 DEF ApproversTypeOK
<1>5. Heard' /\ Placed'
  BY <1>1, <1>2, <1>3 DEF Heard, CacheIsHeard, Placed
<1>6. AtRestInv'
  <2>1. Remembered' <=> Remembered
    BY <1>1, <1>3 DEF Remembered
  <2>2. (\A m : Higher(m)' = Higher(m)) /\ Asked' = Asked
    BY <1>3
  <2>3. OnItsWay' <=> OnItsWay
    BY <1>1, <2>2 DEF OnItsWay, Passed, Climbs, ChecksVisited, Fit, MayBeAsked
  <2>4. \A S : { Higher(m)' : m \in S } = { Higher(m) : m \in S }
    BY <2>2
  <2>5. Entering' <=> Entering
    BY <1>1, <2>3, <2>4 DEF Entering
  <2>6. Inside' <=> Inside
    BY <1>1, <2>2, <2>3, <2>4 DEF Inside, ChecksVisited, DeptRow
  <2>7. Suitable' = Suitable
    BY <1>1, <1>3 DEF Suitable, Fit
  <2>8. Trying' <=> Trying
    BY <1>1, <1>3, <2>7 DEF Trying, Preferred, Skip
  <2> QED
    BY <1>1, <1>2, <2>1, <2>5, <2>6, <2>8 DEF AtRestInv
<1>7. TheRightOnesAreAsked'
  BY <1>1, <1>2, <1>3 DEF TheRightOnesAreAsked, OneOverHim, NearestOnes
<1> QED
  BY <1>4, <1>5, <1>6, <1>7 DEF ApproversInv

LEMMA SearchGoesOn == ApproversAssumption /\ ApproversInv /\ [ApproversNext]_approverVars => ApproversInv'
<1> SUFFICES ASSUME ApproversAssumption, ApproversInv, [ApproversNext]_approverVars PROVE ApproversInv'
  OBVIOUS
<1>1. CASE Begin
  BY <1>1, BeginOK
<1>2. CASE BeginDeputy
  BY <1>2, BeginDeputyOK
<1>3. CASE Enter
  BY <1>3, EnterOK
<1>4. CASE Test
  BY <1>4, TestOK
<1>5. CASE GoUp
  BY <1>5, GoUpOK
<1>6. CASE Change
  BY <1>6, ChangeOK
<1>7. CASE UNCHANGED approverVars
  BY <1>7, NothingSearched
<1> QED
  BY <1>1, <1>2, <1>3, <1>4, <1>5, <1>6, <1>7 DEF ApproversNext

(* Whoever the engine asks was active and led a department since the question *)
(* was put, and is none of those who must not be asked; of a directory at rest *)
(* it finds the nearest leaders who may be asked, or for a deputy's late task *)
(* a head over him, his own first (resolve, escalationTarget,                 *)
(* deputyEscalationTarget) - whatever the tree, its depth and its cycles.     *)
THEOREM TheRightOnesAreFound == ApproversSpec => []TheRightOnesAreAsked
<1>1. ApproversInit => ApproversInv
  BY ApproversAssumption, SearchBegins
<1>2. ApproversInv /\ [ApproversNext]_approverVars => ApproversInv'
  BY ApproversAssumption, SearchGoesOn
<1>3. ApproversInv => TheRightOnesAreAsked
  BY DEF ApproversInv
<1> QED
  BY <1>1, <1>2, <1>3, PTL DEF ApproversSpec

=============================================================================
