-------------------------- MODULE SigningCertificates --------------------------
(***************************************************************************)
(* The certificates of one person (SigningCertificateService): enrolled by   *)
(* the person, approved, rejected or revoked by administrators, and closed   *)
(* when UserService locks or removes the person.  The key lives at the       *)
(* e-signature service, which a call reaches before it saves its row; a row  *)
(* is read without a lock and has no version.                                *)
(***************************************************************************)
EXTENDS FiniteSets, Naturals, Sequences

CONSTANTS
  Call,
  MaxCertificates  \* bound on enrolments

VARIABLES
  certs,  \* the rows in the order of their creation, each with a key of its own, and
          \* whether it was enrolled beside an open one that had not expired
  keys,   \* the certificates whose key the service has
  made,   \* keys made so far
  active, \* the person's isActive
  call,
  cut,    \* an error, a crash or a failing service came between two steps
  crossed \* a row was saved after another call had changed what its own had read

certificateVars == <<certs, keys, made, active, call, cut, crossed>>

Resting == [op |-> "none"]

CertificatesInit ==
  /\ certs = <<>> /\ keys = {} /\ made = 0
  /\ active = TRUE
  /\ call = [c \in Call |-> Resting]
  /\ cut = FALSE /\ crossed = FALSE

Goes(c, to) == call' = [call EXCEPT ![c] = to]

Rows(states) == { k \in DOMAIN certs : certs[k].status \in states /\ ~certs[k].deleted }
Open == Rows({"pending", "active"})
Renewable(k) == certs[k].status = "active" /\ certs[k].expired
\* What a call saw of a row, and whether it is still so.
Saw(k) == [cert |-> k, status |-> certs[k].status, deleted |-> certs[k].deleted]
Unchanged(seen) == certs[seen.cert].status = seen.status /\ certs[seen.cert].deleted = seen.deleted

-----------------------------------------------------------------------------
(* enroll: a certificate that has expired may be followed by another.  Of    *)
(* those that are open findOne finds one, in no order, and only that one is   *)
(* looked at                                                                 *)

AskEnroll(c) ==
  /\ call[c] = Resting /\ active
  /\ Open = {} \/ \E found \in Open : Renewable(found)
  /\ made < MaxCertificates
  /\ Goes(c, [op |-> "enroll", open |-> { Saw(k) : k \in Open }])
  /\ UNCHANGED <<certs, keys, made, active, cut, crossed>>

\* createKey and setSignatureImage; a bad image takes the key with it
CreateKey(c) ==
  /\ call[c].op = "enroll" /\ made < MaxCertificates
  /\ \/ /\ made' = made + 1 /\ keys' = keys \cup {made + 1}
        /\ Goes(c, [op |-> "enrolled", open |-> call[c].open, key |-> made + 1])
     \/ /\ UNCHANGED <<made, keys>> /\ Goes(c, Resting)
  /\ UNCHANGED <<certs, active, cut, crossed>>

SaveEnrolled(c) ==
  /\ call[c].op = "enrolled"
  /\ certs' = Append(certs, [key |-> call[c].key, status |-> "pending", deleted |-> FALSE, expired |-> FALSE,
                             beside |-> \E k \in Open : ~Renewable(k)])
  /\ crossed' = (crossed \/ ~active \/ { Saw(k) : k \in Open } # call[c].open)
  /\ Goes(c, Resting)
  /\ UNCHANGED <<keys, made, active, cut>>

-----------------------------------------------------------------------------
(* approve: every other active certificate is closed, whatever its age       *)

UsableBesides(k) == { j \in Rows({"active"}) \ {k} : ~certs[j].expired }
ActiveBesides(k) == Rows({"active"}) \ {k}

AskApprove(c, k) ==
  /\ call[c] = Resting
  /\ k \in Rows({"pending"})
  /\ Goes(c, [op |-> "issue", seen |-> Saw(k)])
  /\ UNCHANGED <<certs, keys, made, active, cut, crossed>>

\* issueCertificate, and the others read after it
Issue(c) ==
  /\ call[c].op = "issue"
  /\ Goes(c, IF certs[call[c].seen.cert].key \in keys
             THEN [op |-> "approve", seen |-> call[c].seen,
                   others |-> { Saw(j) : j \in ActiveBesides(call[c].seen.cert) }]
             ELSE Resting)
  /\ UNCHANGED <<certs, keys, made, active, cut, crossed>>

SaveApproved(c) ==
  LET seen == call[c].seen
      others == { o.cert : o \in call[c].others }
  IN  /\ call[c].op = "approve"
      /\ certs' = [k \in DOMAIN certs |->
                     IF k = seen.cert THEN [certs[k] EXCEPT !.status = "active"]
                     ELSE IF k \in others THEN [certs[k] EXCEPT !.status = "revoked"] ELSE certs[k]]
      /\ crossed' = (crossed \/ ~active \/ \E s \in {seen} \cup call[c].others : ~Unchanged(s)
                       \/ others # ActiveBesides(seen.cert))
      /\ Goes(c, Resting)
      /\ UNCHANGED <<keys, made, active, cut>>

-----------------------------------------------------------------------------
(* cancelMine, reject, revoke: the key is destroyed, then the row is closed; *)
(* a key that is gone already counts as destroyed                            *)

Closing == [cancel |-> "pending", reject |-> "pending", revoke |-> "active"]

Closed(cert, op) ==
  CASE op = "cancel" -> [cert EXCEPT !.deleted = TRUE]
    [] op = "reject" -> [cert EXCEPT !.status = "rejected"]
    [] op = "revoke" -> [cert EXCEPT !.status = "revoked"]

AskClose(c, op, k) ==
  /\ call[c] = Resting
  /\ k \in Rows({Closing[op]})
  /\ Goes(c, [op |-> "destroy", as |-> op, seen |-> Saw(k)])
  /\ UNCHANGED <<certs, keys, made, active, cut, crossed>>

Destroy(c) ==
  /\ call[c].op = "destroy"
  /\ keys' = keys \ {certs[call[c].seen.cert].key}
  /\ Goes(c, [call[c] EXCEPT !.op = "close"])
  /\ UNCHANGED <<certs, made, active, cut, crossed>>

SaveClosed(c) ==
  LET seen == call[c].seen IN
  /\ call[c].op = "close"
  /\ certs' = [certs EXCEPT ![seen.cert] = Closed(@, call[c].as)]
  /\ crossed' = (crossed \/ ~Unchanged(seen))
  /\ Goes(c, Resting)
  /\ UNCHANGED <<keys, made, active, cut>>

-----------------------------------------------------------------------------
(* updateActive and remove save the person first, then revokeAllForUser      *)
(* closes what is open, one after another, though the service fails          *)

Lock(c) ==
  /\ call[c] = Resting /\ active
  /\ active' = FALSE
  /\ Goes(c, [op |-> "list"])
  /\ UNCHANGED <<certs, keys, made, cut, crossed>>

ListOpen(c) ==
  /\ call[c].op = "list"
  /\ Goes(c, [op |-> "sweep", seen |-> { Saw(k) : k \in Open }, left |-> Open])
  /\ UNCHANGED <<certs, keys, made, active, cut, crossed>>

SweepOne(c, k) ==
  /\ call[c].op = "sweep" /\ k \in call[c].left
  /\ \/ keys' = keys \ {certs[k].key} /\ cut' = cut
     \/ keys' = keys /\ cut' = TRUE
  /\ Goes(c, [call[c] EXCEPT !.left = @ \ {k}])
  /\ UNCHANGED <<certs, made, active, crossed>>

SaveSwept(c) ==
  LET seen == call[c].seen
      status == [k \in { s.cert : s \in seen } |-> (CHOOSE s \in seen : s.cert = k).status]
  IN  /\ call[c].op = "sweep" /\ call[c].left = {}
      /\ certs' = [k \in DOMAIN certs |->
                     IF k \in DOMAIN status
                     THEN [certs[k] EXCEPT !.status = IF status[k] = "active" THEN "revoked" ELSE "rejected"]
                     ELSE certs[k]]
      /\ crossed' = (crossed \/ Open # DOMAIN status \/ \E s \in seen : ~Unchanged(s))
      /\ Goes(c, Resting)
      /\ UNCHANGED <<keys, made, active, cut>>

-----------------------------------------------------------------------------
(* notAfter has passed                                                       *)
ExpireCertificate(k) ==
  /\ certs[k].status = "active" /\ ~certs[k].expired
  /\ certs' = [certs EXCEPT ![k].expired = TRUE]
  /\ UNCHANGED <<keys, made, active, call, cut, crossed>>

Cut(c) ==
  /\ call[c].op \notin {"none", "enroll", "issue", "approve"}
  /\ cut' = TRUE
  /\ Goes(c, Resting)
  /\ UNCHANGED <<certs, keys, made, active, crossed>>

CertificatesNext ==
  \/ \E k \in DOMAIN certs : ExpireCertificate(k)
  \/ \E c \in Call :
       \/ AskEnroll(c) \/ CreateKey(c) \/ SaveEnrolled(c)
       \/ Issue(c) \/ SaveApproved(c)
       \/ Destroy(c) \/ SaveClosed(c)
       \/ Lock(c) \/ ListOpen(c) \/ SaveSwept(c) \/ Cut(c)
       \/ \E k \in DOMAIN certs :
            AskApprove(c, k) \/ SweepOne(c, k) \/ \E op \in DOMAIN Closing : AskClose(c, op, k)

-----------------------------------------------------------------------------
(* What findOne finds when the person signs (activeCertificate) is the only   *)
(* certificate there is to find: at most one is active, an expired one         *)
(* included.  At most one is pending, next to an expired one alone, but for    *)
(* what was enrolled beside another: enroll looks at one open row, and if that *)
(* one has expired it goes on though another is pending.                       *)
(* Signing finds the key of a certificate that is active, unless a call is    *)
(* about to close it, and the service keeps no key of a certificate that was  *)
(* cancelled, rejected or revoked, unless another replaced it, a younger one   *)
(* if not enrolled side by side; when a person is locked, nothing is left open *)
(* once the sweep is over.  All but the count need that nothing was cut short, *)
(* and everything that no call saved over what another had changed meanwhile.  *)
InHand(k) == \E c \in Call : call[c].op \in {"close", "destroy"} /\ call[c].seen.cert = k
Sweeping == \E c \in Call : call[c].op \in {"list", "sweep"}
Alone(states) == { k \in Rows(states) : ~certs[k].beside }
Replaced(k) ==
  \E j \in DOMAIN certs \ {k} : certs[j].status \in {"active", "revoked"} /\ (j > k \/ certs[k].beside)

OneCertificateInUse ==
  ~crossed =>
    /\ Cardinality(Rows({"active"})) <= 1 /\ Cardinality(Alone({"pending"})) <= 1
    /\ \A p \in Alone({"pending"}), u \in Alone({"active"}) : certs[u].expired
    /\ ~cut =>
         /\ \A k \in Open : certs[k].key \in keys \/ InHand(k) \/ Sweeping
         /\ \A k \in DOMAIN certs \ Open : certs[k].key \in keys => Replaced(k)
         /\ ~active /\ ~Sweeping => Open = {}
=============================================================================
