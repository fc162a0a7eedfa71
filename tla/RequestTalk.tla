----------------------------- MODULE RequestTalk -----------------------------
(***************************************************************************)
(* Shares of a request and the comments on it.  Who may share or write is   *)
(* looked up before; the share itself is made under the lock of the request *)
(* and a comment without it, so that it need not wait for a signature: it   *)
(* reads what it replies to and is stored later, whatever happened between.  *)
(***************************************************************************)
EXTENDS Naturals, Sequences

CONSTANTS
  Writer, Group, Requester,
  MaxDepth,      \* MAX_COMMENT_DEPTH, 3 in the code
  MaxComments, MaxShares, MaxRound,  \* bounds
  Nil

ASSUME TalkAssumption ==
  /\ MaxDepth \in Nat \ {0}
  /\ MaxComments \in Nat /\ MaxShares \in Nat /\ MaxRound \in Nat
  /\ Nil \notin Nat \cup Writer

VARIABLES
  topic,      \* the request: status, round
  takers,     \* round and user: who takes part in the approval
  inGroup,    \* members of groups
  shares,     \* approval_shares rows
  comments,   \* approval_comments rows, by age
  lock,       \* who holds the lock of the request
  calls       \* the request of the API each user has under way

talkVars == <<topic, takers, inGroup, shares, comments, lock, calls>>

Rest == [op |-> "none"]
Shared == [principal : Writer \cup Group, deleted : BOOLEAN]
Comment == [author : Writer, parent : Nat \cup {Nil}, round : Nat, deleted : BOOLEAN, edited : BOOLEAN]
TalkCall ==
  {Rest} \cup [op : {"share"}, with : Writer \cup Group] \cup [op : {"unshare"}, share : Nat]
    \cup [op : {"sharing"}, with : Writer \cup Group, already : BOOLEAN]
    \cup [op : {"unsharing"}, share : Nat, already : BOOLEAN]
    \cup [op : {"comment"}, parent : Nat \cup {Nil}] \cup [op : {"writing"}, parent : Nat \cup {Nil}, round : Nat]
    \cup [op : {"edit", "remove"}, comment : Nat]

TalkTypeOK ==
  /\ topic \in [status : {"draft", "pending", "returned", "rejected", "approved", "cancelled"}, round : 0..MaxRound]
  /\ takers \subseteq (1..MaxRound) \X Writer
  /\ inGroup \in [Group -> SUBSET Writer]
  /\ shares \in Seq(Shared) /\ comments \in Seq(Comment)
  /\ lock \in Writer \cup {Nil}
  /\ calls \in [Writer -> TalkCall]

TakesPart(u) == \E r \in 1..MaxRound : <<r, u>> \in takers
Live(c) == c # Nil /\ ~comments[c].deleted

-----------------------------------------------------------------------------
(* Who may see, share and write (request-access.ts)                         *)

(* isRequestSharedWith: directly, or through a group one is in now           *)
SharedWith(u) ==
  \E i \in DOMAIN shares :
    ~shares[i].deleted /\ (shares[i].principal = u \/ (shares[i].principal \in Group /\ u \in inGroup[shares[i].principal]))

Involved(u) == u = Requester \/ TakesPart(u)
CanView(u) == Involved(u) \/ SharedWith(u)

CanShare(u) ==
  /\ topic.status # "draft"
  /\ u = Requester \/ (topic.status \notin {"returned", "rejected"} /\ <<topic.round, u>> \in takers)

-----------------------------------------------------------------------------
TalkInit ==
  /\ topic = [status |-> "draft", round |-> 0]
  /\ takers = {} /\ shares = <<>> /\ comments = <<>> /\ lock = Nil
  /\ inGroup = [g \in Group |-> {}]
  /\ calls = [u \in Writer |-> Rest]

Begins(u, what) ==
  /\ calls[u] = Rest
  /\ calls' = [calls EXCEPT ![u] = what]
  /\ UNCHANGED <<topic, takers, inGroup, shares, comments, lock>>

(* shareRequest, removeShare: assertCanShare                                *)
AskShare(u, p) == CanShare(u) /\ Begins(u, [op |-> "share", with |-> p])
AskUnshare(u, i) == CanShare(u) /\ Begins(u, [op |-> "unshare", share |-> i])

(* create: who may write, and whether everybody mentioned is there          *)
AskComment(u, parent, mentions) ==
  /\ topic.status # "draft" /\ Involved(u)
  /\ \A m \in mentions : CanView(m)
  /\ Begins(u, [op |-> "comment", parent |-> parent])

(* update, removeComment: one's own, not deleted                            *)
AskChange(u, c, how) == Live(c) /\ comments[c].author = u /\ Begins(u, [op |-> how, comment |-> c])

-----------------------------------------------------------------------------
(* The engine                                                               *)

StepsTo(u, next) == calls' = [calls EXCEPT ![u] = next]

(* share, unshare: the lock, then what there is already                     *)
LockRequest(u) ==
  /\ calls[u].op \in {"share", "unshare"} /\ lock = Nil
  /\ lock' = u
  /\ LET taken == { shares[i].principal : i \in { j \in DOMAIN shares : ~shares[j].deleted } } IN
     StepsTo(u, IF calls[u].op = "share" THEN [op |-> "sharing", with |-> calls[u].with, already |-> calls[u].with \in taken]
                ELSE [op |-> "unsharing", share |-> calls[u].share, already |-> shares[calls[u].share].deleted])
  /\ UNCHANGED <<topic, takers, inGroup, shares, comments>>

Share(u) ==
  /\ calls[u].op = "sharing"
  /\ shares' = IF calls[u].already THEN shares ELSE Append(shares, [principal |-> calls[u].with, deleted |-> FALSE])
  /\ lock' = Nil /\ StepsTo(u, Rest)
  /\ UNCHANGED <<topic, takers, inGroup, comments>>

Unshare(u) ==
  /\ calls[u].op = "unsharing"
  /\ shares' = IF calls[u].already THEN shares ELSE [shares EXCEPT ![calls[u].share].deleted = TRUE]
  /\ lock' = Nil /\ StepsTo(u, Rest)
  /\ UNCHANGED <<topic, takers, inGroup, comments>>

(* The level of a comment: how many are above it, and one                   *)
LevelOf(cs) ==
  LET level[c \in DOMAIN cs] == IF cs[c].parent = Nil THEN 1 ELSE level[cs[c].parent] + 1
  IN  level

MayBeAnsweredOnceMore(c) == LevelOf(comments)[c] <= MaxDepth
MayBeAnswered(c) == LevelOf(comments)[c] < MaxDepth

(* addComment reads the request and the comment it replies to ...           *)
ReadParent(u) ==
  /\ calls[u].op = "comment"
  /\ LET c == calls[u].parent IN
     IF c # Nil /\ (~Live(c) \/ ~MayBeAnswered(c)) THEN StepsTo(u, Rest)
     ELSE StepsTo(u, [op |-> "writing", parent |-> c, round |-> topic.round])
  /\ UNCHANGED <<topic, takers, inGroup, shares, comments, lock>>

(* ... and stores the reply                                                 *)
AddComment(u) ==
  /\ calls[u].op = "writing"
  /\ comments' = Append(comments, [author |-> u, parent |-> calls[u].parent, round |-> calls[u].round,
                                   deleted |-> FALSE, edited |-> FALSE])
  /\ StepsTo(u, Rest)
  /\ UNCHANGED <<topic, takers, inGroup, shares, lock>>

ChangeComment(u) ==
  /\ calls[u].op \in {"edit", "remove"}
  /\ comments' = IF calls[u].op = "edit" THEN [comments EXCEPT ![calls[u].comment].edited = TRUE]
                 ELSE [comments EXCEPT ![calls[u].comment].deleted = TRUE]
  /\ StepsTo(u, Rest)
  /\ UNCHANGED <<topic, takers, inGroup, shares, lock>>

(* What else becomes of the request, under its lock; see ApprovalEngine      *)
Becomes(status, round) ==
  /\ lock = Nil
  /\ topic' = [status |-> status, round |-> round]
  /\ UNCHANGED <<inGroup, shares, comments, lock, calls>>
Submit(u) ==
  /\ topic.status \in {"draft", "returned"} /\ topic.round < MaxRound
  /\ takers' = takers \cup {<<topic.round + 1, u>>}
  /\ Becomes("pending", topic.round + 1)
Decide(status) == topic.status = "pending" /\ Becomes(status, topic.round) /\ UNCHANGED takers
\* A draft, too, and what was returned; of what is pending only what nobody has approved a step of.
Cancel == topic.status \in {"draft", "returned", "pending"} /\ Becomes("cancelled", topic.round) /\ UNCHANGED takers

ChangeGroup(g, u) ==
  /\ inGroup' = [inGroup EXCEPT ![g] = IF u \in @ THEN @ \ {u} ELSE @ \cup {u}]
  /\ UNCHANGED <<topic, takers, shares, comments, lock, calls>>

-----------------------------------------------------------------------------
TalkNext ==
  \/ \E u \in Writer :
       \/ \E p \in Writer \cup Group : Len(shares) < MaxShares /\ AskShare(u, p)
       \/ \E i \in DOMAIN shares : AskUnshare(u, i)
       \/ \E parent \in DOMAIN comments \cup {Nil}, mentions \in {{}, Writer \ {u}} : AskComment(u, parent, mentions)
       \/ \E c \in DOMAIN comments, how \in {"edit", "remove"} : AskChange(u, c, how)
       \/ LockRequest(u) \/ Share(u) \/ Unshare(u)
       \/ ReadParent(u) \/ (Len(comments) < MaxComments /\ AddComment(u)) \/ ChangeComment(u)
       \/ Submit(u)
       \/ \E g \in Group : ChangeGroup(g, u)
  \/ \E status \in {"returned", "rejected", "approved"} : Decide(status)
  \/ Cancel

TalkSpec == TalkInit /\ [][TalkNext]_talkVars

-----------------------------------------------------------------------------
(* The comments on a page (list, buildCommentThreads)                       *)

(* The threads are read level by level, MaxDepth of them                    *)
Fetched == LET level == LevelOf(comments) IN { c \in DOMAIN comments : level[c] <= MaxDepth }

(* A deleted comment keeps its place while there is something below it; a    *)
(* thread begins with its first comment in any case                          *)
Places ==
  LET fetched == Fetched
      kept[n \in 0..MaxDepth] ==
        IF n = 0 THEN { c \in fetched : Live(c) }
        ELSE kept[n - 1] \cup { c \in fetched : \E r \in kept[n - 1] : comments[r].parent = c }
  IN  kept[MaxDepth] \cup { c \in fetched : comments[c].parent = Nil }

(* However replies, edits and deletions overlap, no comment gets lost: all    *)
(* that are not deleted have a place on the page and so has everything they   *)
(* reply to, of the deleted ones only what is replied to or begins a thread.  *)
(* A comment is of a round the request has reached, no earlier than that of   *)
(* what it replies to; of none at all only on a draft that was cancelled,      *)
(* which its requester may still write on, and which stays so.                *)
(* And nobody is told of one share twice: at most one to each stands.         *)
CancelledUnsent == topic.status = "cancelled" /\ topic.round = 0

TalkIsKept ==
  /\ LET places == Places IN
     \A c \in DOMAIN comments :
       LET above == comments[c].parent IN
       /\ Live(c) => c \in places
       /\ c \in places /\ above # Nil =>
            /\ above \in places /\ comments[above].round <= comments[c].round
            /\ Live(c) \/ \E r \in DOMAIN comments : comments[r].parent = c
       /\ comments[c].round <= topic.round /\ (comments[c].round = 0 => CancelledUnsent)
  /\ \A i, j \in DOMAIN shares :
       i # j /\ shares[i].principal = shares[j].principal => shares[i].deleted \/ shares[j].deleted
=============================================================================
