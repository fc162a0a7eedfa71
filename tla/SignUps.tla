-------------------------------- MODULE SignUps --------------------------------
(***************************************************************************)
(* The two calls Supabase makes to the backend about one e-mail address:     *)
(* AuthService.signupHook before an account is created, accessTokenHook      *)
(* before a session gets a token, with AuthSessionService, which adds to the *)
(* log of a login where it came from.                                        *)
(*                                                                           *)
(* The user's row has the id of the account (authId) and the address         *)
(* (loginName), each unique.  The hook reads the row, writes what differs    *)
(* from what it read, and answers; Supabase creates the account afterwards,  *)
(* or never does.  Names, mail to the person and logs of changes are left    *)
(* out; so are methods whose login is logged elsewhere.                      *)
(***************************************************************************)
EXTENDS FiniteSets, Naturals

CONSTANTS
  Account,   \* the ids that Supabase gives to accounts of the address
  SignIn,    \* sessions that get a token
  MaxTries,  \* RETRY_DELAYS_MS.length
  Nobody

VARIABLES
  account,   \* the account of the address at Supabase, or Nobody
  user,      \* the user's row [authId, active, gone], or Nobody
  signUp,    \* account -> how far its creation is
  shown,     \* the sessions to be seen in auth.sessions
  login      \* session -> its login: how far, for whom, what the log says

signUpVars == <<account, user, signUp, shown, login>>

UserRow == [authId : Account, active : BOOLEAN, gone : BOOLEAN]

ASSUME SignUpsAssumption == Nobody \notin Account \cup UserRow

SignUpsTypeOK ==
  /\ account \in Account \cup {Nobody}
  /\ user \in UserRow \cup {Nobody}
  /\ signUp \in [Account ->
       [at : {"unasked", "read", "continue", "created", "refused"}, read : UserRow \cup {Nobody},
        overlapped : BOOLEAN, administered : BOOLEAN]]
  /\ shown \subseteq SignIn
  /\ login \in [SignIn ->
       [at : {"none", "found", "logging", "filling", "over"}, account : Account \cup {Nobody},
        logged : BOOLEAN, client : BOOLEAN, tries : Nat, cut : BOOLEAN]]

NotAsked == [at |-> "unasked", read |-> Nobody, overlapped |-> FALSE, administered |-> FALSE]
NoLogin == [at |-> "none", account |-> Nobody, logged |-> FALSE, client |-> FALSE, tries |-> 0, cut |-> FALSE]

SignUpsInit ==
  /\ account = Nobody
  /\ user = Nobody
  /\ signUp = [a \in Account |-> NotAsked]
  /\ shown = {}
  /\ login = [s \in SignIn |-> NoLogin]

Running(a) == signUp[a].at \in {"read", "continue"}

Goes(a, to) ==
  signUp' = [signUp EXCEPT ![a] = IF to = "refused" THEN [NotAsked EXCEPT !.at = to] ELSE [@ EXCEPT !.at = to, !.read = Nobody]]

-----------------------------------------------------------------------------
(* signupHook                                                                *)

\* An address without an account signs up; deleted rows are found as well.
\* Supabase asks once more when it got no answer.
ReadUser(a) ==
  /\ account = Nobody /\ signUp[a].at \in {"unasked", "continue"}
  /\ LET others == { b \in Account \ {a} : Running(b) } IN
     signUp' = [b \in Account |->
       IF b = a THEN [at |-> "read", read |-> user, overlapped |-> signUp[a].overlapped \/ others # {}, administered |-> FALSE]
       ELSE IF b \in others THEN [signUp[b] EXCEPT !.overlapped = TRUE] ELSE signUp[b]]
  /\ UNCHANGED <<account, user, shown, login>>

\* createUserWithPrincipal: the database refuses a second row of the address.
CreateUser(a) ==
  /\ signUp[a].at = "read" /\ signUp[a].read = Nobody
  /\ IF user = Nobody
     THEN user' = [authId |-> a, active |-> TRUE, gone |-> FALSE] /\ Goes(a, "continue")
     ELSE user' = user /\ Goes(a, "refused")
  /\ UNCHANGED <<account, shown, login>>

\* Whoever was deleted or locked comes back with the new account; others only
\* get its id. A column is written when it differs from what was read.
ComesBack(read) == read.gone \/ ~read.active

RestoreUser(a) ==
  LET read == signUp[a].read IN
  /\ signUp[a].at = "read" /\ read # Nobody /\ ComesBack(read)
  /\ user' = [authId |-> IF read.authId = a THEN user.authId ELSE a,
             active |-> ~read.active \/ user.active,
             gone   |-> ~read.gone /\ user.gone]
  /\ Goes(a, "continue")
  /\ UNCHANGED <<account, shown, login>>

RelinkUser(a) ==
  LET read == signUp[a].read IN
  /\ signUp[a].at = "read" /\ read # Nobody /\ ~ComesBack(read)
  /\ user' = IF read.authId = a THEN user ELSE [user EXCEPT !.authId = a]
  /\ Goes(a, "continue")
  /\ UNCHANGED <<account, shown, login>>

\* The database fails: the hook answers with an error.
HookFails(a) ==
  /\ signUp[a].at = "read" /\ Goes(a, "refused")
  /\ UNCHANGED <<account, user, shown, login>>

-----------------------------------------------------------------------------
(* Supabase, and the administrators                                          *)

CreateAccount(a) ==
  /\ signUp[a].at = "continue"
  /\ IF account = Nobody THEN account' = a /\ Goes(a, "created") ELSE account' = account /\ Goes(a, "refused")
  /\ UNCHANGED <<user, shown, login>>

NeverCreated(a) ==
  /\ signUp[a].at = "continue" /\ Goes(a, "refused")
  /\ UNCHANGED <<account, user, shown, login>>

DeleteAccount ==
  /\ account # Nobody
  /\ account' = Nobody /\ shown' = {}
  /\ UNCHANGED <<user, signUp, login>>

\* updateActive, remove: the account at Supabase stays
Administer ==
  /\ user # Nobody /\ ~user.gone
  /\ user' \in {[user EXCEPT !.active = ~user.active], [user EXCEPT !.gone = TRUE]}
  /\ signUp' = [a \in Account |-> [signUp[a] EXCEPT !.administered = signUp[a].at \notin {"unasked", "refused"}]]
  /\ UNCHANGED <<account, shown, login>>

\* A session is written down while its token is made, or a moment later.
ShowSession(s) ==
  /\ login[s].at # "none" /\ login[s].account = account /\ s \notin shown
  /\ shown' = shown \cup {s}
  /\ UNCHANGED <<account, user, signUp, login>>

EndSession(s) ==
  /\ s \in shown
  /\ shown' = shown \ {s}
  /\ UNCHANGED <<account, user, signUp, login>>

-----------------------------------------------------------------------------
(* accessTokenHook, and what it leaves to AuthSessionService                 *)

\* findUserIdByAuthId
LinkedTo(a) == user # Nobody /\ user.authId = a /\ ~user.gone

FindUser(s) ==
  /\ account # Nobody /\ login[s].at = "none"
  /\ login' = [login EXCEPT ![s].account = account, ![s].at = IF LinkedTo(account) THEN "found" ELSE "over"]
  /\ UNCHANGED <<account, user, signUp, shown>>

\* getClientInfo: what there is to be seen within its time, or nothing
ReadClient(s) ==
  /\ login[s].at = "found"
  /\ \E seen \in BOOLEAN :
       /\ seen => s \in shown
       /\ login' = [login EXCEPT ![s].at = "logging", ![s].client = seen]
  /\ UNCHANGED <<account, user, signUp, shown>>

\* writeAuthLog; a failure is only printed, and the token is given all the same
WriteLog(s) ==
  /\ login[s].at = "logging"
  /\ \/ login' = [login EXCEPT ![s].logged = TRUE, ![s].at = IF login[s].client THEN "over" ELSE "filling"]
     \/ login' = [login EXCEPT ![s].client = FALSE, ![s].at = "over", ![s].cut = TRUE]
  /\ UNCHANGED <<account, user, signUp, shown>>

\* attempt, tryFill: in the background, at most MaxTries times
TryFill(s) ==
  /\ login[s].at = "filling"
  /\ LET tries == login[s].tries + 1 IN
     login' = [login EXCEPT ![s].tries = tries, ![s].client = s \in shown,
                            ![s].at = IF s \in shown \/ tries = MaxTries THEN "over" ELSE "filling"]
  /\ UNCHANGED <<account, user, signUp, shown>>

\* An attempt that ends in an error is the last one; so is a stop.
CutFill(s) ==
  /\ login[s].at = "filling"
  /\ login' = [login EXCEPT ![s].at = "over", ![s].cut = TRUE]
  /\ UNCHANGED <<account, user, signUp, shown>>

SignUpsNext ==
  \/ \E a \in Account :
       \/ ReadUser(a) \/ CreateUser(a) \/ RestoreUser(a) \/ RelinkUser(a) \/ HookFails(a)
       \/ CreateAccount(a) \/ NeverCreated(a)
  \/ DeleteAccount \/ Administer
  \/ \E s \in SignIn :
       \/ ShowSession(s) \/ EndSession(s)
       \/ FindUser(s) \/ ReadClient(s) \/ WriteLog(s) \/ TryFill(s) \/ CutFill(s)

SignUpsSpec == SignUpsInit /\ [][SignUpsNext]_signUpVars

-----------------------------------------------------------------------------
\* Nobody has an account without a row. The row is linked to the account that
\* Supabase created, however often accounts were created and deleted, sign-ups
\* lost and rows locked or removed before - unless two sign-ups of the address
\* overlapped - and lets its person in unless an administrator said otherwise
\* since the hook read it.
RowsFollowAccounts ==
  account # Nobody =>
    /\ user # Nobody
    /\ ~signUp[account].overlapped =>
         /\ user.authId = account
         /\ signUp[account].administered \/ (user.active /\ ~user.gone)

\* A login that nothing cut short is logged, unless sign-ups overlapped or an
\* administrator removed the row; the log tells where the login came from unless
\* that was not to be seen at the last attempt.
LoginsAreLogged ==
  \A s \in SignIn : login[s].at = "over" /\ ~login[s].cut =>
    \/ login[s].logged /\ (login[s].client \/ login[s].tries = MaxTries)
    \/ /\ ~login[s].logged
       /\ signUp[login[s].account].overlapped \/ signUp[login[s].account].administered

AccountsAgree == RowsFollowAccounts /\ LoginsAreLogged
=============================================================================
