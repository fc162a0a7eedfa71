----------------------------- MODULE MCBackground -----------------------------
(* Small instances for TLC of what goes on in the background and has to come *)
(* to an end: approval mail, PDF previews, cached lists and the reminders of *)
(* people who are away.  A behaviour is of one of them; the others stay      *)
(* where they started.                                                       *)
EXTENDS MCApprovalMail, InactiveReminders

CONSTANTS
  pdf, job, cron,                      \* previews
  reader1, reader2, admin,             \* cached lists
  p1, p2                               \* the job that reminds people

VARIABLES
  part,
  pRow, pStore, pMessage, pConfirms, pPass, pFaults,
  cCached, cReading, cWriting

previewVars == <<pRow, pStore, pMessage, pConfirms, pPass, pFaults>>
listVars == <<cCached, cReading, cWriting>>

(* One file, a consumer and a backfill                                       *)
Preview == INSTANCE Previews WITH
  File <- {pdf}, Consumer <- {job}, Cron <- {cron}, MaxAttempts <- 3, MaxConfirms <- 2, MaxFaults <- 1,
  row <- pRow, store <- pStore, message <- pMessage, confirms <- pConfirms, pass <- pPass, faults <- pFaults

(* The role list and the users of the guard.  An edit of a role clears both, *)
(* the removal of one only the list, a change of a group's members nothing.  *)
Kinds == {"role", "roleRemoved", "group"}
Lists == INSTANCE ListCache WITH
  Entry <- {"roles", "guard"}, Reader <- {reader1, reader2}, Writer <- {admin}, WriteKind <- Kinds,
  ShownIn <- [k \in Kinds |-> IF k = "group" THEN {"guard"} ELSE {"roles", "guard"}],
  Clears <- [k \in Kinds |-> IF k = "role" THEN {"roles", "guard"} ELSE IF k = "group" THEN {} ELSE {"roles"}],
  Ttl <- 2, cached <- cCached, reading <- cReading, writing <- cWriting

(* Of the people who are reminded one may come back, one stays away and may   *)
(* not be mailed either.  Bounds: mails in one run of one process, after the  *)
(* visits                                                                    *)
OneMailing ==
  /\ seen'[bob] = 0
  /\ mails' # <<>> => now = 1 /\ run'[p2] = run[p2] /\ run'[p2] = Unoccupied /\ (mails # <<>> => seen' = seen)

-----------------------------------------------------------------------------
backgroundVars == <<part, vars, previewVars, listVars, reminderVars>>

InitBackground ==
  /\ part \in {"mail", "previews", "lists", "away"}
  /\ Init /\ Preview!Init /\ Lists!CacheInit /\ RemindersInit
  /\ lastActiveAt = [u \in Member |-> IF u = ann THEN Never ELSE 0] /\ supabase[bob] = 0
  /\ part # "away" => supabase[ann] = 0

InMail(A) == part = "mail" /\ A /\ UNCHANGED <<part, previewVars, listVars, reminderVars>>
InPreviews(A) == part = "previews" /\ A /\ UNCHANGED <<part, vars, listVars, reminderVars>>
InLists(A) == part = "lists" /\ A /\ UNCHANGED <<part, vars, previewVars, reminderVars>>
InAway(A) == part = "away" /\ A /\ UNCHANGED <<part, vars, previewVars, listVars>>

NextBackground ==
  InMail(Next) \/ InPreviews(Preview!Next) \/ InLists(Lists!CacheNext) \/ InAway(RemindersNext /\ OneMailing)

(* The fairness of ApprovalMail, Previews and ListCache                      *)
FairBackground ==
  /\ \A r \in Relay : WF_backgroundVars(InMail(RelayNext(r)))
  /\ \A c \in Consumer : WF_backgroundVars(InMail(HandlerNext(c)))
  /\ \A p \in {job, cron} :
       WF_backgroundVars(InPreviews(Preview!WorkOn(p) \/ Preview!Check(p) \/ Preview!Flush(p)))
  /\ SF_backgroundVars(InPreviews(Preview!Backfill(cron, pdf)))
  /\ WF_backgroundVars(InLists(Lists!Tick))

SpecBackground == InitBackground /\ [][NextBackground]_backgroundVars /\ FairBackground

(* No file waits for its preview for ever ...                                *)
PreviewsEnd == Preview!PreviewsEnd
(* ... and no cached list stays out of date                                  *)
StaleListsExpire == Lists!StaleListsExpire
=============================================================================
