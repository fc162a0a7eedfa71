-------------------------------- MODULE Services --------------------------------
(***************************************************************************)
(* What the shared services of the API promise to whoever uses them.  They   *)
(* have no state in common: uploads and instant downloads, and the hooks and *)
(* the guard that a login goes through, are modules of their own.            *)
(***************************************************************************)
EXTENDS Attachments, Downloads, LoginDevices, SignUps

\* A confirmed upload can be opened (completeUpload, beside the cleanup of pending
\* attachments); the link of a download serves once, and a user has one download
\* at a time (prepare, download).
FilesAreServedRightly == ConfirmedFilesAreThere /\ DownloadsAreCounted

\* A login on a new device is noticed once (LoginDeviceService); accounts are
\* linked to the rows of their users, and logins are logged (signupHook,
\* accessTokenHook).
LoginsAreRight == LoginsAreNoticedOnce /\ AccountsAgree
=================================================================================
