----------------------------- MODULE LoginDevices -----------------------------
(***************************************************************************)
(* The detection of a login on a new device: LoginDeviceService, which     *)
(* SupabaseAuthGuard calls on every request of a user.                     *)
(*                                                                         *)
(* Requests of one session run side by side. The first ones find nothing   *)
(* in the cache about their session, note the device there and look it up  *)
(* in the background; a device that the user never used is recorded and,   *)
(* when the login is fresh and the user has other devices, noticed.        *)
(*                                                                         *)
(* One user. A device is named by the session that it was made up for, or  *)
(* is one that the user had already. A signed token is the device it names.*)
(* Sessions do not outlive what the cache holds about them.                *)
(***************************************************************************)
EXTENDS FiniteSets, Naturals

CONSTANTS
    Session,    \* login sessions of the user
    Browser,    \* where sessions run; a browser keeps the token it was given
    Home,       \* session -> its browser
    Fresh,      \* the sessions whose login is recent
    Call,       \* requests of these sessions
    Old,        \* the devices the user had before
    NoDevice

VARIABLES
    token,      \* browser -> the device of the token it keeps, or NoDevice
    known,      \* session -> the device the cache holds for it, or NoDevice
    devices,    \* the user's devices on record
    notices,    \* what was noticed: the session and the device
    call,       \* call -> NoDevice, or its session, device and progress
    lost        \* sessions with a background check that ended in an error

deviceVars == <<token, known, devices, notices, call, lost>>

Device == Session \cup (Session \X Call) \cup Old

Progress == {"missed", "checking", "counting", "recording"}

DeviceCall == [session: Session, device: Device, held: BOOLEAN, at: Progress, notify: BOOLEAN]

ASSUME DevicesAssumption ==
    /\ IsFiniteSet(Session)
    /\ Home \in [Session -> Browser]
    /\ NoDevice \notin Device \cup DeviceCall

DevicesTypeOK ==
    /\ token \in [Browser -> Device \cup {NoDevice}]
    /\ known \in [Session -> Device \cup {NoDevice}]
    /\ Old \subseteq devices /\ devices \subseteq Device
    /\ notices \subseteq Session \X Device
    /\ call \in [Call -> DeviceCall \cup {NoDevice}]
    /\ lost \subseteq Session

DevicesInit ==
    /\ token \in [Browser -> Old \cup {NoDevice}]
    /\ known = [s \in Session |-> NoDevice]
    /\ devices = Old
    /\ notices = {}
    /\ call = [c \in Call |-> NoDevice]
    /\ lost = {}

-----------------------------------------------------------------------------
(* handleRequest.                                                          *)

\* As it would be with an id drawn at random for each request.
MadeUpForTheCall(s, c) == <<s, c>>

\* The device of a session whose client has no token: an HMAC of the session.
MadeUpFor(s, c) == s

\* The answer carries a token when the client does not hold the right one. It
\* may not arrive.
Answered(b, device) ==
    \/ token' = [token EXCEPT ![b] = device]
    \/ UNCHANGED token

\* The cache knows the session: its device is sent again if the client holds
\* another.
SessionIsKnown(s) ==
    /\ known[s] # NoDevice
    /\ token[Home[s]] # known[s]
    /\ Answered(Home[s], known[s])
    /\ UNCHANGED <<known, devices, notices, call, lost>>

\* cache.get finds nothing. The token is the browser's, or none when the call
\* was sent before the browser was given one.
SessionIsNew(c, s) ==
    /\ call[c] = NoDevice
    /\ known[s] = NoDevice
    /\ \E sent \in {token[Home[s]], NoDevice} :
        /\ token[Home[s]] \in Old => sent # NoDevice
        /\ call' = [call EXCEPT ![c] =
               [session |-> s,
                device  |-> IF sent # NoDevice THEN sent ELSE MadeUpFor(s, c),
                held    |-> sent # NoDevice,
                at      |-> "missed",
                notify  |-> FALSE]]
    /\ UNCHANGED <<token, known, devices, notices, lost>>

\* cache.set, then the check starts in the background and the request goes on.
Note(c) ==
    /\ call[c] # NoDevice
    /\ call[c].at = "missed"
    /\ known' = [known EXCEPT ![call[c].session] = call[c].device]
    /\ call' = [call EXCEPT ![c].at = "checking"]
    /\ IF call[c].held
       THEN UNCHANGED token
       ELSE Answered(Home[call[c].session], call[c].device)
    /\ UNCHANGED <<devices, notices, lost>>

-----------------------------------------------------------------------------
(* check, which nobody waits for.                                          *)

Finished(c) == call' = [call EXCEPT ![c] = NoDevice]

\* The device is on record: its last use is updated.
DeviceIsKnown(c) ==
    /\ call[c] # NoDevice
    /\ call[c].at = "checking"
    /\ call[c].device \in devices
    /\ Finished(c)
    /\ UNCHANGED <<token, known, devices, notices, lost>>

\* It is not.
DeviceIsNew(c) ==
    /\ call[c] # NoDevice
    /\ call[c].at = "checking"
    /\ call[c].device \notin devices
    /\ call' = [call EXCEPT ![c].at = "counting"]
    /\ UNCHANGED <<token, known, devices, notices, lost>>

\* A query of its own counts the user's devices; it may already see this one,
\* recorded by another call.
CountDevices(c) ==
    /\ call[c] # NoDevice
    /\ call[c].at = "counting"
    /\ call' = [call EXCEPT
           ![c].at = "recording",
           ![c].notify = devices # {} /\ call[c].session \in Fresh]
    /\ UNCHANGED <<token, known, devices, notices, lost>>

\* One flush inserts the device and the notice; the unique index on user and
\* device refuses both when another call was first.
RecordDevice(c) ==
    /\ call[c] # NoDevice
    /\ call[c].at = "recording"
    /\ IF call[c].device \in devices
       THEN UNCHANGED <<devices, notices>>
       ELSE /\ devices' = devices \cup {call[c].device}
            /\ notices' = IF call[c].notify
                          THEN notices \cup {<<call[c].session, call[c].device>>}
                          ELSE notices
    /\ Finished(c)
    /\ UNCHANGED <<token, known, lost>>

\* The database fails, or the process stops: the error is logged at most, and
\* the check is not taken up again, as the cache knows the session.
CheckFails(c) ==
    /\ call[c] # NoDevice
    /\ call[c].at # "missed"
    /\ Finished(c)
    /\ lost' = lost \cup {call[c].session}
    /\ UNCHANGED <<token, known, devices, notices>>

DevicesNext ==
    \/ \E s \in Session : SessionIsKnown(s)
    \/ \E c \in Call, s \in Session : SessionIsNew(c, s)
    \/ \E c \in Call : Note(c)
    \/ \E c \in Call : DeviceIsKnown(c)
    \/ \E c \in Call : DeviceIsNew(c)
    \/ \E c \in Call : CountDevices(c)
    \/ \E c \in Call : RecordDevice(c)
    \/ \E c \in Call : CheckFails(c)

DevicesSpec == DevicesInit /\ [][DevicesNext]_deviceVars

-----------------------------------------------------------------------------
\* However many requests open a session side by side, a login is noticed once:
\* there are no more notices than logins, each about a device on record. And
\* once the background checks have ended without an error, the device that the
\* cache holds for a session is on record, and every device recorded for a
\* fresh login of a user who had others was noticed.
NoticedOnce == Cardinality(notices) <= Cardinality({s \in Session : known[s] # NoDevice})

NoticesAreAboutRecords == \A n \in notices : n[2] \in devices

ChecksEnded == \A c \in Call : call[c] = NoDevice

NothingIsMissed ==
    (ChecksEnded /\ lost = {}) =>
        /\ \A s \in Session : known[s] # NoDevice => known[s] \in devices
        /\ (Old # {} /\ Fresh = Session) =>
               \A d \in devices \ Old : \E n \in notices : n[2] = d

LoginsAreNoticedOnce == NoticedOnce /\ NoticesAreAboutRecords /\ NothingIsMissed

=============================================================================
