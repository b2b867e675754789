--------------------------- MODULE ClientSession ----------------------------
(***************************************************************************)
(* One device of an employee, with the server's sessions (AuthSessions): an *)
(* app in React Native (native) or Flutter, or the dashboard in a browser   *)
(* (web).  Each keeps a pair of tokens and the user in memory and in its    *)
(* storage, and answers a 401 by exchanging the refresh token and sending   *)
(* the request again.                                                       *)
(*                                                                          *)
(* A call c of AuthSessions is what the device's request c has the server   *)
(* do.  A request is decided and answered in one step when it changes       *)
(* nothing; a login, a rotation and a logout go through the server's steps. *)
(***************************************************************************)
EXTENDS AuthSessions

VARIABLES
  kind,        \* which of the three clients the device runs
  mem,         \* what the store holds in memory
  disk,        \* what AsyncStorage, SharedPreferences or localStorage hold
  dirty,       \* the keys whose value in memory is still to be written
  removing,    \* the keys that Flutter's clearAuth is still to remove
  loaded,      \* loadFromStorage has been read
  screen,      \* "splash", "login" or "main" (all the screens behind it)
  req,         \* the requests in progress
  stale,       \* the families whose access token has expired
  signedOut,   \* history: the user signed out last, with no login under way, and has
               \* not begun to log in since
  disturbed    \* history: requests overlapped, or a request or a write was lost

server == <<whitelist, generated, held, expired, blacklist, password, root, spent, call>>
storage == <<mem, disk, dirty, removing>>
device == <<kind, mem, disk, dirty, removing, loaded, screen, req, stale, signedOut, disturbed>>
allVars == <<server, device>>

Keys == {"access", "refresh", "user"}
Empty == [k \in Keys |-> None]
Employee == "employee"
NoReq == [phase |-> "none", op |-> "none", retry |-> FALSE, token |-> None]

Written == dirty = {} /\ removing = {}
Phase(c, p) == req[c].phase = p
InPhase(c, p) == req' = [req EXCEPT ![c].phase = p]
Done(c) == req' = [req EXCEPT ![c] = NoReq]
Open(c, op) ==
  /\ req' = [req EXCEPT ![c] =
       [phase |-> "sent", op |-> op, retry |-> FALSE, token |-> mem.access]]
  /\ disturbed' = (disturbed \/ \E d \in Calls : req[d] # NoReq)

-----------------------------------------------------------------------------
(***************************************************************************)
(* The stores.  A browser's storage is written at once, and holds no user;  *)
(* the apps' is written later, each key when its turn comes.                *)
(***************************************************************************)
\* isAuthenticated, with store m.
SignedIn(m) == m.user # None /\ (kind = "flutter" => m.access # None)

Complete(d) == \A k \in Keys : d[k] # None

\* Mutant of Restored: the access token alone makes a session.
RestoredByAccess(d) ==
  [d EXCEPT !.user = IF d.access # None THEN Employee ELSE None]

\* loadFromStorage of React Native and of Flutter, and the dashboard's initialize,
\* with d in storage and memory empty.
NativeRestored(d) == IF Complete(d) THEN d ELSE Empty
FlutterRestored(d) == [d EXCEPT !.user = IF Complete(d) THEN @ ELSE None]
Restored(d) ==
  CASE kind = "native" -> NativeRestored(d)
    [] kind = "flutter" -> FlutterRestored(d)
    [] kind = "web" -> [d EXCEPT !.user = IF d.access # None THEN Employee ELSE None]

\* Put values m in the store, and those of the keys in storage: the dashboard at once.
RememberAtOnce(m) == mem' = m /\ disk' = [m EXCEPT !.user = None] /\ UNCHANGED dirty
Remember(m, keys) ==
  /\ IF kind = "web" THEN RememberAtOnce(m)
                     ELSE mem' = m /\ dirty' = dirty \cup keys /\ UNCHANGED disk
  /\ UNCHANGED removing

\* clearAuth of the apps, and the dashboard's logout.
ForgetAtOnce == mem' = Empty /\ disk' = Empty /\ dirty' = {} /\ removing' = {}
Forget ==
  IF kind = "web"
    THEN ForgetAtOnce
    ELSE /\ mem' = Empty
         /\ dirty' = IF kind = "native" THEN Keys ELSE {}
         /\ removing' = IF kind = "flutter" THEN Keys ELSE {}
         /\ UNCHANGED disk

\* The storage is given one key after the other.
Foremost(keys, k) ==
  /\ k \in keys
  /\ k = "refresh" => "access" \notin keys
  /\ k = "user" => keys = {k}

Flush(k) ==
  /\ Foremost(dirty, k)
  /\ disk' = [disk EXCEPT ![k] = mem[k]]
  /\ dirty' = dirty \ {k}
  /\ UNCHANGED <<server, kind, mem, removing, loaded, screen, req, stale, signedOut, disturbed>>

Remove(k) ==
  /\ Foremost(removing, k)
  /\ disk' = [disk EXCEPT ![k] = None]
  /\ removing' = removing \ {k}
  /\ UNCHANGED <<server, kind, mem, dirty, loaded, screen, req, stale, signedOut, disturbed>>

-----------------------------------------------------------------------------
(***************************************************************************)
(* Starting.  Both apps look into their storage behind a splash screen.     *)
(* React Native's waits a second and goes on with what was read until then; *)
(* Flutter's waits for the storage.                                         *)
(***************************************************************************)
Load ==
  /\ ~loaded
  /\ loaded' = TRUE
  /\ mem' = IF kind = "native" /\ ~Complete(disk) THEN mem ELSE Restored(disk)
  /\ UNCHANGED <<server, kind, disk, dirty, removing, screen, req, stale, signedOut, disturbed>>

Decide ==
  /\ screen = "splash"
  /\ screen' = IF SignedIn(mem) THEN "main" ELSE "login"
  /\ UNCHANGED <<server, kind, storage, loaded, req, stale, signedOut, disturbed>>

SplashTimer == kind = "native" /\ Decide
SplashInit == kind = "flutter" /\ loaded /\ Decide

\* The app's process or the page, with all its requests, begins anew.  What the
\* server is doing for it goes on.
Begun(place, d) ==
  /\ mem' = IF kind = "web" THEN Restored(d) ELSE Empty
  /\ disk' = d
  /\ dirty' = {} /\ removing' = {}
  /\ loaded' = (kind = "web")
  /\ screen' = place
  /\ req' = [c \in Calls |-> NoReq]

\* A browser shows the page of the address it reloads, if ProtectedRoute lets it.
Restart ==
  /\ \E place \in IF kind # "web" THEN {"splash"}
                  ELSE IF disk.access # None THEN {"login", "main"} ELSE {"login"} :
       Begun(place, disk)
  /\ signedOut' = (signedOut /\ Written)
  /\ disturbed' = (disturbed \/ ~Written \/ \E c \in Calls : req[c] # NoReq)
  /\ UNCHANGED <<server, kind, stale>>

-----------------------------------------------------------------------------
(***************************************************************************)
(* What the screens offer, and the requests they send.  The dashboard asks  *)
(* whether set-up is required on whatever page, once it is signed in.       *)
(* Flutter's login button is disabled during a login, its keyboard is not.  *)
(***************************************************************************)
NoLogin == \A c \in Calls : req[c].op # "login"
LoggingIn == \E c \in Calls : req[c].op = "login" /\ ~Phase(c, "storing")
LogoutOffered == screen = "main"

Send(c) ==
  /\ Phase(c, "none") /\ At(c, "idle")
  /\ screen = "main" \/ (kind = "web" /\ SignedIn(mem))
  /\ Open(c, "get")
  /\ UNCHANGED <<server, kind, storage, loaded, screen, stale, signedOut>>

SubmitLogin(c) ==
  /\ screen = "login"
  /\ Phase(c, "none") /\ At(c, "idle")
  /\ Open(c, "login")
  /\ signedOut' = FALSE
  /\ UNCHANGED <<server, kind, storage, loaded, screen, stale>>

NativeLogin(c) == kind = "native" /\ NoLogin /\ SubmitLogin(c)
FlutterLogin(c) == kind = "flutter" /\ SubmitLogin(c)
WebLogin(c) == kind = "web" /\ NoLogin /\ SubmitLogin(c)

\* The apps sign out by themselves, and React Native's stays where it is; the
\* dashboard tells the server first.
SignOut ==
  /\ LogoutOffered
  /\ Forget
  /\ signedOut' = ~LoggingIn
  /\ UNCHANGED <<server, kind, loaded, req, stale, disturbed>>

NativeSignOut == kind = "native" /\ SignOut /\ UNCHANGED screen
FlutterSignOut == kind = "flutter" /\ SignOut /\ screen' = "login"

SubmitLogout(c) ==
  /\ kind = "web"
  /\ Phase(c, "none") /\ At(c, "idle")
  /\ LogoutOffered
  /\ Open(c, "logout")
  /\ UNCHANGED <<server, kind, storage, loaded, screen, stale, signedOut>>

-----------------------------------------------------------------------------
(***************************************************************************)
(* The server's answers, and what the interceptors make of a 401.           *)
(***************************************************************************)
Valid(f) == f \in held \ (expired \cup blacklist \cup stale)

Accepted(c) ==
  /\ Phase(c, "sent") /\ req[c].op = "get"
  /\ Valid(req[c].token)
  /\ Done(c)
  /\ UNCHANGED <<server, kind, storage, loaded, screen, stale, signedOut, disturbed>>

\* A bound: which of the unused families randomUUID returns makes no difference.
Fresh ==
  IF generated = Families THEN {} ELSE {CHOOSE f \in Families : f \notin generated}

LoginAccepted(c, f) ==
  /\ Phase(c, "sent") /\ req[c].op = "login"
  /\ Login(c, f)
  /\ InPhase(c, "served")
  /\ UNCHANGED <<kind, storage, loaded, screen, stale, signedOut, disturbed>>

LogoutAccepted(c) ==
  /\ Phase(c, "sent") /\ req[c].op = "logout"
  /\ Valid(req[c].token)
  /\ Logout(c, req[c].token)
  /\ InPhase(c, "served")
  /\ UNCHANGED <<kind, storage, loaded, screen, stale, signedOut, disturbed>>

\* A 401: the token is missing, expired or revoked, or the password is wrong.
Denied(c) == Phase(c, "sent") /\ (req[c].op = "login" \/ ~Valid(req[c].token))

\* A request ends and takes the session with it.
Dropped(c) == Forget /\ Done(c) /\ UNCHANGED <<kind, loaded, screen, signedOut>>

\* The dashboard's logout signs out come what may (`finally').
LoggingOut(c) == req[c].op = "logout"
Left(c) ==
  /\ Forget /\ Done(c)
  /\ screen' = "login" /\ signedOut' = ~LoggingIn
  /\ UNCHANGED <<kind, loaded>>

\* The browser loads the login page, with tokens d, and all requests are gone.
ToLogin(c, d) ==
  /\ Begun("login", IF LoggingOut(c) THEN Empty ELSE d)
  /\ signedOut' = (signedOut \/ LoggingOut(c))
  /\ UNCHANGED kind

\* No second exchange for a request sent again: it is rejected, and Flutter, which
\* sends it again inside its try block, clears the store.
DeniedAgain(c) ==
  /\ Denied(c) /\ req[c].retry
  /\ IF kind = "flutter"
       THEN Dropped(c)
       ELSE Done(c) /\ UNCHANGED <<kind, storage, loaded, screen, signedOut>>
  /\ UNCHANGED <<server, stale, disturbed>>

\* Nothing to exchange: the apps clear the store, the browser goes to the login
\* page, with the tokens it may have.
NothingToExchange(c) ==
  /\ Denied(c) /\ ~req[c].retry
  /\ mem.refresh = None
  /\ IF kind = "web" THEN ToLogin(c, disk) ELSE Dropped(c)
  /\ UNCHANGED <<server, stale, disturbed>>

\* The dashboard sends its refresh token in the body, where refresh of the
\* server's controller does not look.
Exchangeable(f) == kind # "web" /\ f \in held \ expired

StartRotation(c) ==
  /\ Denied(c) /\ ~req[c].retry
  /\ mem.refresh # None
  /\ InPhase(c, "refreshing")
  /\ IF Exchangeable(mem.refresh) THEN Refresh(c, mem.refresh) ELSE UNCHANGED server
  /\ UNCHANGED <<kind, storage, loaded, screen, stale, signedOut, disturbed>>

\* Mutant of Successor: the used token is kept.
SuccessorOfAccess(f) == [mem EXCEPT !.access = f]

\* Mutant of Successor: a rotation is taken for a login.
SuccessorWithUser(f) == [access |-> f, refresh |-> f, user |-> Employee]

\* React Native's updateToken drops the new refresh token.
Successor(f) ==
  IF kind = "native" THEN [mem EXCEPT !.access = f]
                     ELSE [mem EXCEPT !.access = f, !.refresh = f]

\* The new tokens are stored, wherever the user has gone meanwhile, and the
\* request is sent again with them.
Rotated(c) ==
  LET f == call[c].family IN
  /\ Phase(c, "refreshing")
  /\ Answer(c)
  /\ Remember(Successor(f), IF kind = "native" THEN {"access"} ELSE {"access", "refresh"})
  /\ req' = [req EXCEPT ![c].phase = "sent", ![c].retry = TRUE, ![c].token = f]
  /\ UNCHANGED <<kind, loaded, screen, stale, signedOut, disturbed>>

\* The catch block of the exchange.
Refused(c) == IF kind = "web" THEN ToLogin(c, Empty) ELSE Dropped(c)

\* The server has refused the exchange at once, or after raising the reuse alarm.
NotRotated(c) ==
  /\ Phase(c, "refreshing")
  /\ IF At(c, "idle") THEN UNCHANGED server ELSE Purged(c)
  /\ Refused(c)
  /\ UNCHANGED <<stale, disturbed>>

\* Flutter goes to its main screen when the storage is written; React Native has
\* its user stay at the login screen until the app is started again.
LoginAnswered(c) ==
  LET f == call[c].family IN
  /\ Phase(c, "served") /\ req[c].op = "login"
  /\ Answer(c)
  /\ Remember([access |-> f, refresh |-> f, user |-> Employee], Keys)
  /\ screen' = IF kind = "web" THEN "main" ELSE screen
  /\ IF kind = "flutter" THEN InPhase(c, "storing") ELSE Done(c)
  /\ UNCHANGED <<kind, loaded, stale, signedOut, disturbed>>

\* (A login that ends with its screen gone does not navigate.)
Enter(c) ==
  /\ Phase(c, "storing")
  /\ dirty = {}
  /\ Done(c)
  /\ screen' = IF screen = "login" THEN "main" ELSE screen
  /\ UNCHANGED <<server, kind, storage, loaded, stale, signedOut, disturbed>>

\* The store was cleared under the login: `_accessToken!' throws.
StoreFails(c) ==
  /\ Phase(c, "storing")
  /\ ~Complete(mem)
  /\ Done(c)
  /\ UNCHANGED <<server, kind, storage, loaded, screen, stale, signedOut, disturbed>>

LogoutAnswered(c) ==
  /\ Phase(c, "served") /\ req[c].op = "logout"
  /\ Purged(c)
  /\ Left(c)
  /\ UNCHANGED <<stale, disturbed>>

(***************************************************************************)
(* The connection is lost, or the answer comes after the client's timeout,  *)
(* or is another error than 401.  What the server has begun goes on, until  *)
(* it ends or dies (Abandoned).                                             *)
(***************************************************************************)
Lost(c) ==
  /\ Phase(c, "sent") \/ Phase(c, "served") \/ Phase(c, "refreshing")
  /\ CASE Phase(c, "refreshing") -> Refused(c)
       [] ~Phase(c, "refreshing") /\ LoggingOut(c) -> Left(c)
       [] kind = "flutter" /\ req[c].retry -> Dropped(c)
       [] OTHER -> Done(c) /\ UNCHANGED <<kind, storage, loaded, screen, signedOut>>
  /\ disturbed' = TRUE
  /\ UNCHANGED <<server, stale>>

Abandoned(c) == Phase(c, "none") /\ Fail(c) /\ UNCHANGED device

Serve(c) ==
  /\ \/ Check(c) \/ Count(c) \/ Evict(c) \/ Store(c) \/ Revoke(c) \/ List(c) \/ Purge(c)
     \/ \E g \in Fresh : Exchange(c, g)
  /\ UNCHANGED device

\* A bound: once the server has begun with a call, it does all of it before
\* anything else happens.  (What becomes of calls that overlap in the server, or
\* die there, is asked of AuthSessions.)
Serving ==
  \E c \in Calls :
    /\ call[c].pc \notin {"idle", "answer"}
    /\ At(c, "purge") => call[c].keys # {}
    /\ At(c, "delete") => Fresh # {}

\* A bound: tokens that the device no longer holds in memory are left alone.
AccessExpires(f) ==
  /\ f = mem.access
  /\ f \notin stale
  /\ stale' = stale \cup {f}
  /\ UNCHANGED <<server, kind, storage, loaded, screen, req, signedOut, disturbed>>

-----------------------------------------------------------------------------
ClientInit ==
  /\ Init
  /\ kind \in {"native", "flutter", "web"}
  /\ mem = Empty /\ disk = Empty /\ dirty = {} /\ removing = {}
  /\ loaded = (kind = "web")
  /\ screen = IF kind = "web" THEN "login" ELSE "splash"
  /\ req = [c \in Calls |-> NoReq]
  /\ stale = {} /\ signedOut = FALSE /\ disturbed = FALSE

Write == \E k \in Keys : Flush(k) \/ Remove(k)

Progress(c) ==
  \/ Accepted(c) \/ (\E f \in Fresh : LoginAccepted(c, f)) \/ LogoutAccepted(c)
  \/ DeniedAgain(c) \/ NothingToExchange(c) \/ StartRotation(c)
  \/ Rotated(c) \/ NotRotated(c) \/ LoginAnswered(c) \/ Enter(c) \/ StoreFails(c)
  \/ LogoutAnswered(c) \/ Lost(c)

ClientNext ==
  \/ \E c \in Calls : Serve(c)
  \/ /\ ~Serving
     /\ \/ Write \/ Load \/ SplashTimer \/ SplashInit \/ Restart
        \/ NativeSignOut \/ FlutterSignOut
        \/ \E c \in Calls :
             \/ Send(c) \/ NativeLogin(c) \/ FlutterLogin(c) \/ WebLogin(c)
             \/ SubmitLogout(c) \/ Progress(c) \/ Abandoned(c)
        \/ \E f \in Families : AccessExpires(f)

ClientSpec == ClientInit /\ [][ClientNext]_allVars
=============================================================================
