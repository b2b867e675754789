---------------------------- MODULE ClientProofs ----------------------------
(***************************************************************************)
(* Proofs about the three clients, for any number of requests at a time,    *)
(* any supply of families and any cap; none of them needs the bounds that   *)
(* ClientSession puts on what TLC explores.                                 *)
(***************************************************************************)
EXTENDS ClientProps, AuthProofs

-----------------------------------------------------------------------------
(***************************************************************************)
(* The invariant ClientInv: what a request in progress has to do with its   *)
(* call, which screens there are requests on, and, after a sign-out, where  *)
(* a user can still be found.                                               *)
(***************************************************************************)
Values == Families \cup {None, Employee}

Requests ==
  [phase : {"none", "sent", "served", "refreshing", "storing"},
   op : {"none", "get", "login", "logout"}, retry : BOOLEAN, token : Values]

ClientTypes ==
  /\ kind \in {"native", "flutter", "web"}
  /\ mem \in [Keys -> Values] /\ disk \in [Keys -> Values]
  /\ dirty \in SUBSET Keys /\ removing \in SUBSET Keys
  /\ req \in [Calls -> Requests]

\* What the request with the state q has to do with the state h of its call.
Matching(q, h) ==
  /\ q.phase \in {"sent", "storing"} => h.pc = "idle"
  /\ kind = "web" /\ q.phase = "refreshing" => h.pc = "idle"
  /\ q.op = "logout" => kind = "web"
  /\ q.phase = "storing" => kind = "flutter"

Phases == \A c \in Calls : Matching(req[c], call[c])

Screens ==
  /\ kind = "web" => loaded /\ Written /\ screen # "splash"
  /\ screen = "splash" => \A c \in Calls : req[c].phase = "none"
  /\ kind = "flutter" /\ screen # "splash" => loaded
  /\ kind = "native" /\ (screen = "main" \/ (screen = "splash" /\ mem.user # None)) => loaded

SignedOutInv ==
  signedOut =>
    /\ ~LoggingIn
    /\ mem.user = None
    /\ kind = "web" => mem.access = None /\ disk.access = None
    /\ kind # "web" => disk.user = None \/ "user" \in dirty \cup removing
    /\ kind # "web" /\ ~loaded => disk.user = None

ClientInv == ClientTypes /\ Phases /\ Screens /\ SignedOutInv

LEMMA ClientInitHolds == ClientInit => ClientInv
<1> SUFFICES ASSUME ClientInit PROVE ClientInv
  OBVIOUS
<1>1. mem.user = None /\ mem \in [Keys -> Values] /\ disk \in [Keys -> Values]
  BY DEF ClientInit, Empty, Keys, Values
<1>2. NoReq \in Requests /\ \A c \in Calls : req[c] = NoReq
  BY DEF ClientInit, NoReq, Requests, Values
<1>3. ClientTypes
  BY <1>1, <1>2 DEF ClientInit, ClientTypes
<1>4. Phases
  BY <1>2 DEF NoReq, Phases, Matching
<1>5. Screens
  BY <1>1, <1>2 DEF ClientInit, NoReq, Screens, Written
<1> QED BY <1>3, <1>4, <1>5 DEF ClientInit, ClientInv, SignedOutInv

\* A step of the request c leaves the calls of the other requests alone.
CallsKept(c) == \A d \in Calls \ {c} : call'[d] = call[d]

\* After a sign-out that counts, no request becomes a login by going on.
LEMMA NoNewLogin ==
  ASSUME ClientInv, signedOut, NEW c \in Calls, NEW q,
         req' = [req EXCEPT ![c] = q],
         q.op = "login" => (req[c].op = "login" /\ req[c].phase # "storing") \/ q.phase = "storing"
  PROVE  ~LoggingIn'
<1>1. \A d \in Calls : ~(req[d].op = "login" /\ req[d].phase # "storing")
  BY DEF ClientInv, SignedOutInv, LoggingIn, Phase
<1>2. req'[c] = q /\ \A d \in Calls \ {c} : req'[d] = req[d]
  BY DEF ClientInv, ClientTypes
<1>3. ASSUME NEW d \in Calls PROVE ~(req'[d].op = "login" /\ req'[d].phase # "storing")
  BY <1>1, <1>2
<1> QED BY <1>3 DEF LoggingIn, Phase

\* No request begins a login by ending.
LEMMA DoneStillNone ==
  ASSUME ClientInv, NEW c \in Calls, Done(c), ~LoggingIn
  PROVE  ~LoggingIn'
<1>1. NoReq.op = "none" /\ req'[c] = NoReq /\ \A d \in Calls \ {c} : req'[d] = req[d]
  BY DEF Done, NoReq, ClientInv, ClientTypes
<1> QED BY <1>1 DEF LoggingIn, Phase

-----------------------------------------------------------------------------
(***************************************************************************)
(* What a request does when it ends, and when it begins.                    *)
(***************************************************************************)
\* A request ends and changes nothing else but, in Flutter, the screen.
LEMMA DoneKeeps ==
  ASSUME ClientInv, NEW c \in Calls, Done(c), CallsKept(c),
         UNCHANGED <<kind, storage, loaded, signedOut>>,
         screen' = screen \/ (kind = "flutter" /\ screen # "splash" /\ screen' # "splash")
  PROVE  ClientInv'
<1>1. ClientTypes'
  BY DEF Done, NoReq, storage, ClientInv, ClientTypes, Requests, Values
<1>2. Phases'
  BY DEF Done, NoReq, CallsKept, ClientInv, ClientTypes, Phases, Matching
<1>3. Screens'
  BY DEF Done, NoReq, storage, ClientInv, ClientTypes, Screens, Written
<1>4. SignedOutInv'
  BY DoneStillNone DEF storage, ClientInv, SignedOutInv
<1> QED BY <1>1, <1>2, <1>3, <1>4 DEF ClientInv

\* A request ends and takes the session with it: no user is left in memory, and
\* the storage is still to be cleared (clearAuth).
LEMMA DroppedKeeps ==
  ASSUME ClientInv, NEW c \in Calls, Dropped(c), CallsKept(c)
  PROVE  ClientInv'
<1>1. ClientTypes'
  BY DEF Dropped, Forget, ForgetAtOnce, Empty, Keys, Done, NoReq, ClientInv, ClientTypes, Requests, Values
<1>2. Phases'
  BY DEF Dropped, Done, NoReq, CallsKept, ClientInv, ClientTypes, Phases, Matching
<1>3. mem'.user = None /\ mem'.access = None
  BY DEF Dropped, Forget, ForgetAtOnce, Empty, Keys
<1>4. Screens'
  BY <1>3 DEF Dropped, Forget, ForgetAtOnce, Done, NoReq, ClientInv, ClientTypes, Screens, Written
<1>5. SignedOutInv'
  <2>1. CASE kind = "web"
    BY <1>3, <2>1, DoneStillNone DEF Dropped, Forget, ForgetAtOnce, Empty, Keys, ClientInv, SignedOutInv
  <2>2. CASE kind # "web"
    BY <1>3, <2>2, DoneStillNone DEF Dropped, Forget, Keys, ClientInv, ClientTypes, SignedOutInv
  <2> QED BY <2>1, <2>2
<1> QED BY <1>1, <1>2, <1>4, <1>5 DEF ClientInv

\* The dashboard's logout ends, and leaves nothing (logout of its store).
LEMMA LeftKeeps ==
  ASSUME ClientInv, NEW c \in Calls, Left(c), kind = "web", CallsKept(c)
  PROVE  ClientInv'
<1>1. ClientTypes'
  BY DEF Left, Forget, ForgetAtOnce, Empty, Keys, Done, NoReq, ClientInv, ClientTypes, Requests, Values
<1>2. Phases'
  BY DEF Left, Done, NoReq, CallsKept, ClientInv, ClientTypes, Phases, Matching
<1>3. Screens'
  BY DEF Left, Forget, ForgetAtOnce, ClientInv, Screens, Written
<1>4. SignedOutInv'
  BY DoneStillNone DEF Left, Forget, ForgetAtOnce, Empty, Keys, SignedOutInv
<1> QED BY <1>1, <1>2, <1>3, <1>4 DEF ClientInv

\* The process or the page begins anew with d in storage: no user in d, no user.
LEMMA BegunKeeps ==
  ASSUME ClientInv, NEW d \in [Keys -> Values], NEW place, Begun(place, d), kind' = kind,
         place = "splash" => kind # "web",
         kind # "web" => place = "splash",
         signedOut' => /\ kind = "web" => d.access = None
                       /\ kind # "web" => d.user = None
  PROVE  ClientInv'
<1>1. mem' \in [Keys -> Values] /\ (kind = "web" /\ d.access = None => mem'.user = None /\ mem'.access = None)
      /\ (kind # "web" => mem' = Empty)
  BY DEF Begun, Restored, Empty, Keys, Values, ClientInv, ClientTypes
<1>2. \A c \in Calls : req'[c] = NoReq
  BY DEF Begun
<1>3. ClientTypes'
  BY <1>1 DEF Begun, NoReq, ClientInv, ClientTypes, Requests, Values
<1>4. Phases'
  BY <1>2 DEF NoReq, Phases, Matching
<1>5. Screens'
  BY <1>1, <1>2 DEF Begun, NoReq, Empty, Keys, ClientInv, ClientTypes, Screens, Written
<1>6. SignedOutInv'
  <2>1. ~LoggingIn'
    BY <1>2 DEF NoReq, LoggingIn
  <2> QED BY <1>1, <2>1 DEF Begun, Empty, Keys, SignedOutInv
<1> QED BY <1>3, <1>4, <1>5, <1>6 DEF ClientInv

\* The browser loads the login page, with what is in storage or with nothing.
LEMMA ToLoginKeeps ==
  ASSUME ClientInv, NEW c \in Calls, NEW d \in {disk, Empty}, ToLogin(c, d), kind = "web"
  PROVE  ClientInv'
<1>1. PICK e \in {d, Empty} : Begun("login", e) /\ (LoggingOut(c) => e = Empty)
  BY DEF ToLogin
<1>2. Empty \in [Keys -> Values] /\ Empty.access = None
  BY DEF Empty, Keys, Values
<1>3. e \in [Keys -> Values]
  BY <1>2 DEF ClientInv, ClientTypes
<1>4. signedOut' => e.access = None
  BY <1>1, <1>2 DEF ToLogin, ClientInv, SignedOutInv
<1> QED BY <1>1, <1>3, <1>4, BegunKeeps DEF ToLogin

\* The catch block of the exchange.
LEMMA RefusedKeeps ==
  ASSUME ClientInv, NEW c \in Calls, Refused(c), CallsKept(c)
  PROVE  ClientInv'
<1>1. CASE kind = "web"
  BY <1>1, ToLoginKeeps DEF Refused
<1>2. CASE kind # "web"
  BY <1>2, DroppedKeeps DEF Refused
<1> QED BY <1>1, <1>2

\* A request is sent, from a screen that is not the splash screen.
LEMMA OpenKeeps ==
  ASSUME ClientInv, NEW c \in Calls, NEW op \in {"get", "login", "logout"}, Open(c, op),
         At(c, "idle"), screen # "splash", op = "logout" => kind = "web",
         UNCHANGED <<server, kind, storage, loaded, screen>>,
         signedOut' => signedOut /\ op # "login"
  PROVE  ClientInv'
<1>1. mem.access \in Values
  BY DEF ClientInv, ClientTypes, Keys
<1>2. ClientTypes'
  BY <1>1 DEF Open, storage, ClientInv, ClientTypes, Requests
<1>3. Phases'
  BY DEF Open, At, server, ClientInv, ClientTypes, Phases, Matching
<1>4. Screens'
  BY DEF storage, ClientInv, Screens, Written
<1>5. SignedOutInv'
  <2> SUFFICES ASSUME signedOut' PROVE SignedOutInv'
    BY DEF SignedOutInv
  <2> DEFINE q == [phase |-> "sent", op |-> op, retry |-> FALSE, token |-> mem.access]
  <2>1. q.op # "login" /\ req' = [req EXCEPT ![c] = q]
    BY DEF Open
  <2>2. ~LoggingIn'
    BY <2>1, NoNewLogin
  <2> QED BY <2>2 DEF storage, ClientInv, SignedOutInv
<1> QED BY <1>2, <1>3, <1>4, <1>5 DEF ClientInv

-----------------------------------------------------------------------------
(***************************************************************************)
(* Storage, start and sign-out of the apps.                                 *)
(***************************************************************************)
LEMMA WriteKeeps ==
  ASSUME ClientInv, Write
  PROVE  ClientInv'
<1>1. PICK k \in Keys : Flush(k) \/ Remove(k)
  BY DEF Write
<1>2. UNCHANGED <<call, kind, mem, loaded, screen, req, signedOut>>
  BY <1>1 DEF Flush, Remove, server
<1>3. mem[k] \in Values /\ None \in Values
  BY DEF ClientInv, ClientTypes, Values
<1>4. ClientTypes'
  BY <1>1, <1>2, <1>3 DEF Flush, Remove, ClientInv, ClientTypes
<1>5. Phases'
  BY <1>2 DEF ClientInv, Phases, Matching
<1>6. Screens'
  BY <1>1, <1>2 DEF Flush, Remove, Foremost, ClientInv, Screens, Written
<1>7. SignedOutInv'
  <2> LoggingIn' = LoggingIn
    BY <1>2 DEF LoggingIn, Phase
  <2>1. CASE kind = "web"
    BY <1>1, <2>1 DEF Flush, Remove, Foremost, ClientInv, Screens, Written
  <2>2. CASE kind # "web" /\ k = "user"
    BY <1>1, <1>2, <2>2 DEF Flush, Remove, Keys, ClientInv, ClientTypes, SignedOutInv
  <2>3. CASE kind # "web" /\ k # "user"
    <3>1. disk'.user = disk.user
      BY <1>1, <2>3 DEF Flush, Remove, Keys, ClientInv, ClientTypes
    <3>2. "user" \in dirty \cup removing => "user" \in dirty' \cup removing'
      BY <1>1, <2>3 DEF Flush, Remove
    <3> QED BY <1>2, <2>3, <3>1, <3>2 DEF ClientInv, SignedOutInv
  <2> QED BY <2>1, <2>2, <2>3
<1> QED BY <1>4, <1>5, <1>6, <1>7 DEF ClientInv

\* Reading the storage brings back no user whom a sign-out has left without a
\* word there (loadFromStorage).
LEMMA LoadKeeps ==
  ASSUME ClientInv, Load
  PROVE  ClientInv'
<1>1. kind # "web" /\ loaded'
  BY DEF Load, ClientInv, Screens
<1>2. mem' \in [Keys -> Values] /\ (disk.user = None /\ mem.user = None => mem'.user = None)
  <2>1. CASE kind = "native"
    BY <2>1 DEF Load, Restored, NativeRestored, Empty, Keys, Values, Complete, ClientInv, ClientTypes
  <2>2. CASE kind = "flutter"
    BY <2>2 DEF Load, Restored, FlutterRestored, Keys, Values, ClientInv, ClientTypes
  <2> QED BY <1>1, <2>1, <2>2 DEF ClientInv, ClientTypes
<1>3. UNCHANGED <<call, kind, disk, dirty, removing, screen, req, signedOut>>
  BY DEF Load, server
<1>4. ClientTypes'
  BY <1>2, <1>3 DEF ClientInv, ClientTypes
<1>5. Phases'
  BY <1>3 DEF ClientInv, Phases, Matching
<1>6. Screens'
  BY <1>1, <1>3 DEF ClientInv, Screens
<1>7. SignedOutInv'
  BY <1>1, <1>2, <1>3 DEF Load, ClientInv, SignedOutInv, LoggingIn, Phase
<1> QED BY <1>4, <1>5, <1>6, <1>7 DEF ClientInv

\* The splash screen goes on with what has been read.
LEMMA SplashKeeps ==
  ASSUME ClientInv, SplashTimer \/ SplashInit
  PROVE  ClientInv'
<1>1. UNCHANGED <<call, kind, mem, disk, dirty, removing, loaded, req, signedOut>>
  BY DEF SplashTimer, SplashInit, Decide, server, storage
<1>2. ClientTypes' /\ Phases' /\ SignedOutInv'
  BY <1>1 DEF ClientInv, ClientTypes, Phases, Matching, SignedOutInv, LoggingIn, Phase
<1>3. Screens'
  BY <1>1 DEF SplashTimer, SplashInit, Decide, SignedIn, ClientInv, Screens, Written
<1> QED BY <1>2, <1>3 DEF ClientInv

\* The app or the page begins anew, with a sign-out that is in storage or with
\* none that counts.
LEMMA RestartKeeps ==
  ASSUME ClientInv, Restart
  PROVE  ClientInv'
<1>1. PICK place \in {"splash", "login", "main"} :
         Begun(place, disk) /\ (place = "splash" <=> kind # "web")
  BY DEF Restart
<1>2. signedOut' => signedOut /\ Written
  BY DEF Restart
<1>3. signedOut' => /\ kind = "web" => disk.access = None
                    /\ kind # "web" => disk.user = None
  BY <1>2 DEF Written, ClientInv, SignedOutInv
<1>4. disk \in [Keys -> Values] /\ kind' = kind
  BY DEF Restart, ClientInv, ClientTypes
<1> QED BY <1>1, <1>3, <1>4, BegunKeeps

\* The apps sign out on their own (clearAuth).
LEMMA SignOutKeeps ==
  ASSUME ClientInv, NativeSignOut \/ FlutterSignOut
  PROVE  ClientInv'
<1>1. /\ SignOut /\ kind # "web" /\ screen = "main" /\ screen' # "splash"
      /\ kind = "native" => screen' = screen
  BY DEF NativeSignOut, FlutterSignOut, SignOut, LogoutOffered
<1>2. UNCHANGED <<call, kind, disk, loaded, req>> /\ mem' = Empty
      /\ dirty' = (IF kind = "native" THEN Keys ELSE {})
      /\ removing' = (IF kind = "flutter" THEN Keys ELSE {})
  BY <1>1 DEF SignOut, Forget, server
<1>3. mem' \in [Keys -> Values] /\ mem'.user = None
  BY <1>2 DEF Empty, Keys, Values
<1>4. ClientTypes'
  BY <1>2, <1>3 DEF ClientInv, ClientTypes
<1>5. Phases'
  BY <1>2 DEF ClientInv, Phases, Matching
<1>6. loaded
  BY <1>1 DEF ClientInv, ClientTypes, Screens
<1>7. signedOut' => ~LoggingIn'
  BY <1>1, <1>2 DEF SignOut, LoggingIn, Phase
<1>8. Screens' /\ SignedOutInv'
  BY <1>1, <1>2, <1>3, <1>6, <1>7 DEF ClientInv, ClientTypes, Screens, SignedOutInv, Keys
<1> QED BY <1>4, <1>5, <1>8 DEF ClientInv

-----------------------------------------------------------------------------
(***************************************************************************)
(* Requests and answers.                                                    *)
(***************************************************************************)
LEMMA SendKeeps ==
  ASSUME ClientInv, NEW c \in Calls,
         Send(c) \/ NativeLogin(c) \/ FlutterLogin(c) \/ WebLogin(c) \/ SubmitLogout(c)
  PROVE  ClientInv'
<1>1. PICK op \in {"get", "login", "logout"} :
         /\ Open(c, op) /\ At(c, "idle") /\ (op = "logout" => kind = "web")
         /\ screen \in {"login", "main"} \/ kind = "web"
         /\ UNCHANGED <<server, kind, storage, loaded, screen>>
         /\ signedOut' => signedOut /\ op # "login"
  BY DEF Send, NativeLogin, FlutterLogin, WebLogin, SubmitLogin, SubmitLogout, LogoutOffered
<1>2. screen # "splash"
  BY <1>1 DEF ClientInv, Screens
<1> QED BY <1>1, <1>2, OpenKeeps

\* The server begins with a login, a logout or a rotation: the request waits.
LEMMA WaitKeeps ==
  ASSUME ClientInv, NEW c \in Calls, NEW p \in {"served", "refreshing"},
         req[c].phase = "sent", InPhase(c, p), CallsKept(c),
         kind = "web" /\ p = "refreshing" => call' = call,
         UNCHANGED <<kind, storage, loaded, screen, signedOut>>
  PROVE  ClientInv'
<1>1. ClientTypes'
  BY DEF InPhase, storage, ClientInv, ClientTypes, Requests
<1>2. req'[c].phase = p /\ req'[c].op = req[c].op /\ \A d \in Calls \ {c} : req'[d] = req[d]
  BY DEF InPhase, ClientInv, ClientTypes, Requests
<1>3. Phases'
  BY <1>2 DEF CallsKept, ClientInv, Phases, Matching
<1>4. Screens'
  BY <1>2 DEF storage, ClientInv, Screens, Written
<1>5. SignedOutInv'
  <2> SUFFICES ASSUME signedOut PROVE SignedOutInv'
    BY DEF SignedOutInv
  <2> DEFINE q == [req[c] EXCEPT !.phase = p]
  <2>1. q.op = req[c].op /\ req' = [req EXCEPT ![c] = q]
    BY DEF InPhase, ClientInv, ClientTypes, Requests
  <2>2. ~LoggingIn'
    BY <2>1, NoNewLogin
  <2> QED BY <2>2 DEF storage, ClientInv, SignedOutInv
<1> QED BY <1>1, <1>3, <1>4, <1>5 DEF ClientInv

LEMMA BeginsAreWaits ==
  ASSUME ClientInv, SessionInv, NEW c \in Calls,
         (\E f \in Families : LoginAccepted(c, f)) \/ LogoutAccepted(c) \/ StartRotation(c)
  PROVE  ClientInv'
<1>1. CASE (\E f \in Families : LoginAccepted(c, f)) \/ LogoutAccepted(c)
  <2>1. Begin(c)
    BY <1>1 DEF LoginAccepted, LogoutAccepted, Valid, Begin, Logout, Authenticated, SessionInv, TypeOK
  <2>2. CallsKept(c)
    BY <2>1, OwnState DEF CallsKept
  <2> QED BY <1>1, <2>2, WaitKeeps DEF LoginAccepted, LogoutAccepted, Phase
<1>2. CASE StartRotation(c)
  <2>1. call' = call \/ (Refresh(c, mem.refresh) /\ kind # "web" /\ mem.refresh \in held)
    BY <1>2 DEF StartRotation, Exchangeable, server
  <2>2. CallsKept(c)
    <3>1. CASE call' = call
      BY <3>1 DEF CallsKept
    <3>2. CASE call' # call
      <4>1. Begin(c)
        BY <2>1, <3>2 DEF Begin, SessionInv, TypeOK
      <4> QED BY <4>1, OwnState DEF CallsKept
    <3> QED BY <3>1, <3>2
  <2> QED BY <1>2, <2>1, <2>2, WaitKeeps DEF StartRotation, Denied, Phase
<1> QED BY <1>1, <1>2

\* A request that ends without the session.
LEMMA EndsKeep ==
  ASSUME ClientInv, NEW c \in Calls,
         Accepted(c) \/ DeniedAgain(c) \/ NothingToExchange(c) \/ Enter(c) \/ StoreFails(c)
  PROVE  ClientInv'
<1>1. CallsKept(c)
  BY DEF Accepted, DeniedAgain, NothingToExchange, Enter, StoreFails, server, CallsKept
<1>2. CASE Accepted(c) \/ StoreFails(c)
  BY <1>1, <1>2, DoneKeeps DEF Accepted, StoreFails
<1>3. CASE Enter(c)
  <2>1. kind = "flutter" /\ screen # "splash"
    BY <1>3 DEF Enter, Phase, ClientInv, ClientTypes, Phases, Matching, Screens
  <2>2. screen' # "splash"
    BY <1>3, <2>1 DEF Enter
  <2> QED BY <1>1, <1>3, <2>1, <2>2, DoneKeeps DEF Enter
<1>4. CASE DeniedAgain(c)
  BY <1>1, <1>4, DoneKeeps, DroppedKeeps DEF DeniedAgain
<1>5. CASE NothingToExchange(c)
  BY <1>1, <1>5, ToLoginKeeps, DroppedKeeps DEF NothingToExchange
<1> QED BY <1>2, <1>3, <1>4, <1>5

\* Answers of the server end its call.
LEMMA AnswerCalls ==
  ASSUME SessionInv, NEW c \in Calls, Answer(c) \/ Purged(c)
  PROVE  ~At(c, "idle") /\ At(c, "idle")' /\ CallsKept(c)
<1>1. call' = [call EXCEPT ![c] = Idle] /\ call[c].pc # "idle"
  BY DEF Answer, Purged, Return, At
<1> QED BY <1>1 DEF At, Idle, CallsKept, SessionInv, TypeOK

\* The new tokens come without a user (updateToken, updateTokens); the dashboard
\* gets none.
LEMMA RotatedKeeps ==
  ASSUME ClientInv, SessionInv, NEW c \in Calls, Rotated(c)
  PROVE  ClientInv'
<1>1. ~At(c, "idle") /\ At(c, "idle")' /\ CallsKept(c)
  BY AnswerCalls DEF Rotated
<1>2. kind # "web"
  BY <1>1 DEF Rotated, Phase, At, ClientInv, Phases, Matching
<1>3. PICK f \in Values : f = call[c].family
  BY DEF SessionInv, TypeOK, CallStates, Values
<1>4. mem' = Successor(f) /\ UNCHANGED <<disk, removing, kind, loaded, screen, signedOut>>
      /\ dirty' \in SUBSET Keys /\ dirty \subseteq dirty'
  BY <1>2, <1>3 DEF Rotated, Remember, Keys, ClientInv, ClientTypes
<1>5. mem' \in [Keys -> Values] /\ mem'.user = mem.user
  BY <1>4 DEF Successor, ClientInv, ClientTypes, Keys
<1>6. req' = [req EXCEPT ![c] = [req[c] EXCEPT !.phase = "sent", !.retry = TRUE, !.token = f]]
  BY <1>3 DEF Rotated
<1>7. PICK q \in Requests : /\ req' = [req EXCEPT ![c] = q]
                            /\ q.phase = "sent" /\ q.op = req[c].op
  <2>1. req[c] \in Requests
    BY DEF ClientInv, ClientTypes
  <2> DEFINE q == [req[c] EXCEPT !.phase = "sent", !.retry = TRUE, !.token = f]
  <2>2. q \in Requests /\ q.phase = "sent" /\ q.op = req[c].op
    BY <2>1 DEF Requests
  <2> QED BY <1>6, <2>2
<1>8. ClientTypes'
  BY <1>4, <1>5, <1>7 DEF ClientInv, ClientTypes
<1>9. req'[c] = q /\ \A d \in Calls \ {c} : req'[d] = req[d]
  BY <1>7 DEF ClientInv, ClientTypes
<1>10. Phases'
  BY <1>1, <1>2, <1>4, <1>7, <1>9 DEF CallsKept, At, ClientInv, Phases, Matching
<1>11. Screens'
  <2>1. screen # "splash"
    BY DEF Rotated, Phase, ClientInv, Screens
  <2> QED BY <1>2, <1>4, <2>1 DEF ClientInv, Screens
<1>12. SignedOutInv'
  <2> SUFFICES ASSUME signedOut PROVE SignedOutInv'
    BY <1>4 DEF SignedOutInv
  <2>1. req[c].phase # "storing"
    BY DEF Rotated, Phase
  <2>2. ~LoggingIn'
    BY <1>7, <2>1, NoNewLogin
  <2> QED BY <1>2, <1>4, <1>5, <2>2 DEF ClientInv, SignedOutInv
<1> QED BY <1>8, <1>10, <1>11, <1>12 DEF ClientInv

\* Only a login signs the user in again, and none is under way after a sign-out
\* that counts.
LEMMA LoginAnsweredKeeps ==
  ASSUME ClientInv, SessionInv, NEW c \in Calls, LoginAnswered(c)
  PROVE  ClientInv'
<1>1. At(c, "idle")' /\ CallsKept(c)
  BY AnswerCalls DEF LoginAnswered
<1>2. PICK f \in Values : f = call[c].family
  BY DEF SessionInv, TypeOK, CallStates, Values
<1>3. PICK m \in [Keys -> Values] : Remember(m, Keys) /\ m = [access |-> f, refresh |-> f, user |-> Employee]
  BY <1>2 DEF LoginAnswered, Keys, Values
<1>4. mem' = m /\ disk' \in [Keys -> Values] /\ dirty' \in SUBSET Keys /\ removing' = removing
      /\ (kind = "web" => dirty' = dirty)
  BY <1>3 DEF Remember, RememberAtOnce, Keys, Values, ClientInv, ClientTypes
<1>5. PICK q \in Requests : /\ req' = [req EXCEPT ![c] = q]
                            /\ q.phase = "none" \/ (q.phase = "storing" /\ kind = "flutter")
                            /\ q.op \in {"none", req[c].op}
  <2>1. req[c] \in Requests
    BY DEF ClientInv, ClientTypes
  <2>2. CASE kind = "flutter"
    <3> DEFINE q == [req[c] EXCEPT !.phase = "storing"]
    <3>1. q \in Requests /\ q.phase = "storing" /\ q.op = req[c].op
      BY <2>1 DEF Requests
    <3>2. req' = [req EXCEPT ![c] = q]
      BY <2>2 DEF LoginAnswered, InPhase
    <3> QED BY <2>2, <3>1, <3>2
  <2>3. CASE kind # "flutter"
    <3>1. NoReq \in Requests /\ NoReq.phase = "none" /\ NoReq.op = "none"
      BY DEF NoReq, Requests, Values
    <3> QED BY <2>3, <3>1 DEF LoginAnswered, Done
  <2> QED BY <2>2, <2>3
<1>6. UNCHANGED <<kind, loaded, signedOut>>
      /\ screen' = IF kind = "web" THEN "main" ELSE screen
  BY DEF LoginAnswered
<1>7. ClientTypes'
  BY <1>4, <1>5, <1>6 DEF ClientInv, ClientTypes
<1>8. req'[c] = q /\ \A d \in Calls \ {c} : req'[d] = req[d]
  BY <1>5 DEF ClientInv, ClientTypes
<1>9. Phases'
  BY <1>1, <1>5, <1>6, <1>8 DEF CallsKept, At, ClientInv, Phases, Matching
<1>10. Screens'
  <2>1. screen # "splash"
    BY DEF LoginAnswered, Phase, ClientInv, Screens
  <2> QED BY <1>4, <1>6, <2>1 DEF ClientInv, Screens, Written
<1>11. SignedOutInv'
  <2>1. LoggingIn
    BY DEF LoginAnswered, LoggingIn, Phase
  <2> QED BY <1>6, <2>1 DEF ClientInv, SignedOutInv
<1> QED BY <1>7, <1>9, <1>10, <1>11 DEF ClientInv

\* An exchange refused, a logout answered.
LEMMA RefusalsKeep ==
  ASSUME ClientInv, SessionInv, NEW c \in Calls, NotRotated(c) \/ LogoutAnswered(c)
  PROVE  ClientInv'
<1>1. CASE NotRotated(c)
  <2>1. CallsKept(c)
    BY <1>1, AnswerCalls DEF NotRotated, server, CallsKept
  <2> QED BY <1>1, <2>1, RefusedKeeps DEF NotRotated
<1>2. CASE LogoutAnswered(c)
  <2>1. CallsKept(c)
    BY <1>2, AnswerCalls DEF LogoutAnswered
  <2>2. kind = "web"
    BY <1>2 DEF LogoutAnswered, ClientInv, Phases, Matching
  <2> QED BY <1>2, <2>1, <2>2, LeftKeeps DEF LogoutAnswered
<1> QED BY <1>1, <1>2

\* An answer lost.
LEMMA LostKeeps ==
  ASSUME ClientInv, NEW c \in Calls, Lost(c)
  PROVE  ClientInv'
<1>1. CallsKept(c)
  BY DEF Lost, server, CallsKept
<1>2. CASE Phase(c, "refreshing")
  BY <1>1, <1>2, RefusedKeeps, DroppedKeeps DEF Lost
<1>3. CASE ~Phase(c, "refreshing") /\ LoggingOut(c)
  <2>1. kind = "web"
    BY <1>3 DEF LoggingOut, ClientInv, Phases, Matching
  <2> QED BY <1>1, <1>3, <2>1, LeftKeeps DEF Lost
<1>4. CASE ~Phase(c, "refreshing") /\ ~LoggingOut(c) /\ kind = "flutter" /\ req[c].retry
  BY <1>1, <1>4, DroppedKeeps DEF Lost
<1>5. CASE ~Phase(c, "refreshing") /\ ~LoggingOut(c) /\ ~(kind = "flutter" /\ req[c].retry)
  BY <1>1, <1>5, DoneKeeps DEF Lost
<1> QED BY <1>2, <1>3, <1>4, <1>5

-----------------------------------------------------------------------------
(***************************************************************************)
(* What the clients have the server do, they do by its calls: whatever      *)
(* AuthProofs says of the sessions holds with these clients.                *)
(***************************************************************************)
LEMMA FreshFamilies ==
  ASSUME SessionInv
  PROVE  Fresh \subseteq Families
<1>1. CASE generated = Families
  BY <1>1 DEF Fresh
<1>2. CASE generated # Families
  <2>1. \E f : f \in Families /\ f \notin generated
    BY <1>2 DEF SessionInv, TypeOK
  <2>2. (CHOOSE f \in Families : f \notin generated) \in Families
    BY <2>1
  <2> QED BY <1>2, <2>2 DEF Fresh
<1> QED BY <1>1, <1>2

LEMMA ServeMoves ==
  ASSUME SessionInv, NEW c \in Calls, Serve(c)
  PROVE  Continue(c) /\ UNCHANGED device
  BY FreshFamilies DEF Serve, Continue

LEMMA ProgressMoves ==
  ASSUME SessionInv, NEW c \in Calls, Progress(c)
  PROVE  Begin(c) \/ Continue(c) \/ UNCHANGED server
<1>1. CASE (\E f \in Fresh : LoginAccepted(c, f)) \/ LogoutAccepted(c)
  <2>1. Fresh \subseteq Families
    BY FreshFamilies
  <2>2. held \subseteq Families
    BY DEF SessionInv, TypeOK
  <2> QED BY <1>1, <2>1, <2>2 DEF LoginAccepted, LogoutAccepted, Valid, Begin
<1>2. CASE StartRotation(c)
  BY <1>2 DEF StartRotation, Exchangeable, Begin, SessionInv, TypeOK
<1>3. CASE Rotated(c) \/ NotRotated(c) \/ LoginAnswered(c) \/ LogoutAnswered(c)
  BY <1>3 DEF Rotated, NotRotated, LoginAnswered, LogoutAnswered, Continue
<1>4. CASE Accepted(c) \/ DeniedAgain(c) \/ NothingToExchange(c) \/ Enter(c) \/ StoreFails(c) \/ Lost(c)
  BY <1>4 DEF Accepted, DeniedAgain, NothingToExchange, Enter, StoreFails, Lost
<1> QED BY <1>1, <1>2, <1>3, <1>4 DEF Progress

LEMMA ServerMoves == SessionInv /\ [ClientNext]_allVars => [Next]_vars
<1> SUFFICES ASSUME SessionInv, [ClientNext]_allVars PROVE [Next]_vars
  OBVIOUS
<1>1. ASSUME NEW c \in Calls, Begin(c) \/ Continue(c) \/ Fail(c) PROVE Next
  BY <1>1 DEF Next, Reliable
<1>2. ASSUME UNCHANGED server PROVE UNCHANGED vars
  BY <1>2 DEF server, vars
<1>3. CASE UNCHANGED allVars
  BY <1>2, <1>3 DEF allVars
<1>4. ASSUME NEW c \in Calls, Serve(c) \/ Progress(c) \/ Abandoned(c) PROVE [Next]_vars
  BY <1>1, <1>2, <1>4, ServeMoves, ProgressMoves DEF Abandoned
<1>5. ASSUME NEW c \in Calls,
             Send(c) \/ NativeLogin(c) \/ FlutterLogin(c) \/ WebLogin(c) \/ SubmitLogout(c)
      PROVE  UNCHANGED server
  BY <1>5 DEF Send, NativeLogin, FlutterLogin, WebLogin, SubmitLogin, SubmitLogout
<1>6. CASE Write \/ Load \/ SplashTimer \/ SplashInit \/ Restart \/ NativeSignOut \/ FlutterSignOut
  <2>1. UNCHANGED server
    BY <1>6 DEF Write, Flush, Remove, Load, SplashTimer, SplashInit, Decide, Restart,
                NativeSignOut, FlutterSignOut, SignOut
  <2> QED BY <1>2, <2>1
<1>7. ASSUME NEW f \in Families, AccessExpires(f) PROVE UNCHANGED server
  BY <1>7 DEF AccessExpires
<1> QED BY <1>2, <1>3, <1>4, <1>5, <1>6, <1>7 DEF ClientNext

\* A step of the server on its own changes its call only, and that is no call
\* of a request that expects none.
LEMMA ServerKeeps ==
  ASSUME ClientInv, SessionInv, NEW c \in Calls, Serve(c) \/ Abandoned(c)
  PROVE  ClientInv'
<1>1. CallsKept(c) /\ UNCHANGED device
  <2>1. CASE Serve(c)
    BY <2>1, ServeMoves, OwnState DEF CallsKept
  <2>2. CASE Abandoned(c)
    BY <2>2 DEF Abandoned, Fail, Return, CallsKept, SessionInv, TypeOK
  <2> QED BY <2>1, <2>2
<1>2. ~At(c, "idle") \/ req[c].phase = "none"
  BY DEF Serve, Abandoned, Phase, Check, Count, Evict, Store, Revoke, List, Purge, Exchange, At
<1>3. UNCHANGED <<kind, mem, disk, dirty, removing, loaded, screen, req, signedOut>>
  BY <1>1 DEF device
<1>4. ClientTypes' /\ Screens' /\ SignedOutInv'
  BY <1>3 DEF ClientInv, ClientTypes, Screens, Written, SignedOutInv, LoggingIn, Phase
<1>5. Phases'
  BY <1>1, <1>2, <1>3 DEF CallsKept, At, ClientInv, Phases, Matching
<1> QED BY <1>4, <1>5 DEF ClientInv

LEMMA ClientNextHolds == ClientInv /\ SessionInv /\ [ClientNext]_allVars => ClientInv'
<1> SUFFICES ASSUME ClientInv, SessionInv, [ClientNext]_allVars PROVE ClientInv'
  OBVIOUS
<1>1. ASSUME NEW c \in Calls, Progress(c) PROVE ClientInv'
  <2>1. Fresh \subseteq Families
    BY FreshFamilies
  <2>2. ASSUME NEW f \in Fresh, LoginAccepted(c, f) PROVE ClientInv'
    BY <2>1, <2>2, BeginsAreWaits
  <2> QED BY <1>1, <2>2, BeginsAreWaits, EndsKeep, RotatedKeeps, LoginAnsweredKeeps, RefusalsKeep,
             LostKeeps DEF Progress
<1>2. CASE Write \/ Load \/ SplashTimer \/ SplashInit \/ Restart \/ NativeSignOut \/ FlutterSignOut
  BY <1>2, WriteKeeps, LoadKeeps, SplashKeeps, RestartKeeps, SignOutKeeps
<1>3. ASSUME NEW f \in Families, AccessExpires(f) PROVE ClientInv'
  BY <1>3 DEF AccessExpires, server, storage, ClientInv, ClientTypes, Phases, Matching, Screens,
              Written, SignedOutInv, LoggingIn, Phase
<1>4. CASE UNCHANGED allVars
  BY <1>4 DEF allVars, server, device, ClientInv, ClientTypes, Phases, Matching, Screens,
              Written, SignedOutInv, LoggingIn, Phase
<1> QED BY <1>1, <1>2, <1>3, <1>4, SendKeeps, ServerKeeps DEF ClientNext

LEMMA ClientsHold == ClientSpec => [](SessionInv /\ ClientInv)
<1>1. ClientInit => SessionInv
  BY InitSound DEF ClientInit
<1>2. SessionInv /\ [ClientNext]_allVars => SessionInv'
  BY ServerMoves, NextSound
<1> QED BY <1>1, <1>2, ClientInitHolds, ClientNextHolds, PTL DEF ClientSpec

\* The three clients use the server as AuthSessions has it used: each of their
\* steps is a step of its calls, or none (client.ts, api_client.dart, api.ts).
THEOREM ClientsImplementSessions == ClientSpec => Spec
<1>1. ClientInit => Init
  BY DEF ClientInit
<1> QED BY <1>1, ClientsHold, ServerMoves, PTL DEF ClientSpec, Spec

\* After a sign-out with no login under way, and until the user begins to log in,
\* no answer to another request or exchange signs him in again, nor does the
\* storage at a restart, once the sign-out is in it: in none of the three clients,
\* whatever requests overlap or are lost (clearAuth, updateToken, updateTokens,
\* loadFromStorage).
THEOREM SignOutHolds == ClientSpec => []SignedOutStaysOut
<1>1. SessionInv /\ ClientInv => SignedOutStaysOut
  <2> SUFFICES ASSUME ClientInv, signedOut, Written PROVE ~SignedIn(mem) /\ ~SignedIn(Restored(disk))
    BY DEF SignedOutStaysOut
  <2>1. ~SignedIn(mem)
    BY DEF ClientInv, SignedOutInv, SignedIn
  <2>2. CASE kind = "web"
    BY <2>2 DEF ClientInv, ClientTypes, SignedOutInv, SignedIn, Restored, Keys
  <2>3. CASE kind # "web"
    <3>1. disk.user = None
      BY <2>3 DEF ClientInv, SignedOutInv, Written
    <3>2. ~Complete(disk)
      BY <3>1 DEF Complete, Keys
    <3>3. Restored(disk).user = None
      BY <2>3, <3>1, <3>2 DEF Restored, NativeRestored, FlutterRestored, Empty, Keys, ClientInv, ClientTypes
    <3> QED BY <2>1, <3>3 DEF SignedIn
  <2> QED BY <2>1, <2>2, <2>3 DEF ClientInv, ClientTypes
<1> QED BY <1>1, ClientsHold, PTL

-----------------------------------------------------------------------------
(***************************************************************************)
(* The invariant LoneInv of a Flutter or web client that has sent one       *)
(* request at a time, and lost none and no write: whenever the server is    *)
(* not at work for it, the refresh token it has in memory is live, and so   *)
(* is the one it will find in storage.                                      *)
(***************************************************************************)
Live(r) == r \in {None} \cup whitelist \cup expired
AllIdle == \A c \in Calls : At(c, "idle")

OneRequest == \A c, d \in Calls : c # d => req[c] = NoReq \/ req[d] = NoReq

Attended ==
  \A c \in Calls :
    /\ req[c].phase = "none" => req[c] = NoReq
    /\ req[c] = NoReq => At(c, "idle")
    /\ At(c, "answer") => Live(call[c].family)

Stored ==
  /\ kind = "web" => disk.refresh = mem.refresh
  /\ kind = "flutter" /\ loaded /\ "refresh" \notin dirty \cup removing =>
       disk.refresh \in {None, mem.refresh}
  /\ kind = "flutter" /\ ~loaded => Written /\ Live(disk.refresh)

Undisturbed == OneRequest /\ Attended /\ Stored /\ (AllIdle => Live(mem.refresh))

LoneInv == ~disturbed /\ kind # "native" => Undisturbed

LoneBefore == ClientInv /\ SessionInv /\ Undisturbed /\ kind \in {"flutter", "web"} /\ kind' = kind
KeysKept == UNCHANGED <<whitelist, expired>>

\* While a request is in progress, no other is, and no other call.
LEMMA OnlyOne ==
  ASSUME LoneBefore, NEW c \in Calls, req[c] # NoReq
  PROVE  \A d \in Calls \ {c} : req[d] = NoReq /\ At(d, "idle")
  BY DEF LoneBefore, Undisturbed, OneRequest, Attended

\* A request in progress means an app that is past its splash screen.
LEMMA PastSplash ==
  ASSUME LoneBefore, NEW c \in Calls, req[c].phase # "none"
  PROVE  loaded /\ req[c] # NoReq
  BY DEF LoneBefore, ClientInv, Screens, NoReq

\* A request ends with its call over, and changes no token.
LEMMA DoneLone ==
  ASSUME LoneBefore, NEW c \in Calls, req[c].phase # "none", At(c, "idle"),
         Done(c), call' = call, KeysKept, UNCHANGED <<storage, loaded>>
  PROVE  Undisturbed'
<1>1. req[c] # NoReq /\ loaded
  BY PastSplash
<1>2. \A d \in Calls : req'[d] = NoReq
  BY <1>1, OnlyOne DEF Done, LoneBefore, ClientInv, ClientTypes
<1>3. AllIdle
  BY <1>1, OnlyOne DEF AllIdle
<1>4. OneRequest' /\ Attended'
  BY <1>2, <1>3 DEF OneRequest, Attended, AllIdle, At
<1>5. Stored' /\ Live(mem.refresh)'
  BY <1>1, <1>3 DEF KeysKept, storage, LoneBefore, Undisturbed, Stored, Live, Written
<1> QED BY <1>4, <1>5 DEF Undisturbed

\* A request ends with its call over, and the tokens are cleared.
LEMMA ForgetLone ==
  ASSUME LoneBefore, NEW c \in Calls, req[c].phase # "none", At(c, "idle")',
         Done(c), CallsKept(c), KeysKept, Forget, loaded' = loaded
  PROVE  Undisturbed'
<1>1. req[c] # NoReq /\ loaded
  BY PastSplash
<1>2. \A d \in Calls : req'[d] = NoReq
  BY <1>1, OnlyOne DEF Done, LoneBefore, ClientInv, ClientTypes
<1>3. AllIdle'
  BY <1>1, OnlyOne DEF AllIdle, CallsKept, At
<1>4. OneRequest' /\ Attended'
  BY <1>2, <1>3 DEF OneRequest, Attended, AllIdle, At
<1>5. mem'.refresh = None
  BY DEF Forget, ForgetAtOnce, Empty, Keys
<1>6. Stored'
  <2>1. CASE kind = "web"
    BY <1>5, <2>1 DEF LoneBefore, Forget, ForgetAtOnce, Empty, Keys, Stored
  <2>2. CASE kind = "flutter"
    BY <1>1, <2>2 DEF LoneBefore, Forget, Keys, Stored
  <2> QED BY <2>1, <2>2 DEF LoneBefore
<1> QED BY <1>4, <1>5, <1>6 DEF Undisturbed, Live

\* The process or the page begins anew, with a live token in storage or none.
LEMMA BegunLone ==
  ASSUME LoneBefore, NEW place, NEW d \in [Keys -> Values], Begun(place, d), AllIdle',
         KeysKept, Live(d.refresh)
  PROVE  Undisturbed'
<1>1. \A c \in Calls : req'[c] = NoReq
  BY DEF Begun
<1>2. OneRequest' /\ Attended'
  BY <1>1 DEF OneRequest, Attended, AllIdle, At
<1>3. mem'.refresh = (IF kind = "web" THEN d.refresh ELSE None)
  BY DEF Begun, Restored, Empty, Keys, LoneBefore
<1>4. Live(mem.refresh)'
  BY <1>3 DEF Live, KeysKept
<1>5. Stored'
  BY <1>3 DEF Begun, LoneBefore, Stored, Written, Live, KeysKept
<1> QED BY <1>2, <1>4, <1>5 DEF Undisturbed

\* The catch block of the exchange, and the login page with nothing in storage.
LEMMA EmptyPageLone ==
  ASSUME LoneBefore, NEW c \in Calls, req[c].phase # "none", At(c, "idle")', CallsKept(c), KeysKept,
         ToLogin(c, Empty) \/ (ToLogin(c, disk) /\ disk.refresh = None)
  PROVE  Undisturbed'
<1>1. AllIdle'
  BY PastSplash, OnlyOne DEF AllIdle, CallsKept, At
<1>2. Empty \in [Keys -> Values] /\ Empty.refresh = None
  BY DEF Empty, Keys, Values
<1>3. PICK e \in [Keys -> Values] : Begun("login", e) /\ e.refresh = None
  BY <1>2 DEF ToLogin, LoneBefore, ClientInv, ClientTypes
<1> QED BY <1>1, <1>3, BegunLone DEF Live

LEMMA RefusedLone ==
  ASSUME LoneBefore, NEW c \in Calls, req[c].phase # "none", At(c, "idle")', CallsKept(c), KeysKept,
         Refused(c)
  PROVE  Undisturbed'
  BY ForgetLone, EmptyPageLone DEF Refused, Dropped

-----------------------------------------------------------------------------
\* Nothing of this depends on when the storage is written (Flutter's _saveTokens).
LEMMA WriteLone ==
  ASSUME LoneBefore, Write
  PROVE  Undisturbed'
<1>1. PICK k \in Keys : Flush(k) \/ Remove(k)
  BY DEF Write
<1>2. UNCHANGED <<whitelist, expired, call, mem, loaded, req>>
  BY <1>1 DEF Flush, Remove, server
<1>3. OneRequest' /\ Attended' /\ (AllIdle => Live(mem.refresh))'
  BY <1>2 DEF LoneBefore, Undisturbed, OneRequest, Attended, AllIdle, Live, At
<1>4. ~Written
  BY <1>1 DEF Flush, Remove, Foremost, Written
<1>5. kind = "flutter" /\ loaded
  BY <1>4 DEF LoneBefore, ClientInv, Screens, Undisturbed, Stored
<1>6. Stored'
  <2>1. CASE k = "refresh"
    BY <1>1, <1>2, <1>5, <2>1 DEF Flush, Remove, LoneBefore, ClientInv, ClientTypes, Stored, Keys
  <2>2. CASE k # "refresh"
    <3>1. disk'.refresh = disk.refresh
      BY <1>1, <2>2 DEF Flush, Remove, LoneBefore, ClientInv, ClientTypes, Keys
    <3>2. "refresh" \in dirty \cup removing => "refresh" \in dirty' \cup removing'
      BY <1>1, <2>2 DEF Flush, Remove
    <3> QED BY <1>2, <1>5, <3>1, <3>2 DEF LoneBefore, Undisturbed, Stored
  <2> QED BY <2>1, <2>2
<1> QED BY <1>3, <1>6 DEF Undisturbed

\* Flutter's loadFromStorage takes the refresh token as it is.
LEMMA LoadLone ==
  ASSUME LoneBefore, Load
  PROVE  Undisturbed'
<1>1. kind = "flutter" /\ ~loaded /\ loaded'
  BY DEF Load, LoneBefore, ClientInv, Screens
<1>2. mem'.refresh = disk.refresh /\ UNCHANGED <<whitelist, expired, call, req, disk>>
  BY <1>1 DEF Load, Restored, FlutterRestored, server, LoneBefore, ClientInv, ClientTypes, Keys
<1>3. Live(disk.refresh)
  BY <1>1 DEF LoneBefore, Undisturbed, Stored
<1> QED BY <1>1, <1>2, <1>3 DEF LoneBefore, Undisturbed, OneRequest, Attended, AllIdle, Live, At, Stored

LEMMA SplashLone ==
  ASSUME LoneBefore, SplashTimer \/ SplashInit
  PROVE  Undisturbed'
  BY DEF SplashTimer, SplashInit, Decide, server, storage, LoneBefore, Undisturbed, OneRequest,
         Attended, AllIdle, Live, At, Stored, Written

\* What a restart finds in storage is what was in memory, or no token.
LEMMA RestartLone ==
  ASSUME LoneBefore, Restart, ~disturbed'
  PROVE  Undisturbed'
<1>1. Written /\ \A c \in Calls : req[c] = NoReq
  BY DEF Restart
<1>2. AllIdle
  BY <1>1 DEF LoneBefore, Undisturbed, Attended, AllIdle
<1>3. Live(mem.refresh) /\ Stored
  BY <1>2 DEF LoneBefore, Undisturbed
<1>4. Live(disk.refresh)
  BY <1>1, <1>3 DEF LoneBefore, Stored, Written, Live
<1>5. AllIdle' /\ KeysKept
  BY <1>2 DEF Restart, server, AllIdle, At, KeysKept
<1>6. PICK place : Begun(place, disk)
  BY DEF Restart
<1>7. disk \in [Keys -> Values]
  BY DEF LoneBefore, ClientInv, ClientTypes
<1> QED BY <1>4, <1>5, <1>6, <1>7, BegunLone

LEMMA SignOutLone ==
  ASSUME LoneBefore, NativeSignOut \/ FlutterSignOut
  PROVE  Undisturbed'
<1>1. /\ kind = "flutter" /\ loaded /\ Forget
      /\ UNCHANGED <<whitelist, expired, call, req, loaded>>
  BY DEF NativeSignOut, FlutterSignOut, SignOut, LogoutOffered, server, LoneBefore, ClientInv, Screens
<1>2. mem'.refresh = None /\ removing' = Keys
  BY <1>1 DEF Forget, Empty, Keys
<1>3. Stored'
  BY <1>1, <1>2 DEF LoneBefore, Stored, Keys
<1> QED BY <1>1, <1>2, <1>3 DEF LoneBefore, Undisturbed, OneRequest, Attended, AllIdle, Live, At

\* A request is sent when no other is in progress.
LEMMA SendLone ==
  ASSUME LoneBefore, NEW c \in Calls, ~disturbed',
         Send(c) \/ NativeLogin(c) \/ FlutterLogin(c) \/ WebLogin(c) \/ SubmitLogout(c)
  PROVE  Undisturbed'
<1>1. PICK op \in {"get", "login", "logout"} :
         Open(c, op) /\ UNCHANGED <<server, storage, loaded>>
  BY DEF Send, NativeLogin, FlutterLogin, WebLogin, SubmitLogin, SubmitLogout
<1>2. \A d \in Calls : req[d] = NoReq
  BY <1>1 DEF Open
<1>3. PICK q : q.phase = "sent" /\ req' = [req EXCEPT ![c] = q]
  BY <1>1 DEF Open
<1>4. req'[c] = q /\ q # NoReq /\ \A d \in Calls \ {c} : req'[d] = NoReq
  BY <1>2, <1>3 DEF NoReq, LoneBefore, ClientInv, ClientTypes
<1>5. OneRequest' /\ Attended'
  BY <1>1, <1>2, <1>3, <1>4 DEF LoneBefore, Undisturbed, OneRequest, Attended, server, At, Live
<1>6. Stored' /\ (AllIdle => Live(mem.refresh))'
  BY <1>1 DEF LoneBefore, Undisturbed, Stored, Written, AllIdle, Live, At, server, storage
<1> QED BY <1>5, <1>6 DEF Undisturbed

\* The server begins with the request, or has nothing to do for it.
LEMMA WaitLone ==
  ASSUME LoneBefore, NEW c \in Calls, NEW p \in {"served", "refreshing"}, req[c].phase = "sent",
         InPhase(c, p), CallsKept(c), KeysKept, UNCHANGED <<storage, loaded>>,
         call' = call \/ call'[c].pc \in {"count", "check", "revoke"}
  PROVE  Undisturbed'
<1>1. At(c, "idle") /\ req[c] # NoReq
  BY DEF NoReq, At, LoneBefore, ClientInv, Phases, Matching
<1>2. \A d \in Calls \ {c} : req[d] = NoReq /\ At(d, "idle")
  BY <1>1, OnlyOne
<1>3. AllIdle /\ Live(mem.refresh)
  BY <1>1, <1>2 DEF AllIdle, LoneBefore, Undisturbed
<1>4. req'[c].phase = p /\ \A d \in Calls \ {c} : req'[d] = req[d]
  BY DEF InPhase, LoneBefore, ClientInv, ClientTypes, Requests
<1>5. req'[c] # NoReq
  BY <1>4 DEF NoReq
<1>6. OneRequest'
  BY <1>2, <1>4 DEF OneRequest
<1>7. call'[c].pc # "answer" /\ \A d \in Calls \ {c} : call'[d].pc = "idle"
  BY <1>1, <1>2 DEF At, CallsKept
<1>8. Attended'
  <2>1. ASSUME NEW d \in Calls \ {c} PROVE req'[d] = NoReq /\ call'[d].pc = "idle"
    BY <1>2, <1>4, <1>7, <2>1
  <2> QED BY <1>4, <1>5, <1>7, <2>1 DEF Attended, At
<1>9. Stored' /\ Live(mem.refresh)'
  BY <1>3 DEF LoneBefore, Undisturbed, Stored, Written, Live, KeysKept, storage
<1> QED BY <1>6, <1>8, <1>9 DEF Undisturbed

LEMMA BeginsLone ==
  ASSUME LoneBefore, NEW c \in Calls,
         (\E f \in Families : LoginAccepted(c, f)) \/ LogoutAccepted(c) \/ StartRotation(c)
  PROVE  Undisturbed'
<1>1. SessionInv /\ held \subseteq Families
  BY DEF LoneBefore, SessionInv, TypeOK
<1>2. PICK p \in {"served", "refreshing"} :
        req[c].phase = "sent" /\ InPhase(c, p) /\ UNCHANGED <<storage, loaded>>
  BY DEF LoginAccepted, LogoutAccepted, StartRotation, Denied, Phase
<1>3. KeysKept /\ CallsKept(c) /\ (call' = call \/ call'[c].pc \in {"count", "check", "revoke"})
  <2>1. CASE \E f \in Families : Login(c, f) \/ Refresh(c, f) \/ Logout(c, f)
    <3>1. Begin(c)
      BY <2>1 DEF Begin
    <3>2. KeysKept /\ call'[c].pc \in {"count", "check", "revoke"}
      BY <1>1, <2>1 DEF Login, Refresh, Logout, Start, KeysKept, SessionInv, TypeOK
    <3> QED BY <1>1, <3>1, <3>2, OwnState DEF CallsKept
  <2>2. CASE UNCHANGED server
    BY <2>2 DEF server, KeysKept, CallsKept
  <2> QED BY <1>1, <2>1, <2>2 DEF LoginAccepted, LogoutAccepted, StartRotation, Exchangeable, Valid
<1> QED BY <1>2, <1>3, WaitLone

\* Requests that end without the session (the catch blocks and NothingToExchange).
LEMMA EndsLone ==
  ASSUME LoneBefore, NEW c \in Calls,
         Accepted(c) \/ DeniedAgain(c) \/ NothingToExchange(c) \/ Enter(c) \/ StoreFails(c)
  PROVE  Undisturbed'
<1>1. KeysKept /\ call' = call /\ CallsKept(c)
  BY DEF Accepted, DeniedAgain, NothingToExchange, Enter, StoreFails, server, KeysKept, CallsKept
<1>2. req[c].phase \in {"sent", "storing"}
  BY DEF Accepted, DeniedAgain, NothingToExchange, Enter, StoreFails, Denied, Phase
<1>3. At(c, "idle") /\ At(c, "idle")'
  BY <1>1, <1>2 DEF At, LoneBefore, ClientInv, Phases, Matching
<1>4. CASE Done(c) /\ UNCHANGED <<storage, loaded>>
  BY <1>1, <1>2, <1>3, <1>4, DoneLone
<1>5. CASE Dropped(c)
  BY <1>1, <1>2, <1>3, <1>5, ForgetLone DEF Dropped
<1>6. CASE NothingToExchange(c) /\ kind = "web"
  <2>1. disk.refresh = None /\ ToLogin(c, disk)
    BY <1>6 DEF NothingToExchange, LoneBefore, Undisturbed, Stored
  <2> QED BY <1>1, <1>2, <1>3, <2>1, EmptyPageLone
<1> QED BY <1>4, <1>5, <1>6 DEF Accepted, DeniedAgain, NothingToExchange, Enter, StoreFails

LEMMA RefusalsLone ==
  ASSUME LoneBefore, NEW c \in Calls, NotRotated(c) \/ LogoutAnswered(c)
  PROVE  Undisturbed'
<1>1. CASE NotRotated(c)
  <2>1. CallsKept(c) /\ KeysKept /\ At(c, "idle")'
    BY <1>1, AnswerCalls DEF NotRotated, server, CallsKept, KeysKept, LoneBefore, At, Purged
  <2> QED BY <1>1, <2>1, RefusedLone DEF NotRotated, Phase
<1>2. CASE LogoutAnswered(c)
  <2>1. CallsKept(c) /\ KeysKept /\ At(c, "idle")'
    BY <1>2, AnswerCalls DEF LogoutAnswered, KeysKept, LoneBefore, Purged
  <2> QED BY <1>2, <2>1, ForgetLone DEF LogoutAnswered, Left, Phase
<1> QED BY <1>1, <1>2

\* The tokens of an answer have their key: they are live.
LEMMA TokensLone ==
  ASSUME LoneBefore, NEW c \in Calls, Rotated(c) \/ LoginAnswered(c)
  PROVE  Undisturbed'
<1>1. PICK f \in Families \cup {None} : f = call[c].family
  BY DEF LoneBefore, SessionInv, TypeOK, CallStates
<1>2. /\ At(c, "answer") /\ ~At(c, "idle") /\ At(c, "idle")' /\ CallsKept(c) /\ KeysKept
      /\ req[c].phase # "none"
  BY AnswerCalls DEF Rotated, LoginAnswered, Answer, LoneBefore, KeysKept, Phase
<1>3. loaded /\ loaded' /\ req[c] # NoReq
  BY <1>2, PastSplash DEF Rotated, LoginAnswered
<1>4. \A d \in Calls \ {c} : req[d] = NoReq /\ At(d, "idle")
  BY <1>3, OnlyOne
<1>5. Live(f)
  BY <1>1, <1>2 DEF LoneBefore, Undisturbed, Attended
<1>6. /\ mem'.refresh = f
      /\ kind = "web" => disk'.refresh = f
      /\ kind = "flutter" => "refresh" \in dirty'
  <2>1. CASE Rotated(c)
    <3>1. kind = "flutter"
      BY <1>2, <2>1 DEF Rotated, Phase, At, LoneBefore, ClientInv, Phases, Matching
    <3> QED BY <1>1, <2>1, <3>1 DEF Rotated, Remember, Successor, LoneBefore, ClientInv, ClientTypes, Keys
  <2>2. CASE LoginAnswered(c)
    <3>1. PICK m : m = [access |-> f, refresh |-> f, user |-> Employee] /\ Remember(m, Keys)
      BY <1>1, <2>2 DEF LoginAnswered
    <3>2. m.refresh = f /\ DOMAIN m = Keys
      BY <3>1 DEF Keys
    <3>3. [m EXCEPT !.user = None].refresh = f
      BY <3>1
    <3> QED BY <3>1, <3>2, <3>3 DEF Remember, RememberAtOnce, LoneBefore, Keys
  <2> QED BY <2>1, <2>2
<1>7. Stored' /\ Live(mem.refresh)'
  BY <1>2, <1>3, <1>5, <1>6 DEF LoneBefore, Stored, Live, KeysKept
<1>8. AllIdle'
  BY <1>2, <1>4 DEF AllIdle, CallsKept, At
<1>9. PICK q : /\ req' = [req EXCEPT ![c] = q]
               /\ q = NoReq \/ q.phase \in {"sent", "storing"}
  <2>1. req[c] \in Requests
    BY DEF LoneBefore, ClientInv, ClientTypes
  <2>2. CASE Rotated(c)
    <3> DEFINE q == [req[c] EXCEPT !.phase = "sent", !.retry = TRUE, !.token = call[c].family]
    <3>1. q.phase = "sent"
      BY <2>1 DEF Requests
    <3>2. req' = [req EXCEPT ![c] = q]
      BY <2>2 DEF Rotated
    <3> QED BY <3>1, <3>2
  <2>3. CASE LoginAnswered(c) /\ kind = "flutter"
    <3> DEFINE q == [req[c] EXCEPT !.phase = "storing"]
    <3>1. q.phase = "storing"
      BY <2>1 DEF Requests
    <3>2. req' = [req EXCEPT ![c] = q]
      BY <2>3 DEF LoginAnswered, InPhase
    <3> QED BY <3>1, <3>2
  <2>4. CASE LoginAnswered(c) /\ kind # "flutter"
    BY <2>4 DEF LoginAnswered, Done
  <2> QED BY <2>2, <2>3, <2>4
<1>10. req'[c] = q /\ \A d \in Calls \ {c} : req'[d] = NoReq
  BY <1>4, <1>9 DEF LoneBefore, ClientInv, ClientTypes
<1>11. OneRequest'
  BY <1>10 DEF OneRequest
<1>12. Attended'
  BY <1>8, <1>9, <1>10 DEF Attended, AllIdle, At
<1> QED BY <1>7, <1>11, <1>12 DEF Undisturbed

\* A call that the server goes on with is not over, and answers what it stored.
LEMMA ServeStates ==
  ASSUME SessionInv, NEW c \in Calls, Serve(c)
  PROVE  /\ call[c].pc # "idle" /\ call'[c].pc # "idle"
         /\ call'[c].pc = "answer" => call'[c].family \in whitelist'
<1>1. PICK k \in CallStates : k = call[c]
  BY DEF SessionInv, TypeOK
<1>2. call[c].pc # "idle"
  BY DEF Serve, Check, Count, Evict, Store, Revoke, List, Purge, Exchange, At
<1>3. CASE Check(c) \/ Evict(c) \/ Revoke(c)
  <2>1. PICK p \in {"delete", "list", "store"} : call' = [call EXCEPT ![c].pc = p]
    BY <1>3 DEF Check, Evict, Revoke, Goto
  <2>2. call'[c] = [k EXCEPT !.pc = p]
    BY <1>1, <2>1 DEF SessionInv, TypeOK
  <2> QED BY <1>2, <2>2 DEF CallStates
<1>4. CASE Store(c)
  <2>1. call'[c] = [k EXCEPT !.pc = "answer"]
    BY <1>1, <1>4 DEF Store, Goto, SessionInv, TypeOK
  <2>2. call'[c].pc = "answer" /\ call'[c].family = k.family
    BY <2>1 DEF CallStates
  <2> QED BY <1>1, <1>2, <1>4, <2>2 DEF Store
<1>5. CASE Count(c)
  <2>1. \/ \E f : call'[c] = [k EXCEPT !.victim = f, !.pc = "evict"]
        \/ call'[c] = [k EXCEPT !.pc = "store"]
    BY <1>1, <1>5 DEF Count, Goto, SessionInv, TypeOK
  <2> QED BY <1>2, <2>1 DEF CallStates
<1>6. CASE List(c)
  <2>1. call'[c] = [k EXCEPT !.listed = whitelist, !.keys = whitelist, !.pc = "purge"]
    BY <1>1, <1>6 DEF List, SessionInv, TypeOK
  <2> QED BY <1>2, <2>1 DEF CallStates
<1>7. CASE Purge(c)
  <2>1. \E K : call'[c] = [k EXCEPT !.keys = K]
    BY <1>1, <1>7 DEF Purge, SessionInv, TypeOK
  <2>2. k.pc = "purge"
    BY <1>1, <1>7 DEF Purge, At
  <2> QED BY <1>2, <2>1, <2>2 DEF CallStates
<1>8. CASE \E g : Exchange(c, g)
  <2>1. \E g : call'[c] = [k EXCEPT !.family = g, !.pc = "count"]
    BY <1>1, <1>8 DEF Exchange, SessionInv, TypeOK
  <2> QED BY <1>2, <2>1 DEF CallStates
<1> QED BY <1>3, <1>4, <1>5, <1>6, <1>7, <1>8 DEF Serve

\* The server at work for the one request in progress; it stores what it answers.
LEMMA ServeLone ==
  ASSUME LoneBefore, NEW c \in Calls, Serve(c)
  PROVE  Undisturbed'
<1>1. SessionInv /\ Continue(c) /\ UNCHANGED device
  BY ServeMoves DEF LoneBefore
<1>2. CallsKept(c)
  BY <1>1, OwnState DEF CallsKept
<1>3. ~At(c, "idle") /\ ~At(c, "idle")'
  BY ServeStates DEF LoneBefore, At
<1>4. req[c] # NoReq
  BY <1>3 DEF LoneBefore, Undisturbed, Attended
<1>5. \A d \in Calls \ {c} : req[d] = NoReq /\ At(d, "idle")
  BY <1>4, OnlyOne
<1>6. At(c, "answer")' => Live(call[c].family)'
  BY ServeStates DEF LoneBefore, Live, At
<1>7. UNCHANGED <<mem, disk, dirty, removing, loaded, req>>
  BY <1>1 DEF device
<1>8. OneRequest'
  BY <1>7 DEF LoneBefore, Undisturbed, OneRequest
<1>9. Attended'
  <2>1. ASSUME NEW d \in Calls \ {c} PROVE req'[d] = NoReq /\ call'[d].pc = "idle"
    BY <1>2, <1>5, <1>7, <2>1 DEF CallsKept, At
  <2>2. req'[c].phase # "none"
    BY <1>4, <1>7 DEF LoneBefore, Undisturbed, Attended
  <2>3. req'[c] # NoReq
    BY <1>4, <1>7
  <2> QED BY <1>6, <2>1, <2>2, <2>3 DEF Attended, At
<1>10. Stored'
  <2>1. req[c].phase # "none"
    BY <1>4 DEF LoneBefore, Undisturbed, Attended
  <2>2. loaded
    BY <2>1, PastSplash
  <2> QED BY <1>7, <2>2 DEF LoneBefore, Undisturbed, Stored
<1>11. ~AllIdle'
  BY <1>3 DEF AllIdle
<1> QED BY <1>8, <1>9, <1>10, <1>11 DEF Undisturbed

\* No call is left behind.
LEMMA AbandonedLone ==
  ASSUME LoneBefore, NEW c \in Calls, Abandoned(c)
  PROVE  FALSE
  BY DEF Abandoned, Phase, Fail, LoneBefore, Undisturbed, Attended

-----------------------------------------------------------------------------
LEMMA LoneInit == ClientInit => LoneInv
<1> SUFFICES ASSUME ClientInit, kind # "native" PROVE Undisturbed
  BY DEF LoneInv
<1>1. mem.refresh = None /\ disk.refresh = None
  BY DEF ClientInit, Empty, Keys
<1>2. \A c \in Calls : req[c] = NoReq /\ call[c].pc = "idle"
  BY DEF ClientInit, Init, Idle
<1>3. OneRequest /\ Attended
  BY <1>2 DEF OneRequest, Attended, At
<1>4. Stored /\ Live(mem.refresh)
  BY <1>1 DEF ClientInit, Stored, Written, Live
<1> QED BY <1>3, <1>4 DEF Undisturbed

LEMMA LoneNext ==
  ClientInv /\ SessionInv /\ LoneInv /\ [ClientNext]_allVars => LoneInv'
<1> SUFFICES ASSUME ClientInv, SessionInv, LoneInv, [ClientNext]_allVars, ~disturbed', kind' # "native"
             PROVE  Undisturbed'
  BY DEF LoneInv
<1>1. CASE UNCHANGED allVars
  BY <1>1 DEF allVars, server, device, LoneInv, Undisturbed, OneRequest, Attended, AllIdle, Live, At,
              Stored, Written
<1>2. CASE ClientNext
  <2>1. kind' = kind /\ ~disturbed
    <3>1. ASSUME NEW c \in Calls, Progress(c) PROVE kind' = kind /\ (disturbed => disturbed')
      BY <3>1 DEF Progress, Accepted, LoginAccepted, LogoutAccepted, DeniedAgain, NothingToExchange,
             StartRotation, Rotated, NotRotated, LoginAnswered, Enter, StoreFails, LogoutAnswered, Lost,
             Refused, Dropped, Left, ToLogin
    <3>2. ASSUME NEW c \in Calls, Serve(c) \/ Abandoned(c) PROVE UNCHANGED device
      BY <3>2 DEF Serve, Abandoned
    <3>3. ASSUME NEW c \in Calls,
                 Send(c) \/ NativeLogin(c) \/ FlutterLogin(c) \/ WebLogin(c) \/ SubmitLogout(c)
          PROVE  kind' = kind /\ (disturbed => disturbed')
      BY <3>3 DEF Send, NativeLogin, FlutterLogin, WebLogin, SubmitLogin, SubmitLogout, Open
    <3>4. CASE Write \/ Load \/ SplashTimer \/ SplashInit \/ Restart \/ NativeSignOut \/ FlutterSignOut
      <4>1. CASE Write \/ Load \/ SplashTimer \/ SplashInit
        BY <4>1 DEF Write, Flush, Remove, Load, SplashTimer, SplashInit, Decide
      <4>2. CASE Restart
        BY <4>2 DEF Restart
      <4>3. CASE NativeSignOut \/ FlutterSignOut
        BY <4>3 DEF NativeSignOut, FlutterSignOut, SignOut
      <4> QED BY <3>4, <4>1, <4>2, <4>3
    <3>5. ASSUME NEW f \in Families, AccessExpires(f) PROVE kind' = kind /\ disturbed' = disturbed
      BY <3>5 DEF AccessExpires
    <3> QED BY <1>2, <3>1, <3>2, <3>3, <3>4, <3>5 DEF ClientNext, device
  <2>2. LoneBefore
    BY <2>1 DEF LoneBefore, LoneInv, ClientInv, ClientTypes
  <2>3. ASSUME NEW c \in Calls, Progress(c) PROVE Undisturbed'
    <3>1. ASSUME NEW f \in Fresh, LoginAccepted(c, f) PROVE Undisturbed'
      BY <2>2, <3>1, FreshFamilies, BeginsLone
    <3>2. ~Lost(c)
      BY DEF Lost
    <3> QED BY <2>2, <2>3, <3>1, <3>2, BeginsLone, EndsLone, RefusalsLone, TokensLone DEF Progress
  <2>4. CASE Write \/ Load \/ SplashTimer \/ SplashInit \/ Restart \/ NativeSignOut \/ FlutterSignOut
    BY <2>2, <2>4, WriteLone, LoadLone, SplashLone, RestartLone, SignOutLone
  <2>5. ASSUME NEW f \in Families, AccessExpires(f) PROVE Undisturbed'
    BY <2>2, <2>5 DEF AccessExpires, server, storage, LoneBefore, Undisturbed, OneRequest, Attended,
                      AllIdle, Live, At, Stored, Written
  <2> QED BY <1>2, <2>2, <2>3, <2>4, <2>5, SendLone, ServeLone, AbandonedLone DEF ClientNext
<1> QED BY <1>1, <1>2

\* A Flutter or web client that sends one request at a time, and loses none and
\* no write, holds a refresh token that the server still takes, until it expires:
\* through logins, rotations, evictions, sign-outs and restarts (api_client.dart,
\* api.ts, refresh and storeRefreshToken of AuthService).
THEOREM LoneClientsKeepSessions == ClientSpec => []LoneClientKeepsSession
<1>1. LoneInv => LoneClientKeepsSession
  BY DEF LoneInv, Undisturbed, Attended, AllIdle, Live, LoneClientKeepsSession
<1> QED BY <1>1, LoneInit, LoneNext, ClientsHold, PTL DEF ClientSpec
=============================================================================
