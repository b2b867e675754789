---------------------------- MODULE ClientProps -----------------------------
(***************************************************************************)
(* What the three clients keep of a session.                                *)
(***************************************************************************)
EXTENDS ClientSession, TLC

\* Once a sign-out has reached the storage, and until the user begins to log in,
\* nothing signs him in again: no answer to a request or to an exchange that was
\* on its way, and not the storage when the app is restarted.  updateToken and
\* updateTokens put tokens back, but no user (clearAuth and loadFromStorage of the
\* three stores).  This is not said of a sign-out during a login: Flutter's login
\* form can be submitted twice (login_screen.dart:100), and the second answer, when
\* it comes after the sign-out, signs the user in again (auth_provider.dart:49-57).
SignedOutStaysOut ==
  signedOut /\ Written => ~SignedIn(mem) /\ ~SignedIn(Restored(disk))

\* A Flutter or web client that sends one request at a time, and loses none and
\* no write, does not present a refresh token that the server has given up: the
\* one it holds is live until it expires (rotation in api_client.dart and in
\* AuthService.refresh).  React Native's client.ts does not keep this.
LoneClientKeepsSession ==
  /\ ~disturbed
  /\ kind # "native"
  /\ mem.refresh # None
  /\ \A c \in Calls : req[c] = NoReq
  => mem.refresh \in whitelist \cup expired

\* The rest of AuthSessions' variables are histories and constants here: every
\* token of the device is in `held', and the password stays as it is.
View == <<whitelist, generated, blacklist, call, device>>

Symmetry == Permutations(Calls)
=============================================================================
