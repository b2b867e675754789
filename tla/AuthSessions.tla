---------------------------- MODULE AuthSessions ----------------------------
(***************************************************************************)
(* The sessions of one employee (modules/auth/auth.service.ts): the keys    *)
(* user:<id>:refresh:<family> in Redis, one for each refresh token that may *)
(* still be exchanged, and the HTTP calls that create, rotate and end them. *)
(*                                                                          *)
(* Each Redis command is atomic, but nothing holds between two of them: a   *)
(* call is a process whose steps are its commands.  Login, refresh and the  *)
(* calls that end all sessions share storeRefreshToken (Count, Evict,       *)
(* Store) and invalidateAllSessions (List, Purge).                          *)
(*                                                                          *)
(* A refresh token and the access token issued with it are both named by    *)
(* their token family.  The order in which KEYS lists keys is unspecified.  *)
(***************************************************************************)
EXTENDS Naturals, FiniteSets

CONSTANTS
  Calls,         \* the HTTP calls the server can have in progress at once
  Families,      \* what randomUUID can return
  Passwords,     \* the passwords the employee may choose
  MaxSessions    \* MAX_SESSIONS

ASSUME MaxSessionsAssumption == MaxSessions \in Nat \ {0}

VARIABLES
  whitelist,   \* the families that have a key
  generated,   \* the families randomUUID has returned
  held,        \* the families whose tokens reached a client
  expired,     \* the families whose refresh token (a JWT) has expired
  blacklist,   \* the families whose access token a logout has revoked
  password,    \* the employee's password
  root,        \* history: the password behind the login each family stems from
  spent,       \* history: the families a client has received a successor of
  call         \* the calls in progress, see Idle

vars == <<whitelist, generated, held, expired, blacklist, password, root, spent, call>>

\* What a call keeps between two awaits: the family it was presented and the
\* one it issues, keys[0] of storeRefreshToken, the keys invalidateAllSessions
\* listed and those of them it has still to delete.
None == "none"
Idle == [pc |-> "idle", op |-> "none", presented |-> None, family |-> None,
         victim |-> None, listed |-> {}, keys |-> {}]

Init ==
  /\ whitelist = {} /\ generated = {} /\ held = {} /\ expired = {} /\ blacklist = {}
  /\ password \in Passwords
  /\ root = [f \in Families |-> password]
  /\ spent = {}
  /\ call = [c \in Calls |-> Idle]

At(c, label) == call[c].pc = label
Goto(c, label) == call' = [call EXCEPT ![c].pc = label]
Return(c) == call' = [call EXCEPT ![c] = Idle]
Start(c, pc, op, presented, family) ==
  call' = [call EXCEPT ![c] =
             [pc |-> pc, op |-> op, presented |-> presented, family |-> family,
              victim |-> None, listed |-> {}, keys |-> {}]]

-----------------------------------------------------------------------------
(***************************************************************************)
(* login, for an employee whose password validateUser has just accepted.    *)
(***************************************************************************)
Login(c, f) ==
  /\ At(c, "idle")
  /\ f \notin generated
  /\ generated' = generated \cup {f}
  /\ root' = [root EXCEPT ![f] = password]
  /\ Start(c, "count", "login", None, f)
  /\ UNCHANGED <<whitelist, held, expired, blacklist, password, spent>>

(***************************************************************************)
(* refresh.  An expired token is refused by jwtService.verify, and changes  *)
(* nothing.                                                                 *)
(***************************************************************************)
Refresh(c, f) ==
  /\ At(c, "idle")
  /\ f \in held \ expired
  /\ Start(c, "check", "refresh", f, None)
  /\ UNCHANGED <<whitelist, generated, held, expired, blacklist, password, root, spent>>

\* A valid token whose key is gone has been used before: every session ends.
Check(c) ==
  /\ At(c, "check")
  /\ Goto(c, IF call[c].presented \in whitelist THEN "delete" ELSE "list")
  /\ UNCHANGED <<whitelist, generated, held, expired, blacklist, password, root, spent>>

\* Mutant of Exchange: the used token is left in the whitelist.
ExchangeKept(c, g) ==
  /\ At(c, "delete")
  /\ g \notin generated
  /\ generated' = generated \cup {g}
  /\ root' = [root EXCEPT ![g] = root[call[c].presented]]
  /\ call' = [call EXCEPT ![c].family = g, ![c].pc = "count"]
  /\ UNCHANGED <<whitelist, held, expired, blacklist, password, spent>>

\* Mutant of Exchange: the successor stays in the family of the used token.
ExchangeInFamily(c, g) ==
  /\ At(c, "delete")
  /\ g \notin generated
  /\ whitelist' = whitelist \ {call[c].presented}
  /\ call' = [call EXCEPT ![c].family = call[c].presented, ![c].pc = "count"]
  /\ UNCHANGED <<generated, held, expired, blacklist, password, root, spent>>

\* The used token is deleted, and a new pair signed, in a new family g.
Exchange(c, g) ==
  /\ At(c, "delete")
  /\ g \notin generated
  /\ whitelist' = whitelist \ {call[c].presented}
  /\ generated' = generated \cup {g}
  /\ root' = [root EXCEPT ![g] = root[call[c].presented]]
  /\ call' = [call EXCEPT ![c].family = g, ![c].pc = "count"]
  /\ UNCHANGED <<held, expired, blacklist, password, spent>>

(***************************************************************************)
(* storeRefreshToken: count the keys, delete keys[0] if there are too many, *)
(* set the new key.  Then the call answers with the tokens.                 *)
(***************************************************************************)
\* Mutant of Full: one session too many.
FullLate == Cardinality(whitelist) > MaxSessions

Full == Cardinality(whitelist) >= MaxSessions

Count(c) ==
  /\ At(c, "count")
  /\ IF Full
       THEN \E f \in whitelist :
              call' = [call EXCEPT ![c].victim = f, ![c].pc = "evict"]
       ELSE Goto(c, "store")
  /\ UNCHANGED <<whitelist, generated, held, expired, blacklist, password, root, spent>>

Evict(c) ==
  /\ At(c, "evict")
  /\ whitelist' = whitelist \ {call[c].victim}
  /\ Goto(c, "store")
  /\ UNCHANGED <<generated, held, expired, blacklist, password, root, spent>>

Store(c) ==
  /\ At(c, "store")
  /\ whitelist' = whitelist \cup {call[c].family}
  /\ Goto(c, "answer")
  /\ UNCHANGED <<generated, held, expired, blacklist, password, root, spent>>

Answer(c) ==
  /\ At(c, "answer")
  /\ held' = held \cup {call[c].family}
  /\ spent' = spent \cup ({call[c].presented} \ {None})
  /\ Return(c)
  /\ UNCHANGED <<whitelist, generated, expired, blacklist, password, root>>

(***************************************************************************)
(* logout and changePassword, behind JwtStrategy.validate, which refuses a  *)
(* revoked access token.  (An access token expires before the refresh token *)
(* issued with it.)                                                         *)
(***************************************************************************)
Authenticated(f) == f \in held \ (expired \cup blacklist)

Logout(c, f) ==
  /\ At(c, "idle")
  /\ Authenticated(f)
  /\ Start(c, "revoke", "logout", f, None)
  /\ UNCHANGED <<whitelist, generated, held, expired, blacklist, password, root, spent>>

\* Mutant of Revoke: the blacklist gets a token of a session not yet open.
RevokeIssued(c) ==
  /\ At(c, "revoke")
  /\ blacklist' = blacklist \cup {call[c].family}
  /\ Goto(c, "list")
  /\ UNCHANGED <<whitelist, generated, held, expired, password, root, spent>>

Revoke(c) ==
  /\ At(c, "revoke")
  /\ blacklist' = blacklist \cup {call[c].presented}
  /\ Goto(c, "list")
  /\ UNCHANGED <<whitelist, generated, held, expired, password, root, spent>>

ChangePassword(c, f) ==
  /\ At(c, "idle")
  /\ Authenticated(f)
  /\ Start(c, "update", "changePassword", f, None)
  /\ UNCHANGED <<whitelist, generated, held, expired, blacklist, password, root, spent>>

\* Mutant of UpdatePassword: the other sessions go on.
UpdatePasswordOnly(c, p) ==
  /\ At(c, "update")
  /\ password' = p
  /\ Return(c)
  /\ UNCHANGED <<whitelist, generated, held, expired, blacklist, root, spent>>

UpdatePassword(c, p) ==
  /\ At(c, "update")
  /\ password' = p
  /\ Goto(c, "list")
  /\ UNCHANGED <<whitelist, generated, held, expired, blacklist, root, spent>>

(***************************************************************************)
(* invalidateAllSessions: the keys listed are deleted, in any order.        *)
(***************************************************************************)
List(c) ==
  /\ At(c, "list")
  /\ call' = [call EXCEPT ![c].listed = whitelist, ![c].keys = whitelist, ![c].pc = "purge"]
  /\ UNCHANGED <<whitelist, generated, held, expired, blacklist, password, root, spent>>

\* Mutant of Purge: a key is counted as deleted when another one is.
PurgeOne(c) ==
  /\ At(c, "purge")
  /\ \E f \in call[c].keys :
       /\ whitelist' = whitelist \ {f}
       /\ call' = [call EXCEPT ![c].keys = {}]
  /\ UNCHANGED <<generated, held, expired, blacklist, password, root, spent>>

Purge(c) ==
  /\ At(c, "purge")
  /\ \E f \in call[c].keys :
       /\ whitelist' = whitelist \ {f}
       /\ call' = [call EXCEPT ![c].keys = @ \ {f}]
  /\ UNCHANGED <<generated, held, expired, blacklist, password, root, spent>>

Purged(c) ==
  /\ At(c, "purge")
  /\ call[c].keys = {}
  /\ Return(c)
  /\ UNCHANGED <<whitelist, generated, held, expired, blacklist, password, root, spent>>

(***************************************************************************)
(* The environment.  The key of a family is set after its token was signed, *)
(* with the seven days to live that are the token's by default: the token   *)
(* expires first.  A call dies  *)
(* with its Redis connection or with the process; what it has issued then   *)
(* never reaches the client.                                                *)
(***************************************************************************)
TokenExpires(f) ==
  /\ f \in generated \ expired
  /\ expired' = expired \cup {f}
  /\ UNCHANGED <<whitelist, generated, held, blacklist, password, root, spent, call>>

KeyExpires(f) ==
  /\ f \in whitelist \cap expired
  /\ whitelist' = whitelist \ {f}
  /\ UNCHANGED <<generated, held, expired, blacklist, password, root, spent, call>>

Fail(c) ==
  /\ ~At(c, "idle")
  /\ Return(c)
  /\ UNCHANGED <<whitelist, generated, held, expired, blacklist, password, root, spent>>

-----------------------------------------------------------------------------
Begin(c) ==
  \E f \in Families : Login(c, f) \/ Refresh(c, f) \/ Logout(c, f) \/ ChangePassword(c, f)

Continue(c) ==
  \/ Check(c) \/ Count(c) \/ Evict(c) \/ Store(c) \/ Answer(c)
  \/ Revoke(c) \/ List(c) \/ Purge(c) \/ Purged(c)
  \/ \E g \in Families : Exchange(c, g)
  \/ \E p \in Passwords : UpdatePassword(c, p)

Reliable ==
  \/ \E c \in Calls : Begin(c) \/ Continue(c)
  \/ \E f \in Families : TokenExpires(f) \/ KeyExpires(f)

Next == Reliable \/ \E c \in Calls : Fail(c)

Spec == Init /\ [][Next]_vars
=============================================================================
