----------------------------- MODULE AuthProps ------------------------------
(***************************************************************************)
(* What the session handling of AuthService guarantees, and what it says of *)
(* itself that holds only when its calls do not overlap.                    *)
(***************************************************************************)
EXTENDS AuthSessions

Labels == {"idle", "check", "delete", "count", "evict", "store", "answer",
           "revoke", "update", "list", "purge"}

CallStates ==
  [pc : Labels, op : {"none", "login", "refresh", "logout", "changePassword"},
   presented : Families \cup {None}, family : Families \cup {None},
   victim : Families \cup {None}, listed : SUBSET Families, keys : SUBSET Families]

TypeOK ==
  /\ whitelist \subseteq generated /\ held \subseteq generated
  /\ expired \subseteq generated /\ blacklist \subseteq held
  /\ generated \subseteq Families
  /\ password \in Passwords
  /\ root \in [Families -> Passwords]
  /\ spent \subseteq held
  /\ call \in [Calls -> CallStates]

(***************************************************************************)
(* Whatever overlaps and whatever fails.                                    *)
(***************************************************************************)

\* Once the client has the successor of a token, the token is never accepted
\* again, by any call (rotation in refresh).
SpentIsDead == spent \cap whitelist = {}

\* A session whose tokens are out and whose key is gone (used, evicted, ended
\* or expired) does not come back: no late store restores it.
NoResurrection ==
  [][\A f \in held : f \notin whitelist => f \notin whitelist']_vars

\* What invalidateAllSessions has dealt with stays dealt with: when a logout, a
\* password change or a reuse alarm answers, no session that it listed is live.
InvalidationHolds ==
  \A c \in Calls : At(c, "purge") =>
    (call[c].listed \ call[c].keys) \cap whitelist = {}

(***************************************************************************)
(* Without overlap and failures.                                            *)
(***************************************************************************)
Quiet == \A c \in Calls : At(c, "idle")

\* Enforce max sessions (comment in storeRefreshToken, auth.service.ts:188;
\* MAX_SESSIONS, docs/developer-manual.md:538).
SessionsCapped == Quiet => Cardinality(whitelist) <= MaxSessions

\* changePassword forces out all sessions (comment at auth.service.ts:175, and
\* the answer `log in again', auth.controller.ts:97): the sessions that remain
\* stem from logins with the password of now.
SessionsFollowPassword == Quiet => \A f \in whitelist : root[f] = password

\* Rotating the tokens of one device costs no other device its session: the
\* used token makes room for its successor before the sessions are counted.
RefreshKeepsOthers ==
  \A c \in Calls : At(c, "answer") /\ call[c].op = "refresh" => call[c].victim = None

\* The calls and nothing else: no connection or process is lost.
ReliableSpec == Init /\ [][Reliable]_vars
=============================================================================
