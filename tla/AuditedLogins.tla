--------------------------- MODULE AuditedLogins ----------------------------
(***************************************************************************)
(* Logins, the lock and the audit log together.  AuthGuard('local') runs    *)
(* validateUser before the interceptors, so that only a login of an         *)
(* employee it accepts reaches AuditLogInterceptor: a refused one leaves no *)
(* entry, an accepted one that cannot store its session leaves LOGIN_FAILED.*)
(***************************************************************************)
EXTENDS LoginLock, AuditChain

vars == <<lockVars, chainVars>>

Init == LockInit /\ ChainInit

\* The interceptor's tap, on the answer of login or on its error, calls create.
Intercept(c, w) ==
  /\ At(c, "accepted")
  /\ Return(c)
  /\ Create(w)
  /\ UNCHANGED <<fails, locked, due, guesses>>

\* A logout or a change of password, whose calls end here as well.
Other(w) == Create(w) /\ UNCHANGED lockVars

\* The calls die with the server; Redis and its keys do not.
ServerRestarts ==
  /\ Restart
  /\ call' = [c \in Calls |-> Idle]
  /\ guesses' = guesses - Cardinality({c \in Calls : call[c].counted})
  /\ UNCHANGED <<fails, locked, due>>

Proceed(c) ==
  \/ Guess(c) /\ UNCHANGED chainVars
  \/ \E w \in Writers : Intercept(c, w)

Next ==
  \/ \E c \in Calls : (Attempt(c) \/ Fail(c)) /\ UNCHANGED chainVars
  \/ \E c \in Calls : Proceed(c)
  \/ KeyExpires /\ UNCHANGED chainVars
  \/ \E w \in Writers : Write(w) /\ UNCHANGED lockVars
  \/ \E w \in Writers : Other(w)
  \/ ServerRestarts

\* Time passes, and node resumes a call when Redis has answered.
Spec ==
  /\ Init /\ [][Next]_vars
  /\ WF_vars(KeyExpires /\ UNCHANGED chainVars)
  /\ \A c \in Calls : WF_vars(Proceed(c))

-----------------------------------------------------------------------------
\* Guesses that overlap do not get round the lock: between two fresh starts no
\* more of them are answered than the limit allows, and one for each further
\* call that was past the test of the lock (validateUser, handleLoginFailure).
GuessesBounded == guesses <= Limit + Cardinality(Calls) - 1

\* A locked account opens again by itself (`try again in 30 minutes',
\* auth.service.ts:39): what guessers do meanwhile does not prolong the lock.
LockEnds == locked ~> ~locked

\* What a row names as its predecessor is a row of the table: a row that could
\* not be saved is never linked to (create).
LinksSaved ==
  \A r \in log : r.previous # None => \E q \in log : q.checksum = r.previous

\* The chain forks by overlap only: a row that has a successor stays the one to
\* continue from only until that successor's call is done (create reads
\* lastChecksum before its save, and sets it after).
ForksOverlap ==
  last # None =>
    \A r \in log : r.previous = last =>
      \E w \in Writers : writer[w].pc = "remember" /\ writer[w].checksum = r.checksum
=============================================================================
