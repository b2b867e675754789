----------------------------- MODULE LoginLock ------------------------------
(***************************************************************************)
(* The lock of one account against guessing (validateUser and               *)
(* handleLoginFailure of modules/auth/auth.service.ts): two keys in Redis,  *)
(* the counter login:fail:<id> and the flag login:locked:<id>, and the      *)
(* login calls that read and write them, one Redis command at a time.       *)
(*                                                                          *)
(* Both keys are given the same time to live, each time anew, so they       *)
(* expire in the order in which they were last given it.                    *)
(***************************************************************************)
EXTENDS Naturals, FiniteSets, Sequences

CONSTANTS
  Calls,     \* the login calls the server can have in progress at once
  Limit,     \* LOGIN_FAIL_LIMIT
  MaxFails   \* bound of the model: no call begins when the counter is there

ASSUME LimitAssumption ==
  Limit \in Nat \ {0} /\ MaxFails \in Nat /\ IsFiniteSet(Calls)

VARIABLES
  fails,     \* the counter, 0 when it has no key
  locked,    \* whether the flag is set
  due,       \* the keys with a time to live, the first to expire first
  call,      \* the calls in progress
  guesses    \* history: the wrong guesses since the last fresh start, see Fresh

lockVars == <<fails, locked, due, call, guesses>>

\* What a call keeps between two awaits: the counter that INCR returned, and
\* (history) whether its guess is among `guesses'.
Idle == [pc |-> "idle", count |-> 0, counted |-> FALSE]

LockInit ==
  /\ fails = 0
  /\ locked = FALSE
  /\ due = << >>
  /\ call = [c \in Calls |-> Idle]
  /\ guesses = 0

At(c, label) == call[c].pc = label
Goto(c, label) == call' = [call EXCEPT ![c].pc = label]
Return(c) == call' = [call EXCEPT ![c] = Idle]

Without(key) == SelectSeq(due, LAMBDA k : k # key)
Renewed(key) == Append(Without(key), key)

\* The guesser may start again, with the call set to next: the counter is gone
\* or the lock has ended.
Fresh(next) ==
  /\ guesses' = 0
  /\ call' = [c \in Calls |-> [next[c] EXCEPT !.counted = FALSE]]

-----------------------------------------------------------------------------
(***************************************************************************)
(* validateUser.  A call that finds the account locked is refused.          *)
(***************************************************************************)
\* Mutant of Attempt: the lock is not looked at.
AttemptAnyway(c) ==
  /\ At(c, "idle")
  /\ fails < MaxFails
  /\ Goto(c, "compare")
  /\ UNCHANGED <<fails, locked, due, guesses>>

Attempt(c) ==
  /\ At(c, "idle")
  /\ fails < MaxFails
  /\ ~locked
  /\ Goto(c, "compare")
  /\ UNCHANGED <<fails, locked, due, guesses>>

Right(c) ==
  /\ At(c, "compare")
  /\ Goto(c, "reset")
  /\ UNCHANGED <<fails, locked, due, guesses>>

Wrong(c) ==
  /\ At(c, "compare")
  /\ Goto(c, "incr")
  /\ UNCHANGED <<fails, locked, due, guesses>>

\* The counter is deleted, and the employee accepted: login goes on to store
\* its session.
Reset(c) ==
  /\ At(c, "reset")
  /\ fails' = 0
  /\ due' = Without("fail")
  /\ Fresh([call EXCEPT ![c].pc = "accepted"])
  /\ UNCHANGED locked

(***************************************************************************)
(* handleLoginFailure: INCR, EXPIRE (of a key that may be gone by now), and *)
(* SET of the flag.                                                         *)
(***************************************************************************)
Incr(c) ==
  /\ At(c, "incr")
  /\ fails' = fails + 1
  /\ call' = [call EXCEPT ![c] = [pc |-> "expire", count |-> fails + 1, counted |-> TRUE]]
  /\ guesses' = guesses + 1
  /\ UNCHANGED <<locked, due>>

\* Mutant of Reached: one guess more.
ReachedLate(count) == count > Limit

Reached(count) == count >= Limit

Expire(c) ==
  /\ At(c, "expire")
  /\ due' = IF fails = 0 THEN due ELSE Renewed("fail")
  /\ IF Reached(call[c].count) THEN Goto(c, "lock") ELSE Return(c)
  /\ UNCHANGED <<fails, locked, guesses>>

Lock(c) ==
  /\ At(c, "lock")
  /\ locked' = TRUE
  /\ due' = Renewed("lock")
  /\ Return(c)
  /\ UNCHANGED <<fails, guesses>>

(***************************************************************************)
(* The environment: time passes, and a call dies with its connection to     *)
(* Redis, its guess unanswered.                                             *)
(***************************************************************************)
KeyExpires ==
  /\ due # << >>
  /\ due' = Tail(due)
  /\ fails' = IF Head(due) = "fail" THEN 0 ELSE fails
  /\ locked' = (Head(due) # "lock" /\ locked)
  /\ Fresh(call)

Fail(c) ==
  /\ call[c].pc \notin {"idle", "accepted"}
  /\ Return(c)
  /\ guesses' = IF call[c].counted THEN guesses - 1 ELSE guesses
  /\ UNCHANGED <<fails, locked, due>>

Guess(c) == Right(c) \/ Wrong(c) \/ Reset(c) \/ Incr(c) \/ Expire(c) \/ Lock(c)
=============================================================================
