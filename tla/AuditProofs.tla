----------------------------- MODULE AuditProofs -----------------------------
(***************************************************************************)
(* The chain of the audit log, for any number of rows, of writers and of    *)
(* logins in progress: its links go to saved rows, and it forks by overlap  *)
(* only.  And the lock of an account, for any limit and any number of       *)
(* logins in progress: how many guesses get by it.                          *)
(***************************************************************************)
EXTENDS AuditedLogins, FiniteSetTheorems, TLAPS

Saved == {r.checksum : r \in log}
Busy(w) == writer[w].pc # "idle"

ChainTypes ==
  /\ entered \in Nat
  /\ last \in 0..entered
  /\ log \subseteq [checksum : 1..entered, previous : 0..entered]
  /\ writer \in [Writers -> [pc : {"idle", "save", "remember"}, checksum : 0..entered,
                             previous : 0..entered]]

\* What is linked to, or may be by a row still to come, has been saved.
LinksGoBack ==
  /\ last = None \/ last \in Saved
  /\ \A w \in Writers : writer[w].previous = None \/ writer[w].previous \in Saved

\* The row of a call that is past its save is in the table.
RememberedIsSaved ==
  \A w \in Writers : writer[w].pc = "remember" => writer[w].checksum \in Saved

\* A checksum that its call has not yet made the last is nobody's predecessor.
Unlinked ==
  \A w \in Writers : Busy(w) =>
    /\ writer[w].checksum # None
    /\ writer[w].checksum # last
    /\ \A r \in log : r.previous # writer[w].checksum
    /\ \A v \in Writers : writer[v].previous # writer[w].checksum

\* Each call has a checksum of its own.
Apart ==
  \A v, w \in Writers : Busy(v) /\ Busy(w) /\ v # w =>
    writer[v].checksum # writer[w].checksum

ChainInv ==
  /\ ChainTypes /\ LinksGoBack /\ RememberedIsSaved /\ Unlinked /\ Apart
  /\ LinksSaved /\ ForksOverlap

USE DEF None

-----------------------------------------------------------------------------
LEMMA InitEstablishes == Init => ChainInv
  BY DEF Init, ChainInit, Resting, ChainInv, ChainTypes, LinksGoBack, RememberedIsSaved,
         Unlinked, Apart, LinksSaved, ForksOverlap, Busy, Saved

\* A new entry has a number that nothing carries or names yet.
LEMMA CreatePreserves ==
  ASSUME ChainInv, NEW w \in Writers, Create(w)
  PROVE  ChainInv'
<1>1. /\ log' = log /\ last' = last /\ entered' = entered + 1 /\ entered \in Nat
      /\ writer[w].pc = "idle"
      /\ writer' = [writer EXCEPT ![w] =
           [pc |-> "save", checksum |-> entered', previous |-> last]]
  BY DEF Create, ChainInv, ChainTypes
<1>2. writer'[w] = [pc |-> "save", checksum |-> entered + 1, previous |-> last]
  BY <1>1 DEF ChainInv, ChainTypes
<1>3. \A v \in Writers : v # w => writer'[v] = writer[v]
  BY <1>1 DEF ChainInv, ChainTypes
<1>4. ChainTypes'
  <2>1. 0..entered \subseteq 0..entered' /\ 1..entered \subseteq 1..entered'
        /\ entered' \in 0..entered' /\ last \in 0..entered'
    BY <1>1 DEF ChainInv, ChainTypes
  <2>2. log' \subseteq [checksum : 1..entered', previous : 0..entered']
    BY <1>1, <2>1 DEF ChainInv, ChainTypes
  <2>3. writer' \in [Writers -> [pc : {"idle", "save", "remember"}, checksum : 0..entered',
                                 previous : 0..entered']]
    BY <1>1, <1>2, <1>3, <2>1 DEF ChainInv, ChainTypes
  <2> QED BY <1>1, <2>1, <2>2, <2>3 DEF ChainTypes
<1>5. LinksGoBack' /\ RememberedIsSaved' /\ LinksSaved'
  BY <1>1, <1>2, <1>3 DEF ChainInv, LinksGoBack, RememberedIsSaved, LinksSaved, Saved
<1>6. Unlinked'
  <2> SUFFICES ASSUME NEW u \in Writers, Busy(u)'
               PROVE  /\ writer'[u].checksum # 0 /\ writer'[u].checksum # last
                      /\ \A r \in log : r.previous # writer'[u].checksum
                      /\ \A v \in Writers : writer'[v].previous # writer'[u].checksum
    BY <1>1 DEF Unlinked
  <2>1. CASE u = w
    BY <1>1, <1>2, <1>3, <2>1 DEF ChainInv, ChainTypes
  <2>2. CASE u # w
    BY <1>1, <1>2, <1>3, <2>2 DEF ChainInv, Unlinked, Busy
  <2> QED BY <2>1, <2>2
<1>7. Apart'
  BY <1>1, <1>2, <1>3 DEF ChainInv, ChainTypes, Apart, Busy
<1>8. ForksOverlap'
  BY <1>1, <1>2, <1>3 DEF ChainInv, ForksOverlap
<1> QED BY <1>4, <1>5, <1>6, <1>7, <1>8 DEF ChainInv

\* The row that is saved may fork the chain; its call is then still to remember it.
LEMMA SavePreserves ==
  ASSUME ChainInv, NEW w \in Writers, Save(w)
  PROVE  ChainInv'
<1> DEFINE row == [checksum |-> writer[w].checksum, previous |-> writer[w].previous]
<1>1. /\ log' = log \cup {row} /\ last' = last /\ entered' = entered
      /\ writer[w].pc = "save" /\ writer' = [writer EXCEPT ![w].pc = "remember"]
  BY DEF Save
<1>2. /\ writer'[w].pc = "remember"
      /\ \A v \in Writers : /\ v # w => writer'[v] = writer[v]
                            /\ writer'[v].checksum = writer[v].checksum
                            /\ writer'[v].previous = writer[v].previous
  BY <1>1 DEF ChainInv, ChainTypes
<1>3. writer[w].checksum # 0 /\ writer[w].checksum \in 0..entered
      /\ writer[w].previous \in 0..entered /\ entered \in Nat
  BY <1>1 DEF ChainInv, ChainTypes, Unlinked, Busy
<1>4. ChainTypes'
  BY <1>1, <1>3 DEF ChainInv, ChainTypes
<1>5. Saved' = Saved \cup {writer[w].checksum}
  <2>1. row.checksum = writer[w].checksum
    OBVIOUS
  <2> HIDE DEF row
  <2> QED BY <1>1, <2>1, Zenon DEF Saved
<1>6. LinksGoBack' /\ RememberedIsSaved'
  BY <1>1, <1>2, <1>5 DEF ChainInv, LinksGoBack, RememberedIsSaved
<1>7. LinksSaved'
  BY <1>1, <1>5 DEF ChainInv, LinksSaved, LinksGoBack, Saved
<1>8. Unlinked' /\ Apart'
  BY <1>1, <1>2 DEF ChainInv, Unlinked, Apart, Busy
<1>9. ForksOverlap'
  BY <1>1, <1>2 DEF ChainInv, ForksOverlap
<1> QED BY <1>4, <1>6, <1>7, <1>8, <1>9 DEF ChainInv

LEMMA SaveFailsPreserves ==
  ASSUME ChainInv, NEW w \in Writers, SaveFails(w)
  PROVE  ChainInv'
<1>1. /\ log' = log /\ last' = last /\ entered' = entered
      /\ writer[w].pc = "save" /\ writer' = [writer EXCEPT ![w] = Resting]
  BY DEF SaveFails
<1>2. /\ writer'[w] = Resting
      /\ \A v \in Writers : v # w => writer'[v] = writer[v]
  BY <1>1 DEF ChainInv, ChainTypes
<1>3. ChainTypes'
  BY <1>1, <1>2 DEF ChainInv, ChainTypes, Resting
<1>4. LinksGoBack' /\ RememberedIsSaved' /\ LinksSaved'
  BY <1>1, <1>2 DEF ChainInv, LinksGoBack, RememberedIsSaved, LinksSaved, Saved, Resting
<1>5. Unlinked' /\ Apart'
  BY <1>1, <1>2 DEF ChainInv, Unlinked, Apart, Busy, Resting
<1>6. ForksOverlap'
  BY <1>1, <1>2 DEF ChainInv, ForksOverlap
<1> QED BY <1>3, <1>4, <1>5, <1>6 DEF ChainInv

\* What becomes the last was nobody's predecessor until now: no row continues it.
LEMMA RememberPreserves ==
  ASSUME ChainInv, NEW w \in Writers, Remember(w)
  PROVE  ChainInv'
<1>1. /\ log' = log /\ last' = writer[w].checksum /\ entered' = entered
      /\ writer[w].pc = "remember" /\ writer' = [writer EXCEPT ![w] = Resting]
  BY DEF Remember
<1>2. /\ writer'[w] = Resting
      /\ \A v \in Writers : v # w => writer'[v] = writer[v]
  BY <1>1 DEF ChainInv, ChainTypes
<1>3. ChainTypes'
  BY <1>1, <1>2 DEF ChainInv, ChainTypes, Resting
<1>4. LinksGoBack' /\ RememberedIsSaved' /\ LinksSaved'
  BY <1>1, <1>2 DEF ChainInv, LinksGoBack, RememberedIsSaved, LinksSaved, Saved, Resting
<1>5. Unlinked'
  BY <1>1, <1>2 DEF ChainInv, Unlinked, Apart, Busy, Resting
<1>6. Apart'
  BY <1>1, <1>2 DEF ChainInv, Apart, Busy, Resting
<1>7. ForksOverlap'
  BY <1>1 DEF ChainInv, Unlinked, ForksOverlap, Busy
<1> QED BY <1>3, <1>4, <1>5, <1>6, <1>7 DEF ChainInv

LEMMA RestartPreserves == ChainInv /\ Restart => ChainInv'
  BY DEF Restart, Resting, ChainInv, ChainTypes, LinksGoBack, RememberedIsSaved, Unlinked,
         Apart, LinksSaved, ForksOverlap, Busy, Saved

LEMMA StutterPreserves == ChainInv /\ UNCHANGED chainVars => ChainInv'
  BY DEF chainVars, ChainInv, ChainTypes, LinksGoBack, RememberedIsSaved, Unlinked,
         Apart, LinksSaved, ForksOverlap, Busy, Saved

-----------------------------------------------------------------------------
LEMMA StepPreserves == ChainInv /\ [Next]_vars => ChainInv'
<1> SUFFICES ASSUME ChainInv, [Next]_vars PROVE ChainInv'
  OBVIOUS
<1>1. ASSUME NEW c \in Calls, Proceed(c) PROVE ChainInv'
  BY <1>1, CreatePreserves, StutterPreserves DEF Proceed, Intercept
<1>2. ASSUME NEW w \in Writers, Write(w) PROVE ChainInv'
  BY <1>2, SavePreserves, SaveFailsPreserves, RememberPreserves DEF Write
<1>3. ASSUME NEW w \in Writers, Other(w) PROVE ChainInv'
  BY <1>3, CreatePreserves DEF Other
<1>4. CASE ServerRestarts
  BY <1>4, RestartPreserves DEF ServerRestarts
<1>5. CASE UNCHANGED chainVars
  BY <1>5, StutterPreserves
<1>6. CASE UNCHANGED vars
  BY <1>6, StutterPreserves DEF vars
<1> QED BY <1>1, <1>2, <1>3, <1>4, <1>5, <1>6 DEF Next

LEMMA ChainSound == Spec => []ChainInv
  BY InitEstablishes, StepPreserves, PTL DEF Spec

\* In every execution the predecessor that a row names is a row of the table
\* (AuditLogService.create remembers a checksum after its save only).
THEOREM LinksStaySaved == Spec => []LinksSaved
<1>1. ChainInv => LinksSaved
  BY DEF ChainInv
<1> QED BY <1>1, ChainSound, PTL

\* In every execution a row that continues from the last checksum, and so would be
\* continued beside, is one whose call has yet to remember it.
THEOREM ForksComeOfOverlap == Spec => []ForksOverlap
<1>1. ChainInv => ForksOverlap
  BY DEF ChainInv
<1> QED BY <1>1, ChainSound, PTL

-----------------------------------------------------------------------------
(***************************************************************************)
(* The lock.  A call takes part in the count once INCR has answered it      *)
(* (Counted).  Of those, the ones whose count reached the limit set the     *)
(* lock or die, their guess unanswered (Over).  While the account is open,  *)
(* all other guesses had counts below the limit, no two the same; once it   *)
(* is locked, only calls that passed the test before can add to them.       *)
(***************************************************************************)
Counted == {c \in Calls : call[c].counted}
Over == {c \in Counted : Reached(call[c].count)}
Trying == {c \in Calls : call[c].pc \in {"compare", "incr"}}

Labels == {"idle", "compare", "reset", "incr", "expire", "lock", "accepted"}

LockTypes ==
  /\ fails \in Nat /\ guesses \in Nat /\ locked \in BOOLEAN
  /\ call \in [Calls -> [pc : Labels, count : Nat, counted : BOOLEAN]]
  /\ \A c \in Counted : call[c].pc \in {"expire", "lock"}
  /\ Cardinality(Counted) <= guesses

\* All answered guesses but those over the limit are among the failures counted.
OpenBounded ==
  ~locked => /\ guesses <= fails + Cardinality(Over)
             /\ guesses <= Limit - 1 + Cardinality(Over)

LockedBounded ==
  locked => guesses + Cardinality(Trying) <= Limit + Cardinality(Calls) - 1

LockInv == LockTypes /\ OpenBounded /\ LockedBounded

\* What the sizes of these sets are in any state with the types.
SizesKnown ==
  /\ IsFiniteSet(Counted) /\ Cardinality(Counted) \in Nat
  /\ IsFiniteSet(Over) /\ Cardinality(Over) \in Nat
  /\ IsFiniteSet(Trying) /\ Cardinality(Trying) \in Nat
  /\ Cardinality(Over) <= Cardinality(Counted)
  /\ Cardinality(Over) + Cardinality(Trying) <= Cardinality(Calls)
  /\ Cardinality(Calls) \in Nat /\ Limit \in Nat /\ Limit >= 1

LEMMA Sizes == LockTypes => SizesKnown
<1> SUFFICES ASSUME LockTypes PROVE SizesKnown
  OBVIOUS
<1>1. IsFiniteSet(Calls) /\ Limit \in Nat /\ Limit >= 1
  BY LimitAssumption
<1>2. Counted \in SUBSET Calls /\ Over \in SUBSET Counted /\ Trying \in SUBSET Calls
  BY DEF Counted, Over, Trying
<1>3. IsFiniteSet(Counted) /\ IsFiniteSet(Trying)
  BY <1>1, <1>2, FS_Subset
<1>4. IsFiniteSet(Over) /\ Cardinality(Over) <= Cardinality(Counted)
  BY <1>2, <1>3, FS_Subset
<1>5. /\ Cardinality(Counted) \in Nat /\ Cardinality(Over) \in Nat
      /\ Cardinality(Trying) \in Nat /\ Cardinality(Calls) \in Nat
  BY <1>1, <1>3, <1>4, FS_CardinalityType
<1>6. Over \cap Trying = {}
  BY <1>2 DEF LockTypes, Counted, Over, Trying
<1>7. ~ (Cardinality(Over) + Cardinality(Trying) > Cardinality(Calls))
  BY <1>1, <1>2, <1>6, FS_MajoritiesIntersect
<1> QED BY <1>1, <1>3, <1>4, <1>5, <1>7 DEF SizesKnown

\* After a fresh start no call takes part, and nothing has been guessed.
LEMMA FreshPreserves ==
  ASSUME LockInv, NEW next \in [Calls -> [pc : Labels, count : Nat, counted : BOOLEAN]],
         Fresh(next), fails' \in Nat, locked' \in BOOLEAN
  PROVE  LockInv'
<1>1. /\ guesses' = 0
      /\ call' \in [Calls -> [pc : Labels, count : Nat, counted : BOOLEAN]]
      /\ \A c \in Calls : ~call'[c].counted
  BY DEF Fresh
<1>2. Counted' = {} /\ Over' = {}
  BY <1>1 DEF Counted, Over
<1>3. Cardinality({}) = 0
  BY FS_EmptySet
<1>4. LockTypes'
  BY <1>1, <1>2, <1>3 DEF LockTypes
<1>5. SizesKnown'
  BY <1>4, Sizes, PTL
<1>6. OpenBounded' /\ LockedBounded'
  BY <1>1, <1>2, <1>3, <1>5 DEF SizesKnown, OpenBounded, LockedBounded
<1> QED BY <1>4, <1>6 DEF LockInv

\* How the size of a set changes by one element that was, or is, in it.
Follows(before, after, was, is) ==
  /\ (was <=> is) => after = before
  /\ was /\ ~is => after = before - 1
  /\ ~was /\ is => after = before + 1

LEMMA Resized ==
  ASSUME NEW S, NEW T, NEW x, IsFiniteSet(S), T = S \cup {x} \/ T = S \ {x}
  PROVE  Follows(Cardinality(S), Cardinality(T), x \in S, x \in T)
<1>1. Cardinality(S) \in Nat
  BY FS_CardinalityType
<1>2. CASE T = S \cup {x}
  <2>1. Cardinality(T) = IF x \in S THEN Cardinality(S) ELSE Cardinality(S) + 1
    BY <1>2, FS_AddElement
  <2>2. x \in T
    BY <1>2
  <2> QED BY <1>1, <2>1, <2>2 DEF Follows
<1>3. CASE T = S \ {x}
  <2>1. Cardinality(T) = IF x \in S THEN Cardinality(S) - 1 ELSE Cardinality(S)
    BY <1>3, FS_RemoveElement
  <2>2. x \notin T
    BY <1>3
  <2> QED BY <1>1, <2>1, <2>2 DEF Follows
<1> QED BY <1>2, <1>3

\* One call goes on to the state r: what that does to the three sets.
Moves(c, r) ==
  /\ call' \in [Calls -> [pc : Labels, count : Nat, counted : BOOLEAN]]
  /\ (r.counted => r.pc \in {"expire", "lock"}) =>
       \A d \in Counted' : call'[d].pc \in {"expire", "lock"}
  /\ Follows(Cardinality(Counted), Cardinality(Counted'), call[c].counted, r.counted)
  /\ Follows(Cardinality(Over), Cardinality(Over'),
             call[c].counted /\ Reached(call[c].count), r.counted /\ Reached(r.count))
  /\ Follows(Cardinality(Trying), Cardinality(Trying'),
             call[c].pc \in {"compare", "incr"}, r.pc \in {"compare", "incr"})

LEMMA CallMoves ==
  ASSUME LockTypes, NEW c \in Calls, NEW r \in [pc : Labels, count : Nat, counted : BOOLEAN],
         call' = [call EXCEPT ![c] = r]
  PROVE  Moves(c, r)
<1>1. call'[c] = r /\ \A d \in Calls : d # c => call'[d] = call[d]
  BY DEF LockTypes
<1>2. call' \in [Calls -> [pc : Labels, count : Nat, counted : BOOLEAN]]
  BY DEF LockTypes
<1>3. SizesKnown
  BY Sizes
<1>4. /\ Counted' = Counted \cup {c} \/ Counted' = Counted \ {c}
      /\ c \in Counted <=> call[c].counted
      /\ c \in Counted' <=> r.counted
  BY <1>1 DEF Counted
<1>5. /\ Over' = Over \cup {c} \/ Over' = Over \ {c}
      /\ c \in Over <=> call[c].counted /\ Reached(call[c].count)
      /\ c \in Over' <=> r.counted /\ Reached(r.count)
  BY <1>1 DEF Over, Counted
<1>6. /\ Trying' = Trying \cup {c} \/ Trying' = Trying \ {c}
      /\ c \in Trying <=> call[c].pc \in {"compare", "incr"}
      /\ c \in Trying' <=> r.pc \in {"compare", "incr"}
  BY <1>1 DEF Trying
<1>7. Follows(Cardinality(Counted), Cardinality(Counted'), c \in Counted, c \in Counted')
  BY <1>3, <1>4, Resized DEF SizesKnown
<1>8. Follows(Cardinality(Over), Cardinality(Over'), c \in Over, c \in Over')
  BY <1>3, <1>5, Resized DEF SizesKnown
<1>9. Follows(Cardinality(Trying), Cardinality(Trying'), c \in Trying, c \in Trying')
  BY <1>3, <1>6, Resized DEF SizesKnown
<1>10. (r.counted => r.pc \in {"expire", "lock"}) =>
         \A d \in Counted' : call'[d].pc \in {"expire", "lock"}
  BY <1>1 DEF LockTypes, Counted
<1> QED BY <1>2, <1>4, <1>5, <1>6, <1>7, <1>8, <1>9, <1>10 DEF Moves, Follows

\* What is left to show when one call has moved.
LEMMA MovedTypes ==
  ASSUME LockTypes, NEW c \in Calls, NEW r, Moves(c, r),
         fails' \in Nat, guesses' \in Nat, locked' \in BOOLEAN,
         r.counted => r.pc \in {"expire", "lock"},
         Cardinality(Counted') <= guesses'
  PROVE  LockTypes'
  BY DEF Moves, LockTypes

LEMMA AttemptPreserves ==
  ASSUME LockInv, NEW c \in Calls, Attempt(c)
  PROVE  LockInv'
<1>1. PICK r \in [pc : Labels, count : Nat, counted : BOOLEAN] :
        /\ r.pc = "compare" /\ r.counted = call[c].counted
        /\ call' = [call EXCEPT ![c] = r] /\ call[c].pc = "idle" /\ ~locked
        /\ UNCHANGED <<fails, locked, guesses>>
  <2>1. [call[c] EXCEPT !.pc = "compare"] \in [pc : Labels, count : Nat, counted : BOOLEAN]
    BY DEF LockInv, LockTypes, Labels
  <2> QED BY <2>1 DEF Attempt, Goto, At
<1>2. /\ fails \in Nat /\ guesses \in Nat /\ locked \in BOOLEAN /\ ~call[c].counted
      /\ Cardinality(Counted) <= guesses
  BY <1>1 DEF LockInv, LockTypes, Counted
<1>3. SizesKnown /\ Moves(c, r)
  BY <1>1, Sizes, CallMoves DEF LockInv
<1>4. Cardinality(Counted') = Cardinality(Counted) /\ Cardinality(Over') = Cardinality(Over)
  BY <1>1, <1>2, <1>3 DEF Moves, Follows
<1>5. LockTypes'
  BY <1>1, <1>2, <1>3, <1>4, MovedTypes DEF LockInv
<1> QED BY <1>1, <1>4, <1>5 DEF LockInv, OpenBounded, LockedBounded

\* The guess is right or wrong: the second is still to be counted.
LEMMA ComparePreserves ==
  ASSUME LockInv, NEW c \in Calls, Right(c) \/ Wrong(c)
  PROVE  LockInv'
<1>1. PICK r \in [pc : Labels, count : Nat, counted : BOOLEAN] :
        /\ r.pc \in {"reset", "incr"} /\ r.counted = call[c].counted
        /\ call' = [call EXCEPT ![c] = r] /\ call[c].pc = "compare"
        /\ UNCHANGED <<fails, locked, guesses>>
  <2>1. PICK label \in {"reset", "incr"} : /\ call[c].pc = "compare" /\ Goto(c, label)
                                           /\ UNCHANGED <<fails, locked, guesses>>
    BY DEF Right, Wrong, At
  <2>2. [call[c] EXCEPT !.pc = label] \in [pc : Labels, count : Nat, counted : BOOLEAN]
    BY DEF LockInv, LockTypes, Labels
  <2> QED BY <2>1, <2>2 DEF Goto
<1>2. /\ fails \in Nat /\ guesses \in Nat /\ locked \in BOOLEAN /\ ~call[c].counted
      /\ Cardinality(Counted) <= guesses
  BY <1>1 DEF LockInv, LockTypes, Counted
<1>3. SizesKnown /\ Moves(c, r)
  BY <1>1, Sizes, CallMoves DEF LockInv
<1>4. /\ Cardinality(Counted') = Cardinality(Counted) /\ Cardinality(Over') = Cardinality(Over)
      /\ Cardinality(Trying') = Cardinality(Trying) \/ Cardinality(Trying') = Cardinality(Trying) - 1
  BY <1>1, <1>2, <1>3 DEF Moves, Follows
<1>5. LockTypes'
  BY <1>1, <1>2, <1>3, <1>4, MovedTypes DEF LockInv
<1> QED BY <1>1, <1>2, <1>3, <1>4, <1>5 DEF LockInv, OpenBounded, LockedBounded, SizesKnown

LEMMA ResetPreserves ==
  ASSUME LockInv, NEW c \in Calls, Reset(c)
  PROVE  LockInv'
<1>1. [call EXCEPT ![c].pc = "accepted"] \in [Calls -> [pc : Labels, count : Nat, counted : BOOLEAN]]
  BY DEF LockInv, LockTypes, Labels
<1>2. /\ fails' = 0 /\ UNCHANGED locked /\ Fresh([call EXCEPT ![c].pc = "accepted"])
  BY DEF Reset
<1>3. locked \in BOOLEAN
  BY DEF LockInv, LockTypes
<1> QED BY <1>1, <1>2, <1>3, FreshPreserves

\* A guess below the limit is one more of the failures counted; one that reaches
\* the limit is over it.
LEMMA IncrPreserves ==
  ASSUME LockInv, NEW c \in Calls, Incr(c)
  PROVE  LockInv'
<1>1. PICK r \in [pc : Labels, count : Nat, counted : BOOLEAN] :
        /\ r.pc = "expire" /\ r.count = fails + 1 /\ r.counted
        /\ call' = [call EXCEPT ![c] = r]
        /\ call[c].pc = "incr" /\ fails' = fails + 1 /\ guesses' = guesses + 1
        /\ UNCHANGED locked
  <2>1. [pc |-> "expire", count |-> fails + 1, counted |-> TRUE]
          \in [pc : Labels, count : Nat, counted : BOOLEAN]
    BY DEF LockInv, LockTypes, Labels
  <2> QED BY <2>1 DEF Incr, At
<1>2. /\ fails \in Nat /\ guesses \in Nat /\ locked \in BOOLEAN /\ ~call[c].counted
      /\ Cardinality(Counted) <= guesses
  BY <1>1 DEF LockInv, LockTypes, Counted
<1>3. SizesKnown /\ Moves(c, r)
  BY <1>1, Sizes, CallMoves DEF LockInv
<1>4. /\ Cardinality(Counted') = Cardinality(Counted) + 1
      /\ Reached(fails + 1) => Cardinality(Over') = Cardinality(Over) + 1
      /\ ~Reached(fails + 1) => Cardinality(Over') = Cardinality(Over)
      /\ Cardinality(Trying') = Cardinality(Trying) - 1
  BY <1>1, <1>2, <1>3 DEF Moves, Follows
<1>5. LockTypes'
  <2>1. fails' \in Nat /\ guesses' \in Nat /\ Cardinality(Counted') <= guesses'
    BY <1>1, <1>2, <1>3, <1>4 DEF SizesKnown
  <2> QED BY <1>1, <1>2, <1>3, <2>1, MovedTypes DEF LockInv
<1>6. OpenBounded'
  <2> SUFFICES ASSUME ~locked PROVE /\ guesses' <= fails' + Cardinality(Over')
                                    /\ guesses' <= Limit - 1 + Cardinality(Over')
    BY <1>1 DEF OpenBounded
  <2>1. guesses <= fails + Cardinality(Over) /\ guesses <= Limit - 1 + Cardinality(Over)
    BY DEF LockInv, OpenBounded
  <2>2. CASE Reached(fails + 1)
    BY <1>1, <1>2, <1>3, <1>4, <2>1, <2>2 DEF SizesKnown
  <2>3. CASE ~Reached(fails + 1)
    BY <1>1, <1>2, <1>3, <1>4, <2>1, <2>3 DEF SizesKnown, Reached
  <2> QED BY <2>2, <2>3
<1>7. LockedBounded'
  BY <1>1, <1>2, <1>3, <1>4 DEF LockInv, LockedBounded, SizesKnown
<1> QED BY <1>5, <1>6, <1>7 DEF LockInv

\* A call whose count is below the limit returns; another goes on to the lock.
LEMMA ExpirePreserves ==
  ASSUME LockInv, NEW c \in Calls, Expire(c)
  PROVE  LockInv'
<1>1. /\ call[c].pc = "expire" /\ UNCHANGED <<fails, locked, guesses>>
      /\ call[c] \in [pc : Labels, count : Nat, counted : BOOLEAN]
  BY DEF Expire, At, LockInv, LockTypes
<1>2. PICK r \in [pc : Labels, count : Nat, counted : BOOLEAN] :
        /\ call' = [call EXCEPT ![c] = r]
        /\ \/ r.pc = "lock" /\ r.counted = call[c].counted /\ r.count = call[c].count
           \/ r.pc = "idle" /\ ~r.counted /\ ~Reached(call[c].count)
  <2>1. CASE Reached(call[c].count)
    <3>1. call' = [call EXCEPT ![c] = [call[c] EXCEPT !.pc = "lock"]]
      BY <2>1 DEF Expire, Goto
    <3>2. [call[c] EXCEPT !.pc = "lock"] \in [pc : Labels, count : Nat, counted : BOOLEAN]
      BY <1>1 DEF Labels
    <3> QED BY <1>1, <3>1, <3>2
  <2>2. CASE ~Reached(call[c].count)
    <3>1. call' = [call EXCEPT ![c] = Idle] /\ Idle \in [pc : Labels, count : Nat, counted : BOOLEAN]
      BY <2>2 DEF Expire, Return, Idle, Labels
    <3>2. Idle.pc = "idle" /\ ~Idle.counted
      BY DEF Idle
    <3> QED BY <2>2, <3>1, <3>2
  <2> QED BY <2>1, <2>2
<1>3. SizesKnown /\ Moves(c, r)
  BY <1>2, Sizes, CallMoves DEF LockInv
<1>4. /\ Cardinality(Counted') = Cardinality(Counted) \/ Cardinality(Counted') = Cardinality(Counted) - 1
      /\ Cardinality(Over') = Cardinality(Over)
      /\ Cardinality(Trying') = Cardinality(Trying)
  BY <1>1, <1>2, <1>3 DEF Moves, Follows
<1>5. LockTypes'
  <2>1. /\ fails' \in Nat /\ guesses' \in Nat /\ locked' \in BOOLEAN
        /\ Cardinality(Counted') <= guesses'
    BY <1>1, <1>3, <1>4 DEF LockInv, LockTypes, SizesKnown
  <2> QED BY <1>2, <1>3, <2>1, MovedTypes DEF LockInv
<1> QED BY <1>1, <1>4, <1>5 DEF LockInv, OpenBounded, LockedBounded

\* At that moment no more have got by than the limit allows and are under way.
LEMMA LockPreserves ==
  ASSUME LockInv, NEW c \in Calls, Lock(c)
  PROVE  LockInv'
<1>1. PICK r \in [pc : Labels, count : Nat, counted : BOOLEAN] :
        /\ r.pc = "idle" /\ ~r.counted /\ call' = [call EXCEPT ![c] = r]
        /\ call[c].pc = "lock" /\ locked' = TRUE /\ UNCHANGED <<fails, guesses>>
  <2>1. Idle \in [pc : Labels, count : Nat, counted : BOOLEAN] /\ Idle.pc = "idle" /\ ~Idle.counted
    BY DEF Idle, Labels
  <2> QED BY <2>1 DEF Lock, At, Return
<1>2. SizesKnown /\ Moves(c, r) /\ fails \in Nat /\ guesses \in Nat
  BY <1>1, Sizes, CallMoves DEF LockInv, LockTypes
<1>3. /\ Cardinality(Counted') = Cardinality(Counted) \/ Cardinality(Counted') = Cardinality(Counted) - 1
      /\ Cardinality(Trying') = Cardinality(Trying)
  BY <1>1, <1>2 DEF Moves, Follows
<1>4. LockTypes'
  <2>1. Cardinality(Counted') <= guesses'
    BY <1>1, <1>2, <1>3 DEF LockInv, LockTypes, SizesKnown
  <2> QED BY <1>1, <1>2, <2>1, MovedTypes DEF LockInv
<1>5. guesses + Cardinality(Trying) <= Limit + Cardinality(Calls) - 1
  <2>1. CASE locked
    BY <2>1 DEF LockInv, LockedBounded
  <2>2. CASE ~locked
    BY <1>2, <2>2 DEF LockInv, OpenBounded, SizesKnown
  <2> QED BY <2>1, <2>2
<1>6. OpenBounded' /\ LockedBounded'
  BY <1>1, <1>3, <1>5 DEF OpenBounded, LockedBounded
<1> QED BY <1>4, <1>6 DEF LockInv

\* A call that dies takes its guess with it.
LEMMA FailPreserves ==
  ASSUME LockInv, NEW c \in Calls, Fail(c)
  PROVE  LockInv'
<1>1. PICK r \in [pc : Labels, count : Nat, counted : BOOLEAN] :
        /\ r.pc = "idle" /\ ~r.counted /\ call' = [call EXCEPT ![c] = r]
        /\ UNCHANGED <<fails, locked>>
        /\ call[c].counted => guesses' = guesses - 1
        /\ ~call[c].counted => guesses' = guesses
  <2>1. Idle \in [pc : Labels, count : Nat, counted : BOOLEAN] /\ Idle.pc = "idle" /\ ~Idle.counted
    BY DEF Idle, Labels
  <2> QED BY <2>1 DEF Fail, Return
<1>2. SizesKnown /\ Moves(c, r)
  BY <1>1, Sizes, CallMoves DEF LockInv
<1>3. /\ fails \in Nat /\ guesses \in Nat /\ locked \in BOOLEAN
      /\ Cardinality(Counted) <= guesses
  BY DEF LockInv, LockTypes
<1>4. /\ call[c].counted => Cardinality(Counted') = Cardinality(Counted) - 1
      /\ ~call[c].counted => Cardinality(Counted') = Cardinality(Counted)
      /\ Cardinality(Over') = Cardinality(Over) \/
           (call[c].counted /\ Cardinality(Over') = Cardinality(Over) - 1)
      /\ Cardinality(Trying') = Cardinality(Trying) \/ Cardinality(Trying') = Cardinality(Trying) - 1
  BY <1>1, <1>2 DEF Moves, Follows
<1>5. LockTypes'
  <2>1. call[c].counted => Cardinality(Counted) >= 1
    <3>1. SUFFICES ASSUME call[c].counted, Cardinality(Counted) = 0 PROVE FALSE
      BY <1>2 DEF SizesKnown
    <3>2. Counted = {}
      BY <1>2, <3>1, FS_EmptySet DEF SizesKnown
    <3> QED BY <3>1, <3>2 DEF Counted
  <2>2. /\ fails' \in Nat /\ guesses' \in Nat /\ locked' \in BOOLEAN
        /\ Cardinality(Counted') <= guesses'
    BY <1>1, <1>2, <1>3, <1>4, <2>1 DEF SizesKnown
  <2> QED BY <1>1, <1>2, <2>2, MovedTypes DEF LockInv
<1>6. OpenBounded'
  BY <1>1, <1>2, <1>3, <1>4 DEF LockInv, OpenBounded, SizesKnown
<1>7. LockedBounded'
  BY <1>1, <1>2, <1>3, <1>4 DEF LockInv, LockedBounded, SizesKnown
<1> QED BY <1>5, <1>6, <1>7 DEF LockInv

\* The answer of an accepted login ends its call, which had no part in the count.
LEMMA InterceptPreserves ==
  ASSUME LockInv, NEW c \in Calls, NEW w \in Writers, Intercept(c, w)
  PROVE  LockInv'
<1>1. PICK r \in [pc : Labels, count : Nat, counted : BOOLEAN] :
        /\ r.pc = "idle" /\ ~r.counted /\ call' = [call EXCEPT ![c] = r]
        /\ call[c].pc = "accepted" /\ UNCHANGED <<fails, locked, guesses>>
  <2>1. Idle \in [pc : Labels, count : Nat, counted : BOOLEAN] /\ Idle.pc = "idle" /\ ~Idle.counted
    BY DEF Idle, Labels
  <2> QED BY <2>1 DEF Intercept, Return, At
<1>2. SizesKnown /\ Moves(c, r)
  BY <1>1, Sizes, CallMoves DEF LockInv
<1>3. /\ fails \in Nat /\ guesses \in Nat /\ locked \in BOOLEAN /\ ~call[c].counted
      /\ Cardinality(Counted) <= guesses
  BY <1>1 DEF LockInv, LockTypes, Counted
<1>4. /\ Cardinality(Counted') = Cardinality(Counted) /\ Cardinality(Over') = Cardinality(Over)
      /\ Cardinality(Trying') = Cardinality(Trying)
  BY <1>1, <1>2, <1>3 DEF Moves, Follows
<1>5. LockTypes'
  BY <1>1, <1>2, <1>3, <1>4, MovedTypes DEF LockInv
<1> QED BY <1>1, <1>4, <1>5 DEF LockInv, OpenBounded, LockedBounded

LEMMA KeyExpiresPreserves ==
  ASSUME LockInv, KeyExpires
  PROVE  LockInv'
<1>1. fails' \in Nat /\ locked' \in BOOLEAN /\ Fresh(call)
  BY DEF KeyExpires, LockInv, LockTypes
<1>2. PICK next \in [Calls -> [pc : Labels, count : Nat, counted : BOOLEAN]] : Fresh(next)
  BY <1>1 DEF LockInv, LockTypes
<1> QED BY <1>1, <1>2, FreshPreserves

\* All calls die, and with them the guesses that were not answered.
LEMMA ServerRestartsPreserves ==
  ASSUME LockInv, ServerRestarts
  PROVE  LockInv'
<1>1. /\ call' = [c \in Calls |-> Idle] /\ UNCHANGED <<fails, locked>>
      /\ guesses' = guesses - Cardinality(Counted)
  BY DEF ServerRestarts, Counted
<1>2. /\ fails \in Nat /\ guesses \in Nat /\ locked \in BOOLEAN
      /\ Cardinality(Counted) <= guesses
  BY DEF LockInv, LockTypes
<1>3. SizesKnown
  BY Sizes DEF LockInv
<1>4. Counted' = {} /\ Over' = {} /\ Trying' = {}
  BY <1>1 DEF Counted, Over, Trying, Idle
<1>5. Cardinality({}) = 0
  BY FS_EmptySet
<1>6. guesses' \in Nat /\ guesses' = guesses - Cardinality(Counted)
  BY <1>1, <1>2, <1>3 DEF SizesKnown
<1>7. call' \in [Calls -> [pc : Labels, count : Nat, counted : BOOLEAN]]
  BY <1>1 DEF Idle, Labels
<1>8. LockTypes'
  BY <1>1, <1>2, <1>4, <1>5, <1>6, <1>7 DEF LockTypes
<1>9. OpenBounded'
  BY <1>1, <1>2, <1>3, <1>4, <1>5, <1>6 DEF LockInv, OpenBounded, SizesKnown
<1>10. LockedBounded'
  BY <1>1, <1>2, <1>3, <1>4, <1>5, <1>6 DEF LockInv, LockedBounded, SizesKnown
<1> QED BY <1>8, <1>9, <1>10 DEF LockInv

LEMMA LockStutterPreserves == LockInv /\ UNCHANGED lockVars => LockInv'
  BY DEF lockVars, LockInv, LockTypes, OpenBounded, LockedBounded, Counted, Over, Trying

LEMMA LockInitEstablishes == Init => LockInv
<1> SUFFICES ASSUME Init PROVE LockInv
  OBVIOUS
<1>1. Counted = {} /\ Over = {} /\ Trying = {}
  BY DEF Init, LockInit, Idle, Counted, Over, Trying
<1>2. Cardinality({}) = 0
  BY FS_EmptySet
<1>3. call \in [Calls -> [pc : Labels, count : Nat, counted : BOOLEAN]]
  BY DEF Init, LockInit, Idle, Labels
<1>4. fails = 0 /\ guesses = 0 /\ ~locked /\ locked \in BOOLEAN
  BY DEF Init, LockInit
<1>5. Cardinality(Counted) = 0 /\ Cardinality(Over) = 0
  BY <1>1, <1>2
<1>6. LockTypes
  BY <1>1, <1>3, <1>4, <1>5 DEF LockTypes
<1> QED BY <1>4, <1>5, <1>6, LimitAssumption DEF LockInv, OpenBounded, LockedBounded

LEMMA LockStepPreserves == LockInv /\ [Next]_vars => LockInv'
<1> SUFFICES ASSUME LockInv, [Next]_vars PROVE LockInv'
  OBVIOUS
<1>1. ASSUME NEW c \in Calls, Attempt(c) \/ Fail(c) PROVE LockInv'
  BY <1>1, AttemptPreserves, FailPreserves
<1>2. ASSUME NEW c \in Calls, Guess(c) PROVE LockInv'
  BY <1>2, ComparePreserves, ResetPreserves, IncrPreserves, ExpirePreserves, LockPreserves DEF Guess
<1>3. ASSUME NEW c \in Calls, NEW w \in Writers, Intercept(c, w) PROVE LockInv'
  BY <1>3, InterceptPreserves
<1>4. CASE KeyExpires
  BY <1>4, KeyExpiresPreserves
<1>5. CASE ServerRestarts
  BY <1>5, ServerRestartsPreserves
<1>6. CASE UNCHANGED lockVars
  BY <1>6, LockStutterPreserves
<1> QED BY <1>1, <1>2, <1>3, <1>4, <1>5, <1>6 DEF Next, Proceed, Other, vars

\* In every execution, with any limit and any number of overlapping logins, no more
\* wrong guesses are answered between two fresh starts than the limit and one for
\* each further call (validateUser, handleLoginFailure).
THEOREM GuessesStayBounded == Spec => []GuessesBounded
<1>1. LockInv => GuessesBounded
  <2> SUFFICES ASSUME LockInv PROVE GuessesBounded
    OBVIOUS
  <2>1. SizesKnown /\ guesses \in Nat /\ locked \in BOOLEAN
    BY Sizes DEF LockInv, LockTypes
  <2>2. CASE locked
    BY <2>1, <2>2 DEF LockInv, LockedBounded, SizesKnown, GuessesBounded
  <2>3. CASE ~locked
    BY <2>1, <2>3 DEF LockInv, OpenBounded, SizesKnown, GuessesBounded
  <2> QED BY <2>2, <2>3
<1> QED BY <1>1, LockInitEstablishes, LockStepPreserves, PTL DEF Spec
=============================================================================
