----------------------------- MODULE AuthProofs -----------------------------
(***************************************************************************)
(* Proofs about AuthSessions for every value of its constants: any number   *)
(* of overlapping and failing calls, any cap, any supply of families.       *)
(*                                                                          *)
(* The keys in Redis say nothing of the families that calls are about to    *)
(* store, and it is such a late store that could bring a session back.  The *)
(* invariant SessionInv therefore follows each family from randomUUID on:   *)
(* until its call has stored it, it is in no table, in no client's hands,   *)
(* in no other call and in no list of keys to delete.                       *)
(***************************************************************************)
EXTENDS MCAuth, FiniteSetTheorems, TLAPS

\* The calls that have a new family, and those of them that have not stored it.
Storing == {"count", "evict", "store"}
Issuing == Storing \cup {"answer"}

\* What the state h of a call has to do with the keys W, the families G that
\* randomUUID returned and the families H that clients hold.
CallSound(h, W, G, H) ==
  /\ h.pc \in Issuing => h.family \in G \ H
  /\ h.pc \in Storing => h.family \notin W
  /\ h.pc \in Issuing /\ h.presented # None => h.presented \in H \ W
  /\ h.pc \in {"check", "delete", "revoke"} => h.presented \in H
  /\ h.pc = "purge" =>
       h.listed \subseteq G /\ h.keys \subseteq h.listed /\ (h.listed \ h.keys) \cap W = {}

\* What the states of two calls have to do with one another.
Apart(h, k) ==
  /\ h.pc \in Issuing /\ k.pc \in Issuing => h.family # k.family
  /\ h.pc = "purge" /\ k.pc \in Storing => k.family \notin h.listed

EachSound == \A c \in Calls : CallSound(call[c], whitelist, generated, held)
PairsApart == \A c, d \in Calls : c # d => Apart(call[c], call[d])

SessionInv == TypeOK /\ SpentIsDead /\ EachSound /\ PairsApart

\* Initially nothing has been issued (Init).
LEMMA InitSound == Init => SessionInv
  BY DEF Init, Idle, SessionInv, TypeOK, SpentIsDead, EachSound, PairsApart, CallSound, Apart,
         CallStates, Labels, Storing, Issuing, None

-----------------------------------------------------------------------------
(***************************************************************************)
(* One lemma for each action: it preserves the invariant.                   *)
(***************************************************************************)
\* The family of a login is new to everybody (login).
LEMMA LoginSound ==
  ASSUME SessionInv, NEW c \in Calls, NEW f \in Families, Login(c, f)
  PROVE  SessionInv'
<1>1. call' = [call EXCEPT ![c] =
      [pc |-> "count", op |-> "login", presented |-> None, family |-> f,
       victim |-> None, listed |-> {}, keys |-> {}]]
  BY DEF Login, Start, Idle
<1>2.
      [pc |-> "count", op |-> "login", presented |-> None, family |-> f,
       victim |-> None, listed |-> {}, keys |-> {}] \in CallStates
  BY DEF Login, At, SessionInv, TypeOK, CallStates, Labels
<1>3. TypeOK'
  BY <1>1, <1>2 DEF Login, At, SessionInv, TypeOK
<1>4. SpentIsDead'
  BY <1>1 DEF Login, SessionInv, SpentIsDead
<1>5. EachSound'
  BY <1>1 DEF Login, At, SessionInv, TypeOK, EachSound, CallSound, Issuing, Storing
<1>6. PairsApart'
  BY <1>1 DEF Login, At, SessionInv, TypeOK, PairsApart, Apart, Issuing, Storing,
         EachSound, CallSound
<1> QED BY <1>3, <1>4, <1>5, <1>6 DEF SessionInv

\* Arriving with a token changes no key (refresh).
LEMMA RefreshSound ==
  ASSUME SessionInv, NEW c \in Calls, NEW f \in Families, Refresh(c, f)
  PROVE  SessionInv'
<1>1. call' = [call EXCEPT ![c] =
      [pc |-> "check", op |-> "refresh", presented |-> f, family |-> None,
       victim |-> None, listed |-> {}, keys |-> {}]]
  BY DEF Refresh, Start, Idle
<1>2.
      [pc |-> "check", op |-> "refresh", presented |-> f, family |-> None,
       victim |-> None, listed |-> {}, keys |-> {}] \in CallStates
  BY DEF Refresh, At, SessionInv, TypeOK, CallStates, Labels
<1>3. TypeOK'
  BY <1>1, <1>2 DEF Refresh, At, SessionInv, TypeOK
<1>4. SpentIsDead'
  BY <1>1 DEF Refresh, SessionInv, SpentIsDead
<1>5. EachSound'
  BY <1>1 DEF Refresh, At, SessionInv, TypeOK, EachSound, CallSound, Issuing, Storing
<1>6. PairsApart'
  BY <1>1 DEF Refresh, At, SessionInv, TypeOK, PairsApart, Apart, Issuing, Storing
<1> QED BY <1>3, <1>4, <1>5, <1>6 DEF SessionInv

\* Nor does the test of the token's key.
LEMMA CheckSound ==
  ASSUME SessionInv, NEW c \in Calls, Check(c)
  PROVE  SessionInv'
<1>1. call' = [call EXCEPT ![c] =
      [call[c] EXCEPT !.pc = IF call[c].presented \in whitelist THEN "delete" ELSE "list"]]
  BY DEF Check, Goto
<1>2.
      [call[c] EXCEPT !.pc = IF call[c].presented \in whitelist THEN "delete" ELSE "list"] \in CallStates
  BY DEF Check, At, SessionInv, TypeOK, CallStates, Labels
<1>3. TypeOK'
  BY <1>1, <1>2 DEF Check, At, SessionInv, TypeOK
<1>4. SpentIsDead'
  BY <1>1 DEF Check, SessionInv, SpentIsDead
<1>5. EachSound'
  BY <1>1 DEF Check, At, SessionInv, TypeOK, EachSound, CallSound, Issuing, Storing
<1>6. PairsApart'
  BY <1>1 DEF Check, At, SessionInv, TypeOK, PairsApart, Apart, Issuing, Storing
<1> QED BY <1>3, <1>4, <1>5, <1>6 DEF SessionInv

\* The used key is gone before its successor exists (refresh).
LEMMA ExchangeSound ==
  ASSUME SessionInv, NEW c \in Calls, NEW g \in Families, Exchange(c, g)
  PROVE  SessionInv'
<1>1. call' = [call EXCEPT ![c] = [call[c] EXCEPT !.family = g, !.pc = "count"]]
  BY DEF Exchange
<1>2. [call[c] EXCEPT !.family = g, !.pc = "count"] \in CallStates
  BY DEF Exchange, At, SessionInv, TypeOK, CallStates, Labels
<1>3. TypeOK'
  BY <1>1, <1>2 DEF Exchange, At, SessionInv, TypeOK, EachSound, CallSound
<1>4. SpentIsDead'
  BY <1>1 DEF Exchange, SessionInv, SpentIsDead
<1>5. EachSound'
  BY <1>1 DEF Exchange, At, SessionInv, TypeOK, EachSound, CallSound, Issuing, Storing
<1>6. PairsApart'
  BY <1>1 DEF Exchange, At, SessionInv, TypeOK, PairsApart, Apart, Issuing, Storing,
         EachSound, CallSound
<1> QED BY <1>3, <1>4, <1>5, <1>6 DEF SessionInv

\* Counting the keys changes none (storeRefreshToken).
LEMMA CountSound ==
  ASSUME SessionInv, NEW c \in Calls, Count(c)
  PROVE  SessionInv'
<1>1. PICK h \in CallStates :
         /\ call' = [call EXCEPT ![c] = h]
         /\ h.pc \in {"evict", "store"} /\ h.presented = call[c].presented
         /\ h.family = call[c].family
  <2>1. CASE Full
    <3>1. PICK f \in whitelist : call' = [call EXCEPT ![c].victim = f, ![c].pc = "evict"]
      BY <2>1 DEF Count
    <3>2. call' = [call EXCEPT ![c] = [call[c] EXCEPT !.victim = f, !.pc = "evict"]]
      BY <3>1 DEF SessionInv, TypeOK
    <3> DEFINE h == [call[c] EXCEPT !.victim = f, !.pc = "evict"]
    <3>3. h \in CallStates /\ h.pc = "evict" /\ h.presented = call[c].presented /\ h.family = call[c].family
      BY DEF SessionInv, TypeOK, CallStates, Labels
    <3> QED BY <3>2, <3>3
  <2>2. CASE ~Full
    <3>1. call' = [call EXCEPT ![c] = [call[c] EXCEPT !.pc = "store"]]
      BY <2>2 DEF Count, Goto, SessionInv, TypeOK
    <3> DEFINE h == [call[c] EXCEPT !.pc = "store"]
    <3>2. h \in CallStates /\ h.pc = "store" /\ h.presented = call[c].presented /\ h.family = call[c].family
      BY DEF SessionInv, TypeOK, CallStates, Labels
    <3> QED BY <3>1, <3>2
  <2> QED BY <2>1, <2>2
<1>2. TypeOK'
  BY <1>1 DEF Count, At, SessionInv, TypeOK
<1>3. SpentIsDead'
  BY <1>1 DEF Count, SessionInv, SpentIsDead
<1>4. EachSound'
  BY <1>1 DEF Count, At, SessionInv, TypeOK, EachSound, CallSound, Issuing, Storing,
         CallStates
<1>5. PairsApart'
  <2> SUFFICES ASSUME NEW d \in Calls, NEW e \in Calls, d # e PROVE Apart(call[d], call[e])'
    BY DEF PairsApart
  <2>1. call[c].pc = "count" /\ Apart(call[d], call[e])
    BY DEF Count, At, SessionInv, PairsApart
  <2>2. call'[d] = IF d = c THEN h ELSE call[d]
    BY <1>1 DEF SessionInv, TypeOK
  <2>3. call'[e] = IF e = c THEN h ELSE call[e]
    BY <1>1 DEF SessionInv, TypeOK
  <2> QED BY <1>1, <2>1, <2>2, <2>3 DEF Apart, Issuing, Storing
<1> QED BY <1>2, <1>3, <1>4, <1>5 DEF SessionInv

\* An eviction only takes a key away.
LEMMA EvictSound ==
  ASSUME SessionInv, NEW c \in Calls, Evict(c)
  PROVE  SessionInv'
<1>1. call' = [call EXCEPT ![c] = [call[c] EXCEPT !.pc = "store"]]
  BY DEF Evict, Goto
<1>2. [call[c] EXCEPT !.pc = "store"] \in CallStates
  BY DEF Evict, At, SessionInv, TypeOK, CallStates, Labels
<1>3. TypeOK'
  BY <1>1, <1>2 DEF Evict, At, SessionInv, TypeOK
<1>4. SpentIsDead'
  BY <1>1 DEF Evict, SessionInv, SpentIsDead
<1>5. EachSound'
  BY <1>1 DEF Evict, At, SessionInv, TypeOK, EachSound, CallSound, Issuing, Storing
<1>6. PairsApart'
  BY <1>1 DEF Evict, At, SessionInv, TypeOK, PairsApart, Apart, Issuing, Storing
<1> QED BY <1>3, <1>4, <1>5, <1>6 DEF SessionInv

\* What is stored has been in nobody's hands or lists.
LEMMA StoreSound ==
  ASSUME SessionInv, NEW c \in Calls, Store(c)
  PROVE  SessionInv'
<1>1. call' = [call EXCEPT ![c] = [call[c] EXCEPT !.pc = "answer"]]
  BY DEF Store, Goto
<1>2. [call[c] EXCEPT !.pc = "answer"] \in CallStates
  BY DEF Store, At, SessionInv, TypeOK, CallStates, Labels
<1>3. TypeOK'
  BY <1>1, <1>2 DEF Store, At, SessionInv, TypeOK, EachSound, CallSound, Issuing, Storing
<1>4. SpentIsDead'
  BY <1>1 DEF Store, SessionInv, SpentIsDead, TypeOK, At, EachSound, CallSound, Issuing,
         Storing
<1>5. EachSound'
  BY <1>1 DEF Store, At, SessionInv, TypeOK, EachSound, CallSound, Issuing, Storing,
         PairsApart, Apart
<1>6. PairsApart'
  BY <1>1 DEF Store, At, SessionInv, TypeOK, PairsApart, Apart, Issuing, Storing
<1> QED BY <1>3, <1>4, <1>5, <1>6 DEF SessionInv

\* The token that the answer replaces has no key.
LEMMA AnswerSound ==
  ASSUME SessionInv, NEW c \in Calls, Answer(c)
  PROVE  SessionInv'
<1>1. call' = [call EXCEPT ![c] = Idle]
  BY DEF Answer, Return, Idle
<1>2. Idle \in CallStates
  BY DEF Answer, At, SessionInv, TypeOK, CallStates, Labels, Idle, None
<1>3. TypeOK'
  BY <1>1, <1>2 DEF Answer, At, SessionInv, TypeOK, EachSound, CallSound, Issuing, Storing
<1>4. SpentIsDead'
  BY <1>1 DEF Answer, SessionInv, SpentIsDead, TypeOK, At, EachSound, CallSound, Issuing,
         Storing
<1>5. EachSound'
  BY <1>1 DEF Answer, At, SessionInv, TypeOK, EachSound, CallSound, Issuing, Storing, Idle,
         None, PairsApart, Apart
<1>6. PairsApart'
  BY <1>1 DEF Answer, At, SessionInv, TypeOK, PairsApart, Apart, Issuing, Storing, Idle,
         None
<1> QED BY <1>3, <1>4, <1>5, <1>6 DEF SessionInv

\* Arriving to log out changes no key.
LEMMA LogoutSound ==
  ASSUME SessionInv, NEW c \in Calls, NEW f \in Families, Logout(c, f)
  PROVE  SessionInv'
<1>1. call' = [call EXCEPT ![c] =
      [pc |-> "revoke", op |-> "logout", presented |-> f, family |-> None,
       victim |-> None, listed |-> {}, keys |-> {}]]
  BY DEF Logout, Start, Authenticated, Idle
<1>2.
      [pc |-> "revoke", op |-> "logout", presented |-> f, family |-> None,
       victim |-> None, listed |-> {}, keys |-> {}] \in CallStates
  BY DEF Logout, Authenticated, At, SessionInv, TypeOK, CallStates, Labels
<1>3. TypeOK'
  BY <1>1, <1>2 DEF Logout, Authenticated, At, SessionInv, TypeOK
<1>4. SpentIsDead'
  BY <1>1 DEF Logout, Authenticated, SessionInv, SpentIsDead
<1>5. EachSound'
  BY <1>1 DEF Logout, Authenticated, At, SessionInv, TypeOK, EachSound, CallSound, Issuing,
         Storing
<1>6. PairsApart'
  BY <1>1 DEF Logout, Authenticated, At, SessionInv, TypeOK, PairsApart, Apart, Issuing,
         Storing
<1> QED BY <1>3, <1>4, <1>5, <1>6 DEF SessionInv

\* The access token revoked is one that a client holds.
LEMMA RevokeSound ==
  ASSUME SessionInv, NEW c \in Calls, Revoke(c)
  PROVE  SessionInv'
<1>1. call' = [call EXCEPT ![c] = [call[c] EXCEPT !.pc = "list"]]
  BY DEF Revoke, Goto
<1>2. [call[c] EXCEPT !.pc = "list"] \in CallStates
  BY DEF Revoke, At, SessionInv, TypeOK, CallStates, Labels
<1>3. TypeOK'
  BY <1>1, <1>2 DEF Revoke, At, SessionInv, TypeOK, EachSound, CallSound
<1>4. SpentIsDead'
  BY <1>1 DEF Revoke, SessionInv, SpentIsDead
<1>5. EachSound'
  BY <1>1 DEF Revoke, At, SessionInv, TypeOK, EachSound, CallSound, Issuing, Storing
<1>6. PairsApart'
  BY <1>1 DEF Revoke, At, SessionInv, TypeOK, PairsApart, Apart, Issuing, Storing
<1> QED BY <1>3, <1>4, <1>5, <1>6 DEF SessionInv

\* Arriving to change the password changes no key.
LEMMA ChangePasswordSound ==
  ASSUME SessionInv, NEW c \in Calls, NEW f \in Families, ChangePassword(c, f)
  PROVE  SessionInv'
<1>1. call' = [call EXCEPT ![c] =
      [pc |-> "update", op |-> "changePassword", presented |-> f, family |-> None,
       victim |-> None, listed |-> {}, keys |-> {}]]
  BY DEF ChangePassword, Start, Authenticated, Idle
<1>2.
      [pc |-> "update", op |-> "changePassword", presented |-> f, family |-> None,
       victim |-> None, listed |-> {}, keys |-> {}] \in CallStates
  BY DEF ChangePassword, Authenticated, At, SessionInv, TypeOK, CallStates, Labels
<1>3. TypeOK'
  BY <1>1, <1>2 DEF ChangePassword, Authenticated, At, SessionInv, TypeOK
<1>4. SpentIsDead'
  BY <1>1 DEF ChangePassword, Authenticated, SessionInv, SpentIsDead
<1>5. EachSound'
  BY <1>1 DEF ChangePassword, Authenticated, At, SessionInv, TypeOK, EachSound, CallSound,
         Issuing, Storing
<1>6. PairsApart'
  BY <1>1 DEF ChangePassword, Authenticated, At, SessionInv, TypeOK, PairsApart, Apart,
         Issuing, Storing
<1> QED BY <1>3, <1>4, <1>5, <1>6 DEF SessionInv

\* Nor does the new password.
LEMMA UpdatePasswordSound ==
  ASSUME SessionInv, NEW c \in Calls, NEW p \in Passwords, UpdatePassword(c, p)
  PROVE  SessionInv'
<1>1. call' = [call EXCEPT ![c] = [call[c] EXCEPT !.pc = "list"]]
  BY DEF UpdatePassword, Goto
<1>2. [call[c] EXCEPT !.pc = "list"] \in CallStates
  BY DEF UpdatePassword, At, SessionInv, TypeOK, CallStates, Labels
<1>3. TypeOK'
  BY <1>1, <1>2 DEF UpdatePassword, At, SessionInv, TypeOK
<1>4. SpentIsDead'
  BY <1>1 DEF UpdatePassword, SessionInv, SpentIsDead
<1>5. EachSound'
  BY <1>1 DEF UpdatePassword, At, SessionInv, TypeOK, EachSound, CallSound, Issuing,
         Storing
<1>6. PairsApart'
  BY <1>1 DEF UpdatePassword, At, SessionInv, TypeOK, PairsApart, Apart, Issuing, Storing
<1> QED BY <1>3, <1>4, <1>5, <1>6 DEF SessionInv

\* No key listed is one that a call is about to store (invalidateAllSessions).
LEMMA ListSound ==
  ASSUME SessionInv, NEW c \in Calls, List(c)
  PROVE  SessionInv'
<1>1. call' = [call EXCEPT ![c] =
      [call[c] EXCEPT !.listed = whitelist, !.keys = whitelist, !.pc = "purge"]]
  BY DEF List
<1>2.
      [call[c] EXCEPT !.listed = whitelist, !.keys = whitelist, !.pc = "purge"] \in CallStates
  BY DEF List, At, SessionInv, TypeOK, CallStates, Labels
<1>3. TypeOK'
  BY <1>1, <1>2 DEF List, At, SessionInv, TypeOK
<1>4. SpentIsDead'
  BY <1>1 DEF List, SessionInv, SpentIsDead
<1>5. EachSound'
  BY <1>1 DEF List, At, SessionInv, TypeOK, EachSound, CallSound, Issuing, Storing
<1>6. PairsApart'
  BY <1>1 DEF List, At, SessionInv, TypeOK, PairsApart, Apart, Issuing, Storing, EachSound,
         CallSound
<1> QED BY <1>3, <1>4, <1>5, <1>6 DEF SessionInv

\* A key deleted from the list is gone from the table.
LEMMA PurgeSound ==
  ASSUME SessionInv, NEW c \in Calls, Purge(c)
  PROVE  SessionInv'
<1>1. TypeOK'
  BY DEF Purge, At, SessionInv, TypeOK, CallStates
<1>2. SpentIsDead'
  BY DEF Purge, SessionInv, SpentIsDead
<1>3. EachSound'
  BY DEF Purge, At, SessionInv, TypeOK, EachSound, CallSound, Issuing, Storing
<1>4. PairsApart'
  BY DEF Purge, At, SessionInv, TypeOK, PairsApart, Apart, Issuing, Storing
<1> QED BY <1>1, <1>2, <1>3, <1>4 DEF SessionInv

\* The answer after the purge changes no key.
LEMMA PurgedSound ==
  ASSUME SessionInv, NEW c \in Calls, Purged(c)
  PROVE  SessionInv'
<1>1. call' = [call EXCEPT ![c] = Idle]
  BY DEF Purged, Return, Idle
<1>2. Idle \in CallStates
  BY DEF Purged, At, SessionInv, TypeOK, CallStates, Labels, Idle, None
<1>3. TypeOK'
  BY <1>1, <1>2 DEF Purged, At, SessionInv, TypeOK
<1>4. SpentIsDead'
  BY <1>1 DEF Purged, SessionInv, SpentIsDead
<1>5. EachSound'
  BY <1>1 DEF Purged, At, SessionInv, TypeOK, EachSound, CallSound, Issuing, Storing, Idle,
         None
<1>6. PairsApart'
  BY <1>1 DEF Purged, At, SessionInv, TypeOK, PairsApart, Apart, Issuing, Storing, Idle,
         None
<1> QED BY <1>3, <1>4, <1>5, <1>6 DEF SessionInv

\* A call that dies takes its family with it.
LEMMA FailSound ==
  ASSUME SessionInv, NEW c \in Calls, Fail(c)
  PROVE  SessionInv'
<1>1. call' = [call EXCEPT ![c] = Idle]
  BY DEF Fail, Return, Idle
<1>2. Idle \in CallStates
  BY DEF Fail, At, SessionInv, TypeOK, CallStates, Labels, Idle, None
<1>3. TypeOK'
  BY <1>1, <1>2 DEF Fail, At, SessionInv, TypeOK
<1>4. SpentIsDead'
  BY <1>1 DEF Fail, SessionInv, SpentIsDead
<1>5. EachSound'
  BY <1>1 DEF Fail, At, SessionInv, TypeOK, EachSound, CallSound, Issuing, Storing, Idle,
         None
<1>6. PairsApart'
  BY <1>1 DEF Fail, At, SessionInv, TypeOK, PairsApart, Apart, Issuing, Storing, Idle, None
<1> QED BY <1>3, <1>4, <1>5, <1>6 DEF SessionInv

\* The expiry of a token changes no key.
LEMMA TokenExpiresSound ==
  ASSUME SessionInv, NEW f \in Families, TokenExpires(f)
  PROVE  SessionInv'
  BY DEF TokenExpires, SessionInv, TypeOK, SpentIsDead, EachSound, PairsApart, CallSound,
         Apart

\* The expiry of a key only takes it away.
LEMMA KeyExpiresSound ==
  ASSUME SessionInv, NEW f \in Families, KeyExpires(f)
  PROVE  SessionInv'
  BY DEF KeyExpires, SessionInv, TypeOK, SpentIsDead, EachSound, PairsApart, CallSound,
         Apart

-----------------------------------------------------------------------------
\* Every step preserves the invariant.
LEMMA NextSound == SessionInv /\ [Next]_vars => SessionInv'
<1> SUFFICES ASSUME SessionInv, [Next]_vars PROVE SessionInv'
  OBVIOUS
<1>1. ASSUME NEW c \in Calls, Begin(c) PROVE SessionInv'
  BY <1>1, LoginSound, RefreshSound, LogoutSound, ChangePasswordSound DEF Begin
<1>2. ASSUME NEW c \in Calls, Continue(c) PROVE SessionInv'
  BY <1>2, CheckSound, CountSound, EvictSound, StoreSound, AnswerSound, RevokeSound, ListSound,
     PurgeSound, PurgedSound, ExchangeSound, UpdatePasswordSound DEF Continue
<1>3. ASSUME NEW f \in Families, TokenExpires(f) \/ KeyExpires(f) PROVE SessionInv'
  BY <1>3, TokenExpiresSound, KeyExpiresSound
<1>4. CASE UNCHANGED vars
  BY <1>4 DEF vars, SessionInv, TypeOK, SpentIsDead, EachSound, PairsApart
<1> QED BY <1>1, <1>2, <1>3, <1>4, FailSound DEF Next, Reliable

THEOREM InvariantHolds == Spec => []SessionInv
<1> QED BY InitSound, NextSound, PTL DEF Spec

\* Every reachable state of the sessions is well typed (auth.service.ts).
THEOREM SessionsTypeCorrect == Spec => []TypeOK
<1>1. SessionInv => TypeOK
  BY DEF SessionInv
<1> QED BY <1>1, InvariantHolds, PTL

\* A token whose successor has reached the client is never accepted again,
\* however many calls present it at once (refresh).
THEOREM SpentStaysDead == Spec => []SpentIsDead
<1>1. SessionInv => SpentIsDead
  BY DEF SessionInv
<1> QED BY <1>1, InvariantHolds, PTL

\* When an invalidation answers, no session that it listed is live, whatever
\* logins and rotations went on meanwhile (invalidateAllSessions).
THEOREM InvalidationsHold == Spec => []InvalidationHolds
<1>1. SessionInv => InvalidationHolds
  BY DEF SessionInv, EachSound, CallSound, InvalidationHolds, At
<1> QED BY <1>1, InvariantHolds, PTL

\* Only a store adds a key, and the family it adds has reached no client yet.
LEMMA StoresAreNew ==
  ASSUME SessionInv, Next, NEW f \in held, f \notin whitelist
  PROVE  f \notin whitelist'
<1>1. ASSUME NEW c \in Calls, Store(c) PROVE f \notin whitelist'
  BY <1>1 DEF Store, At, SessionInv, EachSound, CallSound, Issuing, Storing
<1>2. ASSUME NEW c \in Calls, Begin(c) PROVE whitelist' = whitelist
  BY <1>2 DEF Begin, Login, Refresh, Logout, ChangePassword
<1>3. ASSUME NEW c \in Calls, Continue(c), ~Store(c) PROVE whitelist' \subseteq whitelist
  BY <1>3 DEF Continue, Check, Count, Evict, Answer, Revoke, List, Purge, Purged, Exchange,
              UpdatePassword
<1>4. ASSUME NEW g \in Families, TokenExpires(g) \/ KeyExpires(g) PROVE whitelist' \subseteq whitelist
  BY <1>4 DEF TokenExpires, KeyExpires
<1>5. ASSUME NEW c \in Calls, Fail(c) PROVE whitelist' = whitelist
  BY <1>5 DEF Fail
<1> QED BY <1>1, <1>2, <1>3, <1>4, <1>5 DEF Next, Reliable

\* A session that has ended does not come back (NoResurrection): no late store
\* of any call restores its key.
THEOREM SessionsStayEnded == Spec => NoResurrection
<1>1. SessionInv /\ [Next]_vars =>
        [\A f \in held : f \notin whitelist => f \notin whitelist']_vars
  BY StoresAreNew
<1> QED BY <1>1, InvariantHolds, PTL DEF Spec, NoResurrection

-----------------------------------------------------------------------------
(***************************************************************************)
(* What holds of calls that come one after the other (MCSpec of MCAuth,     *)
(* until overlapped): the room that one step of storeRefreshToken makes is  *)
(* still there at the next, and so is the password a token stems from.      *)
(***************************************************************************)
OneAtATime == \A c, d \in Calls : c # d => At(c, "idle") \/ At(d, "idle")

\* The room there is for the key that the call with the state h will set.
RoomMade(h, W) ==
  /\ h.pc = "store" => Cardinality(W) < MaxSessions
  /\ h.pc = "evict" => h.op # "refresh" /\ Cardinality(W \ {h.victim}) < MaxSessions
  /\ h.pc = "delete" => Cardinality(W \ {h.presented}) < MaxSessions
  /\ h.pc = "count" /\ h.op = "refresh" => Cardinality(W) < MaxSessions
  /\ h.op = "refresh" => h.victim = None

\* The families the call deals with stem from the password p of now, R says.
PasswordKept(h, W, R, p) ==
  /\ h.pc \in Storing => R[h.family] = p
  /\ h.pc = "delete" => R[h.presented] = p
  /\ h.pc = "purge" => W \subseteq h.keys

Followed == \A f \in whitelist : root[f] = password
Ending == {"list", "purge"}

AloneInv ==
  /\ IsFiniteSet(whitelist)
  /\ ~overlapped =>
       /\ OneAtATime
       /\ Cardinality(whitelist) <= MaxSessions
       /\ (\A c \in Calls : call[c].pc \notin Ending) => Followed
       /\ \A c \in Calls : RoomMade(call[c], whitelist)
                           /\ PasswordKept(call[c], whitelist, root, password)

\* The same of one call alone, whose state is h.
AloneAt(h, W, R, p) ==
  /\ Cardinality(W) <= MaxSessions
  /\ h.pc \notin Ending => \A f \in W : R[f] = p
  /\ RoomMade(h, W)
  /\ PasswordKept(h, W, R, p)

OthersIdle(c) == \A d \in Calls \ {c} : At(d, "idle")

LEMMA SmallerSet ==
  ASSUME NEW W, IsFiniteSet(W), NEW V, V \subseteq W
  PROVE  IsFiniteSet(V) /\ Cardinality(V) \in Nat /\ Cardinality(W) \in Nat
         /\ Cardinality(V) <= Cardinality(W)
<1>1. IsFiniteSet(V) /\ Cardinality(V) <= Cardinality(W)
  BY FS_Subset
<1> QED BY <1>1, FS_CardinalityType

\* Keys that go leave all of it true.
LEMMA FewerRoom ==
  ASSUME NEW W, IsFiniteSet(W), NEW V, V \subseteq W, NEW h, RoomMade(h, W)
  PROVE  RoomMade(h, V)
<1>1. \A x : Cardinality(V \ {x}) \in Nat /\ Cardinality(W \ {x}) \in Nat
             /\ Cardinality(V \ {x}) <= Cardinality(W \ {x})
  <2> TAKE x
  <2>1. IsFiniteSet(W \ {x})
    BY FS_RemoveElement
  <2>2. V \ {x} \subseteq W \ {x}
    OBVIOUS
  <2> QED BY <2>1, <2>2, SmallerSet
<1>2. Cardinality(V) \in Nat /\ Cardinality(W) \in Nat /\ Cardinality(V) <= Cardinality(W)
  BY SmallerSet
<1>3. \A m, n \in Nat : m <= n /\ n < MaxSessions => m < MaxSessions
  BY MaxSessionsAssumption
<1>4. /\ Cardinality(W \ {h.victim}) < MaxSessions => Cardinality(V \ {h.victim}) < MaxSessions
      /\ Cardinality(W \ {h.presented}) < MaxSessions => Cardinality(V \ {h.presented}) < MaxSessions
      /\ Cardinality(W) < MaxSessions => Cardinality(V) < MaxSessions
  BY <1>1, <1>2, <1>3
<1> QED BY <1>4 DEF RoomMade

LEMMA FewerKeys ==
  ASSUME NEW W, IsFiniteSet(W), NEW V, V \subseteq W, NEW h, NEW R, NEW p, AloneAt(h, W, R, p)
  PROVE  AloneAt(h, V, R, p)
<1>1. Cardinality(V) \in Nat /\ Cardinality(W) \in Nat /\ Cardinality(V) <= Cardinality(W)
  BY SmallerSet
<1>2. RoomMade(h, V)
  BY FewerRoom DEF AloneAt
<1> QED BY <1>1, <1>2, MaxSessionsAssumption DEF AloneAt, PasswordKept

LEMMA KeysFinite == IsFiniteSet(whitelist) /\ [Next]_vars => IsFiniteSet(whitelist')
<1> SUFFICES ASSUME IsFiniteSet(whitelist), [Next]_vars PROVE IsFiniteSet(whitelist')
  OBVIOUS
<1>1. \/ whitelist' \subseteq whitelist
      \/ \E f : whitelist' = whitelist \cup {f}
  <2>1. ASSUME NEW c \in Calls, Begin(c) PROVE whitelist' \subseteq whitelist
    BY <2>1 DEF Begin, Login, Refresh, Logout, ChangePassword
  <2>2. ASSUME NEW c \in Calls, Continue(c), ~Store(c) PROVE whitelist' \subseteq whitelist
    BY <2>2 DEF Continue, Check, Count, Evict, Answer, Revoke, List, Purge, Purged, Exchange,
                UpdatePassword
  <2>3. ASSUME NEW c \in Calls, Store(c) PROVE \E f : whitelist' = whitelist \cup {f}
    BY <2>3 DEF Store
  <2>4. ASSUME NEW f \in Families, TokenExpires(f) \/ KeyExpires(f) PROVE whitelist' \subseteq whitelist
    BY <2>4 DEF TokenExpires, KeyExpires
  <2>5. ASSUME NEW c \in Calls, Fail(c) PROVE whitelist' \subseteq whitelist
    BY <2>5 DEF Fail
  <2>6. CASE UNCHANGED vars
    BY <2>6 DEF vars
  <2> QED BY <2>1, <2>2, <2>3, <2>4, <2>5, <2>6 DEF Next, Reliable
<1> QED BY <1>1, FS_Subset, FS_AddElement

-----------------------------------------------------------------------------
(***************************************************************************)
(* One lemma for each step of a call that is alone.                         *)
(***************************************************************************)
AloneBefore(c) == SessionInv /\ IsFiniteSet(whitelist) /\ AloneAt(call[c], whitelist, root, password)
AloneAfter(c) == AloneAt(call[c], whitelist, root, password)'

\* Arriving (Begin): a login has the password of now (login).
LEMMA BeginAlone ==
  ASSUME NEW c \in Calls, AloneBefore(c), Begin(c)
  PROVE  AloneAfter(c)
<1>1. ASSUME NEW f \in Families, Login(c, f) PROVE AloneAfter(c)
  <2>1. PICK h \in CallStates : /\ call' = [call EXCEPT ![c] = h]
                                /\ h.pc = "count" /\ h.op = "login" /\ h.family = f
    <3> DEFINE h == [pc |-> "count", op |-> "login", presented |-> None, family |-> f,
                     victim |-> None, listed |-> {}, keys |-> {}]
    <3>1. h \in CallStates
      BY DEF CallStates, Labels
    <3>2. call' = [call EXCEPT ![c] = h]
      BY <1>1 DEF Login, Start
    <3> QED BY <3>1, <3>2
  <2>2. call'[c] = h
    BY <2>1 DEF AloneBefore, SessionInv, TypeOK
  <2>3. f \notin whitelist /\ root'[f] = password /\ \A g \in whitelist : root'[g] = root[g]
    BY <1>1 DEF Login, AloneBefore, SessionInv, TypeOK
  <2>4. \A g \in whitelist : root[g] = password
    BY <1>1 DEF Login, At, AloneBefore, AloneAt, Ending
  <2>5. whitelist' = whitelist /\ password' = password
    BY <1>1 DEF Login
  <2> QED BY <2>1, <2>2, <2>3, <2>4, <2>5 DEF AloneBefore, AloneAfter, AloneAt, RoomMade, PasswordKept, Storing
<1>2. ASSUME NEW f \in Families, Refresh(c, f) \/ Logout(c, f) \/ ChangePassword(c, f)
      PROVE  AloneAfter(c)
  <2>1. PICK h \in CallStates : /\ call' = [call EXCEPT ![c] = h]
                                /\ h.pc \in {"check", "revoke", "update"} /\ h.victim = None
    <3>1. PICK pc \in {"check", "revoke", "update"}, op \in {"refresh", "logout", "changePassword"} :
             Start(c, pc, op, f, None)
      BY <1>2 DEF Refresh, Logout, ChangePassword
    <3> DEFINE h == [pc |-> pc, op |-> op, presented |-> f, family |-> None,
                     victim |-> None, listed |-> {}, keys |-> {}]
    <3>2. h \in CallStates
      BY DEF CallStates, Labels
    <3>3. call' = [call EXCEPT ![c] = h]
      BY <3>1 DEF Start
    <3> QED BY <3>2, <3>3
  <2>2. call'[c] = h
    BY <2>1 DEF AloneBefore, SessionInv, TypeOK
  <2>3. \A g \in whitelist : root[g] = password
    BY <1>2 DEF Refresh, Logout, ChangePassword, At, AloneBefore, AloneAt, Ending
  <2>4. whitelist' = whitelist /\ password' = password /\ root' = root
    BY <1>2 DEF Refresh, Logout, ChangePassword
  <2> QED BY <2>1, <2>2, <2>3, <2>4 DEF AloneBefore, AloneAfter, AloneAt, RoomMade, PasswordKept, Storing
<1> QED BY <1>1, <1>2 DEF Begin

\* A token that has its key stems from the password of now, and its key makes
\* room for the successor's (refresh).
LEMMA CheckAlone ==
  ASSUME NEW c \in Calls, AloneBefore(c), Check(c)
  PROVE  AloneAfter(c)
<1>1. PICK k \in CallStates : k = call[c]
  BY DEF AloneBefore, SessionInv, TypeOK
<1>2. PICK h : /\ h = call'[c] /\ h.pc = (IF k.presented \in whitelist THEN "delete" ELSE "list")
               /\ h.op = k.op /\ h.presented = k.presented /\ h.victim = k.victim
  BY <1>1 DEF Check, Goto, AloneBefore, SessionInv, TypeOK, CallStates
<1>3. k.pc = "check" /\ whitelist' = whitelist /\ root' = root /\ password' = password
  BY <1>1 DEF Check, At
<1>4. AloneAt(k, whitelist, root, password)
  BY <1>1 DEF AloneBefore
<1>5. k.presented \in whitelist => Cardinality(whitelist \ {k.presented}) < MaxSessions
  <2> SUFFICES ASSUME k.presented \in whitelist
               PROVE  Cardinality(whitelist \ {k.presented}) < MaxSessions
    OBVIOUS
  <2>1. Cardinality(whitelist \ {k.presented}) = Cardinality(whitelist) - 1
    BY FS_RemoveElement DEF AloneBefore
  <2>2. Cardinality(whitelist) \in Nat
    BY FS_CardinalityType DEF AloneBefore
  <2> QED BY <1>4, <2>1, <2>2, MaxSessionsAssumption DEF AloneAt
<1>6. AloneAt(h, whitelist, root, password)
  BY <1>2, <1>3, <1>4, <1>5 DEF AloneAt, RoomMade, PasswordKept, Storing, Ending
<1> QED BY <1>2, <1>3, <1>6 DEF AloneAfter

\* The successor stems from what the used token stems from (refresh).
LEMMA ExchangeAlone ==
  ASSUME NEW c \in Calls, NEW g \in Families, AloneBefore(c), Exchange(c, g)
  PROVE  AloneAfter(c)
<1>1. PICK k \in CallStates : k = call[c]
  BY DEF AloneBefore, SessionInv, TypeOK
<1>2. PICK h : /\ h = call'[c] /\ h.pc = "count" /\ h.op = k.op /\ h.victim = k.victim
               /\ h.family = g
  <2>1. call'[c] = [k EXCEPT !.family = g, !.pc = "count"]
    BY <1>1 DEF Exchange, AloneBefore, SessionInv, TypeOK
  <2> QED BY <2>1 DEF CallStates
<1>3. k.pc = "delete" /\ whitelist' = whitelist \ {k.presented} /\ password' = password
  BY <1>1 DEF Exchange, At
<1>4. AloneAt(k, whitelist, root, password)
  BY <1>1 DEF AloneBefore
<1>5. k.presented \in Families /\ root[k.presented] = password
  BY <1>1, <1>3, <1>4 DEF AloneAt, PasswordKept, AloneBefore, SessionInv, TypeOK, EachSound, CallSound
<1>6. root'[g] = password /\ \A f \in whitelist : root'[f] = root[f]
  BY <1>1, <1>5 DEF Exchange, AloneBefore, SessionInv, TypeOK
<1>7. Cardinality(whitelist \ {k.presented}) <= MaxSessions
  BY <1>4, SmallerSet, MaxSessionsAssumption DEF AloneBefore, AloneAt
<1>8. AloneAt(h, whitelist', root', password')
  BY <1>2, <1>3, <1>4, <1>6, <1>7 DEF AloneAt, RoomMade, PasswordKept, Storing, Ending
<1> QED BY <1>2, <1>8 DEF AloneAfter

\* A full table loses one key, and never to a rotation (storeRefreshToken).
LEMMA CountAlone ==
  ASSUME NEW c \in Calls, AloneBefore(c), Count(c)
  PROVE  AloneAfter(c)
<1>1. PICK k \in CallStates : k = call[c]
  BY DEF AloneBefore, SessionInv, TypeOK
<1>2. k.pc = "count" /\ whitelist' = whitelist /\ root' = root /\ password' = password
  BY <1>1 DEF Count, At
<1>3. AloneAt(k, whitelist, root, password)
  BY <1>1 DEF AloneBefore
<1>4. Cardinality(whitelist) \in Nat
  BY FS_CardinalityType DEF AloneBefore
<1>5. CASE Full
  <2>1. PICK f \in whitelist : call' = [call EXCEPT ![c].victim = f, ![c].pc = "evict"]
    BY <1>5 DEF Count
  <2>2. call'[c] = [k EXCEPT !.victim = f, !.pc = "evict"]
    BY <1>1, <2>1 DEF AloneBefore, SessionInv, TypeOK
  <2>3. PICK h : /\ h = call'[c] /\ h.pc = "evict" /\ h.op = k.op /\ h.victim = f
                 /\ h.family = k.family
    BY <2>2 DEF CallStates
  <2>4. Cardinality(whitelist \ {f}) = Cardinality(whitelist) - 1
    BY <2>1, FS_RemoveElement DEF AloneBefore
  <2>5. Cardinality(whitelist) <= MaxSessions
    BY <1>3 DEF AloneAt
  <2>6. Cardinality(whitelist \ {f}) < MaxSessions
    BY <1>4, <2>4, <2>5, MaxSessionsAssumption
  <2>7. k.op # "refresh"
    <3>1. ~(Cardinality(whitelist) < MaxSessions)
      BY <1>4, <1>5, MaxSessionsAssumption DEF Full
    <3> QED BY <1>2, <1>3, <3>1 DEF AloneAt, RoomMade
  <2>8. AloneAt(h, whitelist, root, password)
    BY <1>2, <1>3, <2>3, <2>6, <2>7 DEF AloneAt, RoomMade, PasswordKept, Storing, Ending
  <2> QED BY <1>2, <2>3, <2>8 DEF AloneAfter
<1>6. CASE ~Full
  <2>1. call'[c] = [k EXCEPT !.pc = "store"]
    BY <1>1, <1>6 DEF Count, Goto, AloneBefore, SessionInv, TypeOK
  <2>2. PICK h : /\ h = call'[c] /\ h.pc = "store" /\ h.op = k.op /\ h.victim = k.victim
                 /\ h.family = k.family
    BY <2>1 DEF CallStates
  <2>3. Cardinality(whitelist) < MaxSessions
    BY <1>4, <1>6, MaxSessionsAssumption DEF Full
  <2>4. AloneAt(h, whitelist, root, password)
    BY <1>2, <1>3, <2>2, <2>3 DEF AloneAt, RoomMade, PasswordKept, Storing, Ending
  <2> QED BY <1>2, <2>2, <2>4 DEF AloneAfter
<1> QED BY <1>5, <1>6

\* The eviction makes the room (storeRefreshToken).
LEMMA EvictAlone ==
  ASSUME NEW c \in Calls, AloneBefore(c), Evict(c)
  PROVE  AloneAfter(c)
<1>1. PICK k \in CallStates : k = call[c]
  BY DEF AloneBefore, SessionInv, TypeOK
<1>2. k.pc = "evict" /\ whitelist' = whitelist \ {k.victim} /\ root' = root /\ password' = password
  BY <1>1 DEF Evict, At
<1>3. AloneAt(k, whitelist, root, password)
  BY <1>1 DEF AloneBefore
<1>4. PICK h : /\ h = call'[c] /\ h.pc = "store" /\ h.op = k.op /\ h.family = k.family
  BY <1>1 DEF Evict, Goto, AloneBefore, SessionInv, TypeOK, CallStates
<1>5. Cardinality(whitelist') < MaxSessions /\ Cardinality(whitelist') <= MaxSessions
  <2>1. Cardinality(whitelist') < MaxSessions
    BY <1>2, <1>3 DEF AloneAt, RoomMade
  <2>2. Cardinality(whitelist') \in Nat
    BY <1>2, FS_RemoveElement, FS_CardinalityType DEF AloneBefore
  <2> QED BY <2>1, <2>2, MaxSessionsAssumption
<1>6. AloneAt(h, whitelist', root', password')
  BY <1>2, <1>3, <1>4, <1>5 DEF AloneAt, RoomMade, PasswordKept, Storing, Ending
<1> QED BY <1>4, <1>6 DEF AloneAfter

\* The key set fits into the room made (storeRefreshToken).
LEMMA StoreAlone ==
  ASSUME NEW c \in Calls, AloneBefore(c), Store(c)
  PROVE  AloneAfter(c)
<1>1. PICK k \in CallStates : k = call[c]
  BY DEF AloneBefore, SessionInv, TypeOK
<1>2. k.pc = "store" /\ whitelist' = whitelist \cup {k.family} /\ root' = root /\ password' = password
  BY <1>1 DEF Store, At
<1>3. AloneAt(k, whitelist, root, password)
  BY <1>1 DEF AloneBefore
<1>4. PICK h : h = call'[c] /\ h.pc = "answer" /\ h.op = k.op /\ h.victim = k.victim
  BY <1>1 DEF Store, Goto, AloneBefore, SessionInv, TypeOK, CallStates
<1>5. Cardinality(whitelist') <= MaxSessions
  <2>1. Cardinality(whitelist) < MaxSessions
    BY <1>2, <1>3 DEF AloneAt, RoomMade
  <2>2. Cardinality(whitelist) \in Nat
    BY FS_CardinalityType DEF AloneBefore
  <2>3. Cardinality(whitelist') \in {Cardinality(whitelist), Cardinality(whitelist) + 1}
    BY <1>2, FS_AddElement DEF AloneBefore
  <2> QED BY <2>1, <2>2, <2>3, MaxSessionsAssumption
<1>6. root[k.family] = password
  BY <1>2, <1>3 DEF AloneAt, PasswordKept, Storing
<1>7. AloneAt(h, whitelist', root', password')
  BY <1>2, <1>3, <1>4, <1>5, <1>6 DEF AloneAt, RoomMade, PasswordKept, Storing, Ending
<1> QED BY <1>4, <1>7 DEF AloneAfter

\* Answering changes no key; nor does a call that has purged them all, as none
\* is left then (invalidateAllSessions).
LEMMA ReturnAlone ==
  ASSUME NEW c \in Calls, AloneBefore(c), Answer(c) \/ Purged(c)
  PROVE  AloneAfter(c)
<1>1. PICK k \in CallStates : k = call[c]
  BY DEF AloneBefore, SessionInv, TypeOK
<1>2. /\ k.pc = "answer" \/ (k.pc = "purge" /\ k.keys = {})
      /\ whitelist' = whitelist /\ root' = root /\ password' = password
  BY <1>1 DEF Answer, Purged, At
<1>3. AloneAt(k, whitelist, root, password)
  BY <1>1 DEF AloneBefore
<1>4. PICK h : h = call'[c] /\ h.pc = "idle" /\ h.op = "none"
  BY <1>1 DEF Answer, Purged, Return, Idle, AloneBefore, SessionInv, TypeOK
<1>5. \A f \in whitelist : root[f] = password
  BY <1>2, <1>3 DEF AloneAt, PasswordKept, Ending
<1>6. AloneAt(h, whitelist, root, password)
  BY <1>3, <1>4, <1>5 DEF AloneAt, RoomMade, PasswordKept, Storing
<1> QED BY <1>2, <1>4, <1>6 DEF AloneAfter

\* From the new password on, the keys there are belong to the list that is to
\* be purged (changePassword, logout).
LEMMA EndAlone ==
  ASSUME NEW c \in Calls, AloneBefore(c),
         Revoke(c) \/ List(c) \/ \E p \in Passwords : UpdatePassword(c, p)
  PROVE  AloneAfter(c)
<1>1. PICK k \in CallStates : k = call[c]
  BY DEF AloneBefore, SessionInv, TypeOK
<1>2. whitelist' = whitelist /\ root' = root
  BY DEF Revoke, List, UpdatePassword
<1>3. AloneAt(k, whitelist, root, password)
  BY <1>1 DEF AloneBefore
<1>4. PICK h : /\ h = call'[c] /\ h.op = k.op /\ h.victim = k.victim
               /\ h.pc = "list" \/ (h.pc = "purge" /\ h.keys = whitelist)
  <2>1. \/ call'[c] = [k EXCEPT !.pc = "list"]
        \/ call'[c] = [k EXCEPT !.listed = whitelist, !.keys = whitelist, !.pc = "purge"]
    BY <1>1 DEF Revoke, List, UpdatePassword, Goto, AloneBefore, SessionInv, TypeOK
  <2> QED BY <2>1 DEF CallStates
<1>5. AloneAt(h, whitelist, root, password')
  BY <1>3, <1>4 DEF AloneAt, RoomMade, PasswordKept, Storing, Ending
<1> QED BY <1>2, <1>4, <1>5 DEF AloneAfter

\* A key deleted is gone from the list and from the table.
LEMMA PurgeAlone ==
  ASSUME NEW c \in Calls, AloneBefore(c), Purge(c)
  PROVE  AloneAfter(c)
<1>1. PICK k \in CallStates : k = call[c]
  BY DEF AloneBefore, SessionInv, TypeOK
<1>2. PICK f \in k.keys : /\ whitelist' = whitelist \ {f}
                          /\ call' = [call EXCEPT ![c].keys = @ \ {f}]
  BY <1>1 DEF Purge
<1>3. k.pc = "purge" /\ root' = root /\ password' = password
  BY <1>1 DEF Purge, At
<1>4. PICK h : h = call'[c] /\ h.pc = "purge" /\ h.op = k.op /\ h.victim = k.victim
               /\ h.keys = k.keys \ {f}
  <2>1. call'[c] = [k EXCEPT !.keys = k.keys \ {f}]
    BY <1>1, <1>2 DEF AloneBefore, SessionInv, TypeOK
  <2> QED BY <1>3, <2>1 DEF CallStates
<1>5. AloneAt(k, whitelist', root, password)
  BY <1>1, <1>2, FewerKeys DEF AloneBefore
<1>6. whitelist' \subseteq h.keys
  BY <1>1, <1>2, <1>3, <1>4 DEF AloneBefore, AloneAt, PasswordKept
<1>7. AloneAt(h, whitelist', root, password)
  BY <1>3, <1>4, <1>5, <1>6 DEF AloneAt, RoomMade, PasswordKept, Storing, Ending
<1> QED BY <1>3, <1>4, <1>7 DEF AloneAfter

-----------------------------------------------------------------------------
LEMMA ContinueAlone ==
  ASSUME NEW c \in Calls, AloneBefore(c), Continue(c)
  PROVE  AloneAfter(c)
<1>1. ASSUME NEW g \in Families, Exchange(c, g) PROVE AloneAfter(c)
  BY <1>1, ExchangeAlone
<1> QED BY <1>1, CheckAlone, CountAlone, EvictAlone, StoreAlone, ReturnAlone, EndAlone, PurgeAlone
        DEF Continue

\* A call changes its own state only, and is not idle before or not after.
LEMMA OwnState ==
  ASSUME SessionInv, NEW c \in Calls, Begin(c) \/ Continue(c)
  PROVE  /\ ~At(c, "idle") \/ ~At(c, "idle")'
         /\ \A d \in Calls \ {c} : call'[d] = call[d]
<1>1. ASSUME Begin(c) PROVE ~At(c, "idle")' /\ \A d \in Calls \ {c} : call'[d] = call[d]
  BY <1>1 DEF Begin, Login, Refresh, Logout, ChangePassword, Start, At, SessionInv, TypeOK
<1>2. ASSUME Continue(c) PROVE ~At(c, "idle")
  BY <1>2 DEF Continue, Check, Count, Evict, Store, Answer, Revoke, List, Purge, Purged,
              Exchange, UpdatePassword, At
<1>3. ASSUME Continue(c) PROVE \A d \in Calls \ {c} : call'[d] = call[d]
  BY <1>3 DEF Continue, Check, Count, Evict, Store, Answer, Revoke, List, Purge, Purged,
              Exchange, UpdatePassword, Goto, Return, SessionInv, TypeOK
<1> QED BY <1>1, <1>2, <1>3

\* As long as calls have not overlapped, the others of a call in progress are
\* idle, before its step and after.
LEMMA OthersAreIdle ==
  ASSUME SessionInv, OneAtATime, ~Overlap', NEW c \in Calls, Begin(c) \/ Continue(c)
  PROVE  OthersIdle(c) /\ OthersIdle(c)'
<1>1. \A d \in Calls \ {c} : call'[d] = call[d]
  BY OwnState
<1>2. CASE ~At(c, "idle")
  BY <1>1, <1>2 DEF OneAtATime, OthersIdle, At
<1>3. CASE ~At(c, "idle")'
  BY <1>1, <1>3 DEF Overlap, OthersIdle, At
<1> QED BY <1>2, <1>3, OwnState

LEMMA InitAlone == MCInit => AloneInv
<1> SUFFICES ASSUME MCInit PROVE AloneInv
  OBVIOUS
<1>1. whitelist = {} /\ \A c \in Calls : call[c] = Idle
  BY DEF MCInit, Init
<1>2. Cardinality(whitelist) = 0 /\ IsFiniteSet(whitelist)
  BY <1>1, FS_EmptySet
<1>3. Cardinality(whitelist) <= MaxSessions
  BY <1>2, MaxSessionsAssumption
<1> QED BY <1>1, <1>2, <1>3 DEF AloneInv, OneAtATime, Followed, RoomMade, PasswordKept, Storing,
                               Idle, At

LEMMA NextAlone == SessionInv /\ AloneInv /\ [MCNext]_<<vars, overlapped>> => AloneInv'
<1> SUFFICES ASSUME SessionInv, AloneInv, [MCNext]_<<vars, overlapped>> PROVE AloneInv'
  OBVIOUS
<1>1. IsFiniteSet(whitelist) /\ IsFiniteSet(whitelist')
  <2>1. [Next]_vars
    BY DEF MCNext, Next
  <2> QED BY <2>1, KeysFinite DEF AloneInv
<1>2. CASE UNCHANGED <<vars, overlapped>>
  BY <1>2 DEF AloneInv, OneAtATime, Followed, vars, At
<1>3. CASE overlapped'
  BY <1>1, <1>3 DEF AloneInv
<1>4. CASE MCNext /\ ~overlapped'
  <2>1. Reliable /\ ~overlapped /\ ~Overlap'
    BY <1>4 DEF MCNext
  <2>2. /\ OneAtATime /\ Cardinality(whitelist) <= MaxSessions
        /\ (\A c \in Calls : call[c].pc \notin Ending) => Followed
        /\ \A c \in Calls : RoomMade(call[c], whitelist)
                            /\ PasswordKept(call[c], whitelist, root, password)
    BY <2>1 DEF AloneInv
  <2>3. ASSUME NEW c \in Calls, Begin(c) \/ Continue(c) PROVE AloneInv'
    <3>1. OthersIdle(c) /\ OthersIdle(c)'
      BY <2>1, <2>2, <2>3, OthersAreIdle
    <3>2. call[c].pc \notin Ending => Followed
      BY <2>2, <3>1 DEF OthersIdle, At, Ending
    <3>3. AloneAt(call[c], whitelist, root, password)
      BY <2>2, <3>2 DEF AloneAt, Followed
    <3>4. AloneAfter(c)
      BY <1>1, <2>3, <3>3, BeginAlone, ContinueAlone DEF AloneBefore
    <3>5. ASSUME NEW d \in Calls, d # c
          PROVE  RoomMade(call[d], whitelist)' /\ PasswordKept(call[d], whitelist, root, password)'
      <4>1. PICK k : k = call[d] /\ k = call'[d]
        BY <2>3, <3>5, OwnState
      <4>2. k.pc = "idle"
        BY <3>1, <3>5, <4>1 DEF OthersIdle, At
      <4>3. RoomMade(k, whitelist)
        BY <2>2, <4>1
      <4>4. RoomMade(k, whitelist') /\ PasswordKept(k, whitelist', root', password')
        BY <4>2, <4>3 DEF RoomMade, PasswordKept, Storing
      <4> QED BY <4>1, <4>4
    <3>6. OneAtATime'
      BY <3>1 DEF OneAtATime, OthersIdle
    <3>7. ((\A d \in Calls : call[d].pc \notin Ending) => Followed)'
      BY <3>4 DEF AloneAfter, AloneAt, Followed
    <3>8. \A d \in Calls : RoomMade(call[d], whitelist)'
                           /\ PasswordKept(call[d], whitelist, root, password)'
      BY <3>4, <3>5 DEF AloneAfter, AloneAt
    <3>9. (Cardinality(whitelist) <= MaxSessions)'
      BY <3>4 DEF AloneAfter, AloneAt
    <3> QED BY <1>1, <3>6, <3>7, <3>8, <3>9 DEF AloneInv
  <2>4. ASSUME NEW f \in Families, TokenExpires(f) PROVE AloneInv'
    BY <2>1, <2>4 DEF TokenExpires, AloneInv, OneAtATime, Followed, At
  <2>5. ASSUME NEW f \in Families, KeyExpires(f) PROVE AloneInv'
    <3>1. /\ whitelist' \subseteq whitelist
          /\ call' = call /\ root' = root /\ password' = password
      BY <2>5 DEF KeyExpires
    <3>2. Cardinality(whitelist') <= MaxSessions
      BY <1>1, <2>2, <3>1, SmallerSet, MaxSessionsAssumption
    <3>3. ASSUME NEW c \in Calls
          PROVE  RoomMade(call[c], whitelist') /\ PasswordKept(call[c], whitelist', root, password)
      <4>1. PICK k : k = call[c]
        OBVIOUS
      <4>2. RoomMade(k, whitelist) /\ PasswordKept(k, whitelist, root, password)
        BY <2>2, <4>1
      <4>3. RoomMade(k, whitelist')
        BY <1>1, <3>1, <4>2, FewerRoom
      <4>4. PasswordKept(k, whitelist', root, password)
        BY <3>1, <4>2 DEF PasswordKept
      <4> QED BY <4>1, <4>3, <4>4
    <3> QED BY <1>1, <2>2, <3>1, <3>2, <3>3 DEF AloneInv, OneAtATime, Followed, At
  <2> QED BY <2>1, <2>3, <2>4, <2>5 DEF Reliable
<1> QED BY <1>2, <1>3, <1>4

\* What a run without overlap and loss does, it does by steps of the sessions.
LEMMA MCSound == MCSpec => [](SessionInv /\ AloneInv)
<1>1. MCInit => SessionInv
  BY InitSound DEF MCInit
<1>2. SessionInv /\ [MCNext]_<<vars, overlapped>> => SessionInv'
  <2>1. [MCNext]_<<vars, overlapped>> => [Next]_vars
    BY DEF MCNext, Next
  <2> QED BY <2>1, NextSound
<1> QED BY <1>1, <1>2, InitAlone, NextAlone, PTL DEF MCSpec

\* As long as calls have come one after the other and none was lost, an
\* employee never has more than MaxSessions sessions (the comment `Enforce max
\* sessions' in storeRefreshToken).
THEOREM CapKeptAlone == MCSpec => []SessionsCappedAlone
<1>1. AloneInv => SessionsCappedAlone
  BY DEF AloneInv, SessionsCappedAlone, SessionsCapped
<1> QED BY <1>1, MCSound, PTL

\* And then the sessions that remain after a password change stem from logins
\* with the new password (changePassword).
THEOREM PasswordFollowedAlone == MCSpec => []SessionsFollowPasswordAlone
<1>1. AloneInv => SessionsFollowPasswordAlone
  BY DEF AloneInv, SessionsFollowPasswordAlone, SessionsFollowPassword, Quiet, At, Followed, Ending
<1> QED BY <1>1, MCSound, PTL

\* And then a rotation costs no other session its key (refresh deletes the used
\* token before storeRefreshToken counts).
THEOREM OthersKeptAlone == MCSpec => []RefreshKeepsOthersAlone
<1>1. AloneInv => RefreshKeepsOthersAlone
  BY DEF AloneInv, RefreshKeepsOthersAlone, RefreshKeepsOthers, RoomMade
<1> QED BY <1>1, MCSound, PTL
=============================================================================
