------------------------------- MODULE MCAuth -------------------------------
(***************************************************************************)
(* Instances of AuthSessions for TLC.                                       *)
(*                                                                          *)
(* One run asks both what holds always and what holds only of calls that    *)
(* come one after the other: it remembers whether two calls have overlapped *)
(* or one has been lost.                                                    *)
(* From then on nothing it asks depends on passwords: states that differ in *)
(* nothing else are taken as one (SessionsView).                            *)
(***************************************************************************)
EXTENDS AuthProps, TLC

VARIABLE overlapped   \* history: calls have overlapped, or one was lost

Overlap == \E c, d \in Calls : c # d /\ ~At(c, "idle") /\ ~At(d, "idle")

MCInit == Init /\ overlapped = FALSE

MCNext ==
  \/ Reliable /\ overlapped' = (overlapped \/ Overlap')
  \/ (\E c \in Calls : Fail(c)) /\ overlapped' = TRUE

MCSpec == MCInit /\ [][MCNext]_<<vars, overlapped>>

\* See SessionsCapped, SessionsFollowPassword and RefreshKeepsOthers of AuthProps.
SessionsCappedAlone == ~overlapped => SessionsCapped
SessionsFollowPasswordAlone == ~overlapped => SessionsFollowPassword
RefreshKeepsOthersAlone == ~overlapped => RefreshKeepsOthers

SessionsView ==
  << whitelist, generated, held, expired, blacklist, spent, call, overlapped,
     IF overlapped THEN <<>> ELSE <<password, root>> >>

SessionsSymmetry == Permutations(Calls) \cup Permutations(Families) \cup Permutations(Passwords)
=============================================================================
