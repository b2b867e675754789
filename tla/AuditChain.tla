----------------------------- MODULE AuditChain -----------------------------
(***************************************************************************)
(* The audit log (modules/audit/audit-log.service.ts).  Each row carries a  *)
(* checksum that includes the checksum of the row before it, which the      *)
(* service keeps in memory.  The interceptor does not await the writing of  *)
(* a row, so that several may be in progress.                               *)
(*                                                                          *)
(* A checksum includes the time and what happened: no two are the same, and *)
(* each is here the number of the call of create that makes it.             *)
(***************************************************************************)
EXTENDS Naturals, FiniteSets

CONSTANTS
  Writers,     \* the calls of create that may be in progress at once
  MaxEntries   \* bound of the model: how often create is called

ASSUME MaxEntriesAssumption == MaxEntries \in Nat

VARIABLES
  log,       \* table audit_logs: [checksum, previous]
  last,      \* lastChecksum
  writer,    \* the calls of create in progress
  entered    \* how often create has been called

chainVars == <<log, last, writer, entered>>

None == 0
Resting == [pc |-> "idle", checksum |-> None, previous |-> None]

ChainInit ==
  /\ log = {}
  /\ last = None
  /\ writer = [w \in Writers |-> Resting]
  /\ entered = 0

Create(w) ==
  /\ writer[w].pc = "idle"
  /\ entered < MaxEntries
  /\ entered' = entered + 1
  /\ writer' = [writer EXCEPT ![w] =
       [pc |-> "save", checksum |-> entered', previous |-> last]]
  /\ UNCHANGED <<log, last>>

Save(w) ==
  /\ writer[w].pc = "save"
  /\ log' = log \cup {[checksum |-> writer[w].checksum, previous |-> writer[w].previous]}
  /\ writer' = [writer EXCEPT ![w].pc = "remember"]
  /\ UNCHANGED <<last, entered>>

\* Mutant of SaveFails: the checksum is kept although the row is not.
SaveFailsKept(w) ==
  /\ writer[w].pc = "save"
  /\ last' = writer[w].checksum
  /\ writer' = [writer EXCEPT ![w] = Resting]
  /\ UNCHANGED <<log, entered>>

\* The error is logged by the interceptor, and the entry lost.
SaveFails(w) ==
  /\ writer[w].pc = "save"
  /\ writer' = [writer EXCEPT ![w] = Resting]
  /\ UNCHANGED <<log, last, entered>>

\* Mutant of Remember: only the first checksum is kept.
RememberFirst(w) ==
  /\ writer[w].pc = "remember"
  /\ last' = IF last = None THEN writer[w].checksum ELSE last
  /\ writer' = [writer EXCEPT ![w] = Resting]
  /\ UNCHANGED <<log, entered>>

Remember(w) ==
  /\ writer[w].pc = "remember"
  /\ last' = writer[w].checksum
  /\ writer' = [writer EXCEPT ![w] = Resting]
  /\ UNCHANGED <<log, entered>>

\* The server stops and starts again.
Restart ==
  /\ last' = None
  /\ writer' = [w \in Writers |-> Resting]
  /\ UNCHANGED <<log, entered>>

Write(w) == Save(w) \/ SaveFails(w) \/ Remember(w)
=============================================================================
