------------------------------ MODULE Receipts ------------------------------
(***************************************************************************)
(* Receipts (modules/receipts): the rows of the table, the recognition job  *)
(* (OCR, then correction by a language model) of each uploaded image, and   *)
(* the calls in which a user confirms or edits what was read.               *)
(*                                                                          *)
(* There are two flows.  POST /receipts/upload answers with the receipt's   *)
(* id at once and leaves processOcr running; POST /receipts/scan answers    *)
(* with the id and the data once scanReceipt is done.  Both work on a copy  *)
(* of the row loaded before recognition, and save it as TypeORM does: a     *)
(* SELECT that finds the columns in which the copy differs from the row,    *)
(* and an UPDATE of those.                                                  *)
(*                                                                          *)
(* The columns are grouped by who writes them: `core' (merchantName, amount *)
(* and category, which every confirmation sets), `extra' (businessNumber,   *)
(* address, vat, transactionDate and items, which a confirmation may leave  *)
(* out), `raw' (ocrRawResult and ocrConfidence).  A group holds nothing,    *)
(* what recognition read, or what a user typed.                             *)
(***************************************************************************)
EXTENDS Naturals, FiniteSets

CONSTANTS
  Receipts,   \* ids of receipts
  Calls,      \* the confirm calls the server can have in progress at once
  Texts       \* what users type

VARIABLES
  row,         \* table receipts
  job,         \* the recognition job of each receipt
  call,        \* the confirm calls in progress
  known,       \* the receipts whose id a client has been told
  confirmed,   \* history: the receipts of which a confirmation was answered
  lost         \* history: the receipts whose job died or could not save its end

vars == <<row, job, call, known, confirmed, lost>>

None == "none"
Read == "read"
BadDate == "badDate"   \* as Read, transactionDate being an Invalid Date
NoRow == [status |-> None, core |-> None, extra |-> None, raw |-> None]
Columns == DOMAIN NoRow

NoJob == [pc |-> "none", flow |-> None, copy |-> NoRow, dirty |-> {}]
NoCall == [pc |-> "idle", req |-> None, copy |-> NoRow, dirty |-> {}]

\* The job of receipt r is over, and its copy gone.
End(r) == job' = [job EXCEPT ![r] = [NoJob EXCEPT !.pc = "over", !.flow = job[r].flow]]

Init ==
  /\ row = [r \in Receipts |-> NoRow]
  /\ job = [r \in Receipts |-> NoJob]
  /\ call = [c \in Calls |-> NoCall]
  /\ known = {}
  /\ confirmed = {}
  /\ lost = {}

(***************************************************************************)
(* repository.save(copy).  PostgreSQL refuses an Invalid Date, and the save *)
(* is rolled back.                                                          *)
(***************************************************************************)
Differing(r, copy) == {f \in Columns : copy[f] # row[r][f]}
Written(r, copy, dirty) == [f \in Columns |-> IF f \in dirty THEN copy[f] ELSE row[r][f]]

Refused(copy) == copy.extra = BadDate

-----------------------------------------------------------------------------
(***************************************************************************)
(* create, then processOcr (not awaited) or scanReceipt (awaited).          *)
(***************************************************************************)
Submit(r, flow) ==
  /\ row[r] = NoRow
  /\ row' = [row EXCEPT ![r].status = "uploaded"]
  /\ job' = [job EXCEPT ![r].pc = "load", ![r].flow = flow]
  /\ known' = known \cup IF flow = "upload" THEN {r} ELSE {}
  /\ UNCHANGED <<call, confirmed, lost>>

Load(r) ==
  /\ job[r].pc = "load"
  /\ job' = [job EXCEPT ![r].copy = [row[r] EXCEPT !.status = "processing"],
                        ![r].pc = "compare"]
  /\ UNCHANGED <<row, call, known, confirmed, lost>>

\* Both saves of the job, the one of `processing' and the final one, start here.
Compare(r) ==
  /\ job[r].pc = "compare"
  /\ job' = [job EXCEPT ![r].dirty = Differing(r, job[r].copy), ![r].pc = "update"]
  /\ UNCHANGED <<row, call, known, confirmed, lost>>

MarkProcessing(r) ==
  /\ job[r].pc = "update"
  /\ job[r].copy.status = "processing"
  /\ row' = [row EXCEPT ![r] = Written(r, job[r].copy, job[r].dirty)]
  /\ job' = [job EXCEPT ![r].dirty = {}, ![r].pc = "recognize"]
  /\ UNCHANGED <<call, known, confirmed, lost>>

\* The image is read: with a date JavaScript can parse (or none), or one it
\* cannot.  A failing language model leaves the data as they were read.
Recognize(r, extra) ==
  /\ job[r].pc = "recognize"
  /\ job' = [job EXCEPT ![r].copy = [status |-> "completed", core |-> Read,
                                     extra |-> extra, raw |-> Read],
                        ![r].pc = "compare"]
  /\ UNCHANGED <<row, call, known, confirmed, lost>>

\* Mutant of NotRecognized: the error is logged and not saved.
NotRecognizedUnsaved(r) ==
  /\ job[r].pc = "recognize"
  /\ End(r)
  /\ UNCHANGED <<row, call, known, confirmed, lost>>

NotRecognized(r) ==
  /\ job[r].pc = "recognize"
  /\ job' = [job EXCEPT ![r].copy.status = "failed", ![r].pc = "compare"]
  /\ UNCHANGED <<row, call, known, confirmed, lost>>

Finishing(r) == job[r].pc = "update" /\ job[r].copy.status # "processing"

\* Mutant of Finish: the scan answers before its last save is done.
FinishAfterAnswer(r) ==
  LET early == job[r].pc = "compare" /\ job[r].copy.status = "completed" IN
  /\ early \/ (Finishing(r) /\ ~Refused(job[r].copy))
  /\ known' = known \cup {r}
  /\ IF early
       THEN job' = [job EXCEPT ![r].dirty = Differing(r, job[r].copy), ![r].pc = "update"]
            /\ UNCHANGED row
       ELSE row' = [row EXCEPT ![r] = Written(r, job[r].copy, job[r].dirty)] /\ End(r)
  /\ UNCHANGED <<call, confirmed, lost>>

Finish(r) ==
  /\ Finishing(r)
  /\ ~Refused(job[r].copy)
  /\ row' = [row EXCEPT ![r] = Written(r, job[r].copy, job[r].dirty)]
  /\ End(r)
  /\ known' = known \cup
       IF job[r].flow = "scan" /\ job[r].copy.status = "completed" THEN {r} ELSE {}
  /\ UNCHANGED <<call, confirmed, lost>>

\* Mutant of Retries: the catch block tries until it can save.
RetriesAlways(r) == job[r].flow = "scan"

Retries(r) == job[r].flow = "scan" /\ job[r].copy.status = "completed"

\* The final save fails, for its date or for the database.  That of processOcr
\* is returned, not awaited: its catch block never sees the error.  The catch
\* block of scanReceipt saves the copy, the same date in it, once more.
FinishRefused(r) ==
  /\ Finishing(r)
  /\ IF Retries(r)
       THEN job' = [job EXCEPT ![r].copy.status = "failed", ![r].pc = "compare"]
            /\ UNCHANGED lost
       ELSE End(r) /\ lost' = lost \cup {r}
  /\ UNCHANGED <<row, call, known, confirmed>>

-----------------------------------------------------------------------------
(***************************************************************************)
(* POST /receipts/confirm: whatever the receipt's status.                   *)
(***************************************************************************)
Confirm(c, r, text, extra) ==
  /\ call[c].pc = "idle"
  /\ r \in known
  /\ call' = [call EXCEPT ![c] =
       [pc |-> "compare", req |-> r, dirty |-> {},
        copy |-> [row[r] EXCEPT !.status = "completed", !.core = text, !.extra = extra]]]
  /\ UNCHANGED <<row, job, known, confirmed, lost>>

\* Mutant of ConfirmAsRead: a field left out is cleared.
ConfirmCleared(c, r, text) == Confirm(c, r, text, None)

\* What the user leaves out stays as it was loaded, or is edited with the rest
\* (a date typed wrong has its save refused: FailCall).
ConfirmAsRead(c, r, text) == Confirm(c, r, text, row[r].extra)
ConfirmEdited(c, r, text) == Confirm(c, r, text, text)

ConfirmCompare(c) ==
  /\ call[c].pc = "compare"
  /\ call' = [call EXCEPT ![c].dirty = Differing(call[c].req, call[c].copy),
                          ![c].pc = "update"]
  /\ UNCHANGED <<row, job, known, confirmed, lost>>

ConfirmUpdate(c) ==
  LET r == call[c].req IN
  /\ call[c].pc = "update"
  /\ row' = [row EXCEPT ![r] = Written(r, call[c].copy, call[c].dirty)]
  /\ confirmed' = confirmed \cup {r}
  /\ call' = [call EXCEPT ![c] = NoCall]
  /\ UNCHANGED <<job, known, lost>>

(***************************************************************************)
(* A job or a call dies with its database connection or with the process, a *)
(* call also with a save that is refused.  Nothing picks up a job that died. *)
(***************************************************************************)
Running(r) == job[r].pc \notin {"none", "over"}

FailJob(r) ==
  /\ Running(r)
  /\ End(r)
  /\ lost' = lost \cup {r}
  /\ UNCHANGED <<row, call, known, confirmed>>

FailCall(c) ==
  /\ call[c].pc # "idle"
  /\ call' = [call EXCEPT ![c] = NoCall]
  /\ UNCHANGED <<row, job, known, confirmed, lost>>

-----------------------------------------------------------------------------
JobStep(r) ==
  \/ Load(r) \/ Compare(r) \/ MarkProcessing(r)
  \/ \E extra \in {Read, BadDate} : Recognize(r, extra)
  \/ NotRecognized(r) \/ Finish(r) \/ FinishRefused(r)

CallStep(c) == ConfirmCompare(c) \/ ConfirmUpdate(c)

Next ==
  \/ \E r \in Receipts, flow \in {"upload", "scan"} : Submit(r, flow)
  \/ \E r \in Receipts : JobStep(r) \/ FailJob(r)
  \/ \E c \in Calls, r \in Receipts, text \in Texts :
       ConfirmAsRead(c, r, text) \/ ConfirmEdited(c, r, text)
  \/ \E c \in Calls : CallStep(c) \/ FailCall(c)

Spec == Init /\ [][Next]_vars
=============================================================================
