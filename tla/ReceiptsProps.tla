--------------------------- MODULE ReceiptsProps ----------------------------
(***************************************************************************)
(* What the receipt flows guarantee, whatever overlaps or dies.             *)
(***************************************************************************)
EXTENDS Receipts

\* In the scan flow a confirmation is final (confirm, `final submission',
\* receipts.controller.ts:148): recognition never writes over what a user has
\* confirmed, nor does a confirmation erase the evidence that recognition left.
ScanConfirmKept ==
  \A r \in Receipts : job[r].flow = "scan" /\ r \in confirmed =>
    row[r].status = "completed" /\ row[r].core \in Texts /\ row[r].raw = Read

\* Nor do confirmations that leave fields out, alone or overlapping with others
\* that edit them, lose those fields (the `||' and `??' of confirmReceipt).
OptionalFieldsKept ==
  \A r \in Receipts : job[r].flow = "scan" /\ r \in confirmed =>
    row[r].extra \in Texts \cup {Read}

\* A receipt whose job ran to its end is not left as uploaded or processing,
\* even if a confirmation slipped between the job's saves.  (One whose job died
\* or could not save its end, an invalid date in it, may stay so for ever.)
Settled ==
  \A r \in Receipts : job[r].pc = "over" /\ r \notin lost =>
    row[r].status \in {"completed", "failed"}

\* Each job goes on when the query or the request it awaits is answered; the
\* OCR request has a timeout of 30 s (ocr.service.ts:57), and the fairness
\* assumes that the language model, which has none, answers or fails.
FairSpec == Spec /\ \A r \in Receipts : WF_vars(JobStep(r))

\* Every job ends: the retry of a refused save does not go round in circles.
JobsEnd == \A r \in Receipts : Running(r) ~> job[r].pc = "over"
=============================================================================
