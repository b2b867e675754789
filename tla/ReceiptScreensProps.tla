------------------------ MODULE ReceiptScreensProps -------------------------
(***************************************************************************)
(* What the receipt screens guarantee to their user.                        *)
(***************************************************************************)
EXTENDS ReceiptScreens

\* When React Native's form gives way to the processing screen, the receipt holds
\* what was sent, and keeps it, as long as no confirmation that the client had
\* given up is still on its way (handleConfirm awaits the answer, and confirm of
\* the service its save).  An address or date that was sent blank, or a VAT that is
\* no number, is what was read: the user cannot take it back
\* (receipts.service.ts:117-123).
FiledAsSent ==
  area = "native" /\ ui.screen = "processing" /\ ~late =>
    /\ row[ui.receipt].status = "completed"
    /\ row[ui.receipt].core = ui.sent
    /\ row[ui.receipt].extra = IF ui.blank THEN Read ELSE ui.sent

\* The timers of the clients and of the position run out; jobs as in FairSpec.
FairScreensSpec ==
  /\ ScreensSpec
  /\ \A r \in Receipts : WF_allVars(JobStep(r) /\ UNCHANGED screenVars)
  /\ WF_allVars(Located \/ GetLocation)
  /\ WF_allVars(
       Scanned \/ ScanFailed \/ Uploaded \/ UploadFailed \/ Confirmed \/ ConfirmFailed)

\* No screen stays busy: an upload or a submission ends, come what may, and the
\* screen can be used again or gives way to the next (the finally blocks of React
\* Native's handlers, the catch block of Flutter's _upload).
SpinnersEnd == ui.busy ~> (~ui.busy \/ ui.screen = "processing")
=============================================================================
