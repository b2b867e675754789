--------------------------- MODULE ReceiptScreens ---------------------------
(***************************************************************************)
(* The screens in which an app's user photographs a receipt, has it read    *)
(* and (React Native, the area "native") confirms it, over the server's     *)
(* receipts.  In the area "api" requests come from anywhere, as Receipts    *)
(* has them.                                                                *)
(*                                                                          *)
(* A client gives up a request after its timeout: 60 s for a scan, 30 s for *)
(* the others.  The server does not know, and goes on.                      *)
(*                                                                          *)
(* The processing screens wait for `transaction:status', which no code of   *)
(* the server emits; so the result screens are not reached.                 *)
(***************************************************************************)
EXTENDS ReceiptsProps

ASSUME NoneAssumption == None \notin Calls \cup Receipts

VARIABLES
  area,   \* who uses the server: "api", "native" or "flutter"
  ui,     \* the screen's state, see Opened
  late    \* history: the user gave up a confirmation the server may still do

screenVars == <<area, ui, late>>
allVars == <<vars, screenVars>>

\* The upload screen as it opens.  `place' is whether it has a position,
\* `receipt' and `by' what the request in progress is about and which call of
\* the server it is, `form' what the confirmation form shows, `sent' what was sent
\* of it, and `blank' whether the address, date or VAT, whichever of them one looks
\* at, was sent blank.  React Native's screen asks for the position when it opens.
Opened ==
  [screen |-> "upload", image |-> FALSE, place |-> FALSE, locating |-> area = "native",
   busy |-> FALSE, receipt |-> None, by |-> None, form |-> None,
   sent |-> None, blank |-> FALSE, timedOut |-> FALSE]

On(app, screen) == area = app /\ ui.screen = screen
OnlyUi == UNCHANGED <<vars, area, late>>

-----------------------------------------------------------------------------
(***************************************************************************)
(* Taking the picture, and the position.                                    *)
(***************************************************************************)
\* What Flutter's upload screen offers: all its buttons are off during an upload.
\* React Native's go on taking pictures.
FlutterOffers == [pictures |-> ~ui.busy, upload |-> ui.image /\ ui.place /\ ~ui.busy]

\* takePhoto and pickFromGallery; a picture that is too big, or none, changes nothing.
TakePicture ==
  /\ On("native", "upload")
  /\ ui' = [ui EXCEPT !.image = TRUE]
  /\ OnlyUi

\* Flutter's ask for the position after each picture.
TakePictureThenPlace ==
  /\ On("flutter", "upload")
  /\ FlutterOffers.pictures
  /\ ui' = [ui EXCEPT !.image = TRUE, !.locating = TRUE]
  /\ OnlyUi

ClearImage ==
  /\ On("native", "upload")
  /\ ui.image
  /\ ui' = [ui EXCEPT !.image = FALSE]
  /\ OnlyUi

\* The button `try again' is shown where there is no position.
Locate ==
  /\ On("native", "upload")
  /\ ~ui.locating /\ ~ui.place
  /\ ui' = [ui EXCEPT !.locating = TRUE]
  /\ OnlyUi

\* Found, refused or timed out after 15 s: an earlier position stays.
Placed ==
  /\ ui.locating
  /\ \E found \in BOOLEAN : ui' = [ui EXCEPT !.locating = FALSE, !.place = @ \/ found]
  /\ OnlyUi

Located == On("native", "upload") /\ Placed
GetLocation == On("flutter", "upload") /\ Placed

-----------------------------------------------------------------------------
(***************************************************************************)
(* Uploading: a scan, answered when the job is done, or an upload, answered *)
(* at once.                                                                 *)
(***************************************************************************)
CanUpload == ui.image /\ ui.place /\ ~ui.busy

Unused == {r \in Receipts : row[r] = NoRow}

\* The request reaches the server, or is lost before.
Sent(flow) ==
  /\ \/ /\ Unused # {}
        /\ LET r == CHOOSE r \in Receipts : r \in Unused IN
             /\ Submit(r, flow)
             /\ ui' = [ui EXCEPT !.busy = TRUE, !.receipt = r]
     \/ ui' = [ui EXCEPT !.busy = TRUE, !.receipt = None] /\ UNCHANGED vars
  /\ UNCHANGED <<area, late>>

Scan == On("native", "upload") /\ CanUpload /\ Sent("scan")
UploadReceipt == On("flutter", "upload") /\ FlutterOffers.upload /\ Sent("upload")

Arrived == ui.busy /\ ui.receipt \in known

\* The form shows what was read (one of Texts, as far as its owner agrees).
Scanned ==
  /\ On("native", "upload")
  /\ Arrived
  /\ \E text \in Texts :
       ui' = [ui EXCEPT !.screen = "confirm", !.busy = FALSE, !.form = text]
  /\ OnlyUi

Uploaded ==
  /\ On("flutter", "upload")
  /\ Arrived
  /\ ui' = [ui EXCEPT !.screen = "processing"]
  /\ OnlyUi

\* Mutant of UploadFailed: the catch block shows the error and leaves it there.
UploadFailedBusy ==
  /\ On("flutter", "upload")
  /\ ui.busy
  /\ ui' = [ui EXCEPT !.receipt = None]
  /\ OnlyUi

\* An error, or no answer in time.
UploadFailed ==
  /\ On("flutter", "upload")
  /\ ui.busy
  /\ ui' = [ui EXCEPT !.busy = FALSE, !.receipt = None]
  /\ OnlyUi

ScanFailed ==
  /\ On("native", "upload")
  /\ ui.busy
  /\ ui' = [ui EXCEPT !.busy = FALSE, !.receipt = None]
  /\ OnlyUi

-----------------------------------------------------------------------------
(***************************************************************************)
(* The confirmation form.  Its fields can be edited while it is submitted.  *)
(***************************************************************************)
\* A name or amount left blank is refused at once.
Edit ==
  /\ On("native", "confirm")
  /\ \E text \in Texts \cup {None} : ui' = [ui EXCEPT !.form = text]
  /\ OnlyUi

CanConfirm == ~ui.busy /\ ui.form # None

\* A field may be blank when the form is sent: as an empty string (as null, when it
\* is a VAT that is no number), which confirmReceipt takes for a field left out.
ConfirmForm(c, blank) ==
  IF blank THEN ConfirmAsRead(c, ui.receipt, ui.form)
           ELSE ConfirmEdited(c, ui.receipt, ui.form)

FormSent(by, blank) ==
  ui' = [ui EXCEPT !.busy = TRUE, !.sent = ui.form, !.blank = blank, !.by = by]

\* A bound: no confirmation of this user overlaps with one he has given up (those
\* of Anyone do); and which call takes it makes no difference.
Taken(c) == c = (CHOOSE d \in Calls : TRUE) /\ \A d \in Calls : call[d].pc = "idle"

\* The fields of the form are sent, changed or not.
HandleConfirm ==
  /\ On("native", "confirm")
  /\ CanConfirm
  /\ \/ \E c \in Calls, blank \in BOOLEAN :
          Taken(c) /\ ConfirmForm(c, blank) /\ FormSent(c, blank)
     \/ FormSent(None, FALSE) /\ UNCHANGED vars
  /\ UNCHANGED <<area, late>>

\* Mutant of Confirmed: the screen does not wait for the answer.
ConfirmedEarly ==
  /\ On("native", "confirm")
  /\ ui.busy
  /\ ui' = [ui EXCEPT !.screen = "processing", !.busy = FALSE, !.by = None]
  /\ OnlyUi

Confirmed ==
  /\ On("native", "confirm")
  /\ ui.busy /\ ui.by # None
  /\ ConfirmUpdate(ui.by)
  /\ ui' = [ui EXCEPT !.screen = "processing", !.busy = FALSE, !.by = None]
  /\ UNCHANGED <<area, late>>

\* The save has failed, or the user's client has given up.
ConfirmFailed ==
  /\ On("native", "confirm")
  /\ ui.busy
  /\ ui' = [ui EXCEPT !.busy = FALSE, !.sent = None, !.blank = FALSE, !.by = None]
  /\ UNCHANGED area
  /\ \/ ui.by # None /\ FailCall(ui.by) /\ UNCHANGED late
     \/ ui.by # None /\ UNCHANGED vars /\ late' = TRUE
     \/ ui.by = None /\ UNCHANGED vars /\ UNCHANGED late

-----------------------------------------------------------------------------
(***************************************************************************)
(* The processing screen.  After 30 s it offers the way back: in Flutter to *)
(* the main screen.  React Native's popToTop finds nothing below a screen   *)
(* that has replaced the others, and the screen stays until the app is      *)
(* started again.                                                           *)
(***************************************************************************)
RunOut ==
  /\ ~ui.timedOut
  /\ ui' = [ui EXCEPT !.timedOut = TRUE]
  /\ OnlyUi

NativeTimeOut == On("native", "processing") /\ RunOut
FlutterTimeOut == On("flutter", "processing") /\ RunOut

GoBack ==
  /\ On("flutter", "processing")
  /\ ui.timedOut
  /\ ui' = [Opened EXCEPT !.screen = "main"]
  /\ OnlyUi

\* Flutter's upload screen is pushed on the main screen, and can be left at any
\* time; the answer of an upload in progress then finds it unmounted.
OpenUpload ==
  /\ On("flutter", "main")
  /\ ui' = Opened
  /\ OnlyUi

Leave ==
  /\ On("flutter", "upload")
  /\ ui' = [Opened EXCEPT !.screen = "main"]
  /\ OnlyUi

\* The app is started again.
Reopen ==
  /\ area # "api"
  /\ ui' = [Opened EXCEPT !.screen = IF area = "flutter" THEN "main" ELSE "upload"]
  /\ late' = (late \/ ui.by # None)
  /\ UNCHANGED vars /\ UNCHANGED area

-----------------------------------------------------------------------------
\* The bound of Anyone on what is typed.
Typed == CHOOSE typed \in [Calls -> Texts] : \A c, d \in Calls : typed[c] = typed[d] => c = d

ScreensInit ==
  /\ Init
  /\ area \in {"api", "native", "flutter"}
  /\ ui = [Opened EXCEPT !.screen = IF area = "flutter" THEN "main" ELSE "upload"]
  /\ late = FALSE

\* Bounds where requests come from anywhere: they are about one receipt, and
\* each caller types one text of his own.
Anyone ==
  /\ area = "api"
  /\ Next
  /\ \A r \in Receipts : row'[r] # NoRow => r = CHOOSE other \in Receipts : TRUE
  /\ \A c \in Calls : call'[c].pc # "idle" => call'[c].copy.core = Typed[c]
  /\ UNCHANGED screenVars

\* What the server does by itself, for this user.
Server ==
  /\ area # "api"
  /\ \/ \E r \in Receipts : JobStep(r) \/ FailJob(r)
     \/ \E c \in Calls : ConfirmCompare(c) \/ (c # ui.by /\ (ConfirmUpdate(c) \/ FailCall(c)))
  /\ UNCHANGED screenVars

\* The client's timers, and the answers that come before.
Answers ==
  \/ Located \/ GetLocation \/ Scanned \/ ScanFailed \/ Uploaded \/ UploadFailed
  \/ Confirmed \/ ConfirmFailed

TimeOut == NativeTimeOut \/ FlutterTimeOut

User ==
  \/ TakePicture \/ TakePictureThenPlace \/ ClearImage \/ Locate \/ Scan \/ UploadReceipt
  \/ Edit \/ HandleConfirm
  \/ GoBack \/ OpenUpload \/ Leave \/ Reopen

ScreensNext == Anyone \/ Server \/ Answers \/ TimeOut \/ User

ScreensSpec == ScreensInit /\ [][ScreensNext]_allVars
=============================================================================
