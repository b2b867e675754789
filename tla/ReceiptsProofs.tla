---------------------------- MODULE ReceiptsProofs ----------------------------
(***************************************************************************)
(* What a user confirmed in the scan flow is kept, and jobs that end leave  *)
(* a final status, for any number of receipts, of confirmations and of      *)
(* texts, and with any failures.                                            *)
(*                                                                          *)
(* A receipt of the scan flow is known to nobody before its job has saved   *)
(* the end of it, so that the job's copies and those of confirmations never *)
(* exist at the same time; what confirmations write over one another is     *)
(* then typed by users or read.                                             *)
(*                                                                          *)
(* The screens of the apps (ReceiptScreens) are users of these receipts.    *)
(***************************************************************************)
EXTENDS ReceiptScreensProps, TLAPS

Final == {"completed", "failed"}
Content == Texts \cup {None, Read, BadDate}
Rows == [status : {None, "uploaded", "processing"} \cup Final,
         core : Content, extra : Content, raw : Content]
Dirt == SUBSET {"status", "core", "extra", "raw"}
Jobs == [pc : {"none", "load", "compare", "update", "recognize", "over"},
         flow : {None, "upload", "scan"}, copy : Rows, dirty : Dirt]
Confirmations ==
  [pc : {"idle", "compare", "update"}, req : Receipts \cup {None}, copy : Rows, dirty : Dirt]

ReceiptsTyped ==
  /\ row \in [Receipts -> Rows]
  /\ job \in [Receipts -> Jobs]
  /\ call \in [Calls -> Confirmations]
  /\ known \subseteq Receipts /\ confirmed \subseteq known
  /\ \A c \in Calls : call[c].pc # "idle" => call[c].req \in known

\* A job saves a status, and one that ends leaves a final one.
StatusSound(r) ==
  /\ r \in known => row[r].status # None
  /\ job[r].pc \in {"compare", "update"} => job[r].copy.status \in {"processing"} \cup Final
  /\ job[r].pc = "update" /\ job[r].copy.status # "processing"
       /\ "status" \notin job[r].dirty => row[r].status \in Final
  /\ job[r].pc = "over" /\ r \notin lost => row[r].status \in Final

\* In the scan flow: nobody knows the receipt while its job works on it, and nobody
\* else changes the row; what is known is complete, and as it was read until it is
\* confirmed.
ScanSound(r) ==
  job[r].flow = "scan" =>
    /\ job[r].pc # "over" => r \notin known
    /\ job[r].pc \in {"compare", "update"} /\ job[r].copy.status = "completed" =>
         job[r].copy.core = Read /\ job[r].copy.raw = Read
         /\ job[r].copy.extra \in {Read, BadDate}
    /\ job[r].pc = "update" =>
         \A f \in {"status", "core", "extra", "raw"} \ job[r].dirty :
           job[r].copy[f] = row[r][f]
    /\ r \in known =>
         /\ row[r].status = "completed" /\ row[r].raw = Read
         /\ row[r].core \in Texts \cup {Read} /\ row[r].extra \in Texts \cup {Read}
    /\ r \in known \ confirmed => row[r].extra = Read
    /\ r \in confirmed => row[r].core \in Texts

CallSound(c) ==
  call[c].pc # "idle" =>
    /\ call[c].copy.status = "completed"
    /\ job[call[c].req].flow = "scan" =>
         /\ call[c].copy.core \in Texts /\ call[c].copy.extra \in Texts \cup {Read}
         /\ call[c].copy.raw = Read
         /\ call[c].pc = "update" /\ "core" \notin call[c].dirty =>
              row[call[c].req].core \in Texts

ReceiptsInv ==
  /\ ReceiptsTyped
  /\ \A r \in Receipts : StatusSound(r) /\ ScanSound(r)
  /\ \A c \in Calls : CallSound(c)

USE DEF None, Read, BadDate

-----------------------------------------------------------------------------
LEMMA Blanks ==
  /\ NoRow \in Rows /\ NoJob \in Jobs /\ NoCall \in Confirmations
  /\ NoRow.status = None /\ NoCall.pc = "idle"
  /\ NoJob.pc = "none" /\ NoJob.flow = None
  /\ Columns = {"status", "core", "extra", "raw"}
  BY DEF NoRow, NoJob, NoCall, Rows, Jobs, Confirmations, Content, Dirt, Columns

\* A save writes the columns found to differ, and those only.
LEMMA WrittenColumns ==
  ASSUME ReceiptsTyped, NEW r \in Receipts, NEW copy \in Rows, NEW dirty \in Dirt
  PROVE  /\ Written(r, copy, dirty) \in Rows
         /\ \A f \in {"status", "core", "extra", "raw"} :
              Written(r, copy, dirty)[f] = IF f \in dirty THEN copy[f] ELSE row[r][f]
<1>1. row[r] \in Rows
  BY DEF ReceiptsTyped
<1>2. Written(r, copy, dirty) = [f \in {"status", "core", "extra", "raw"} |->
                                   IF f \in dirty THEN copy[f] ELSE row[r][f]]
  BY Blanks DEF Written
<1> QED BY <1>1, <1>2 DEF Rows

LEMMA DifferingColumns ==
  ASSUME NEW r \in Receipts, NEW copy
  PROVE  /\ Differing(r, copy) \in Dirt
         /\ \A f \in {"status", "core", "extra", "raw"} \ Differing(r, copy) :
              copy[f] = row[r][f]
  BY Blanks DEF Differing, Dirt

LEMMA InitSound == Init => ReceiptsInv
  BY Blanks DEF Init, ReceiptsInv, ReceiptsTyped, StatusSound, ScanSound, CallSound

\* A step of the job of receipt r disturbs nothing but r, and no confirmation of it.
LEMMA JobMoves ==
  ASSUME ReceiptsInv, NEW r \in Receipts, NEW j \in Jobs, NEW new \in Rows,
         job' = [job EXCEPT ![r] = j], row' = [row EXCEPT ![r] = new],
         known \subseteq known', known' \subseteq known \cup {r},
         lost \subseteq lost', lost' \subseteq lost \cup {r},
         UNCHANGED <<call, confirmed>>,
         j.flow = "scan" => r \notin known,
         StatusSound(r)', ScanSound(r)'
  PROVE  ReceiptsInv'
<1>1. /\ job' \in [Receipts -> Jobs] /\ row' \in [Receipts -> Rows]
      /\ job'[r] = j
      /\ \A q \in Receipts \ {r} : job'[q] = job[q] /\ row'[q] = row[q]
  BY DEF ReceiptsInv, ReceiptsTyped
<1>2. ReceiptsTyped'
  BY <1>1 DEF ReceiptsInv, ReceiptsTyped
<1>3. ASSUME NEW q \in Receipts PROVE StatusSound(q)' /\ ScanSound(q)'
  <2>1. CASE q = r
    BY <2>1
  <2>2. CASE q # r
    BY <1>1, <2>2 DEF ReceiptsInv, ReceiptsTyped, StatusSound, ScanSound
  <2> QED BY <2>1, <2>2
<1>4. ASSUME NEW c \in Calls PROVE CallSound(c)'
  BY <1>1 DEF ReceiptsInv, ReceiptsTyped, CallSound
<1> QED BY <1>2, <1>3, <1>4 DEF ReceiptsInv

-----------------------------------------------------------------------------
(***************************************************************************)
(* The steps of a job.                                                      *)
(***************************************************************************)
LEMMA SubmitSound ==
  ASSUME ReceiptsInv, NEW r \in Receipts, NEW flow \in {"upload", "scan"}, Submit(r, flow)
  PROVE  ReceiptsInv'
<1> DEFINE j == [job[r] EXCEPT !.pc = "load", !.flow = flow]
           new == [row[r] EXCEPT !.status = "uploaded"]
<1>1. job[r] \in Jobs /\ row[r] \in Rows /\ r \notin known
  BY Blanks DEF Submit, ReceiptsInv, ReceiptsTyped, StatusSound
<1>2. /\ j \in Jobs /\ j.pc = "load" /\ j.flow = flow
      /\ new \in Rows /\ new.status = "uploaded"
  BY <1>1 DEF Jobs, Rows
<1>3. job' = [job EXCEPT ![r] = j] /\ row' = [row EXCEPT ![r] = new]
  BY <1>1 DEF Submit, ReceiptsInv, ReceiptsTyped, Jobs, Rows
<1> HIDE DEF j, new
<1>4. job'[r] = j /\ row'[r] = new
  BY <1>3 DEF ReceiptsInv, ReceiptsTyped
<1>5. /\ known' = known \cup (IF flow = "upload" THEN {r} ELSE {})
      /\ UNCHANGED <<call, confirmed, lost>>
  BY DEF Submit
<1>6. StatusSound(r)' /\ ScanSound(r)'
  BY <1>1, <1>2, <1>4, <1>5 DEF StatusSound, ScanSound, ReceiptsInv, ReceiptsTyped
<1> QED BY <1>1, <1>2, <1>3, <1>5, <1>6, JobMoves

\* What a job is while it runs.
LEMMA Working ==
  ASSUME ReceiptsInv, NEW r \in Receipts, job[r].pc # "over"
  PROVE  /\ job[r] \in Jobs /\ row[r] \in Rows /\ StatusSound(r) /\ ScanSound(r)
         /\ job[r].flow = "scan" => r \notin known /\ r \notin confirmed
         /\ row = [row EXCEPT ![r] = row[r]]
  BY DEF ReceiptsInv, ReceiptsTyped, ScanSound

LEMMA LoadSound ==
  ASSUME ReceiptsInv, NEW r \in Receipts, Load(r)
  PROVE  ReceiptsInv'
<1> DEFINE j == [job[r] EXCEPT !.copy = [row[r] EXCEPT !.status = "processing"],
                               !.pc = "compare"]
<1>1. job[r].pc = "load" /\ UNCHANGED <<row, call, known, confirmed, lost>>
  BY DEF Load
<1>2. /\ j \in Jobs /\ j.pc = "compare" /\ j.flow = job[r].flow
      /\ j.copy.status = "processing"
  BY <1>1, Working DEF Jobs, Rows
<1>3. job' = [job EXCEPT ![r] = j]
  BY <1>1, Working DEF Load, Jobs
<1> HIDE DEF j
<1>4. job'[r] = j
  BY <1>3 DEF ReceiptsInv, ReceiptsTyped
<1>5. StatusSound(r)' /\ ScanSound(r)'
  BY <1>1, <1>2, <1>4, Working DEF StatusSound, ScanSound
<1> QED BY <1>1, <1>2, <1>3, <1>5, Working, JobMoves

LEMMA CompareSound ==
  ASSUME ReceiptsInv, NEW r \in Receipts, Compare(r)
  PROVE  ReceiptsInv'
<1> DEFINE dirty == Differing(r, job[r].copy)
           j == [job[r] EXCEPT !.dirty = dirty, !.pc = "update"]
<1>1. job[r].pc = "compare" /\ UNCHANGED <<row, call, known, confirmed, lost>>
  BY DEF Compare
<1>2. dirty \in Dirt
      /\ \A f \in {"status", "core", "extra", "raw"} \ dirty : job[r].copy[f] = row[r][f]
  BY DifferingColumns
<1>3. job' = [job EXCEPT ![r] = j]
  BY <1>1, Working DEF Compare, Jobs
<1> HIDE DEF dirty
<1>4. /\ j \in Jobs /\ j.pc = "update" /\ j.flow = job[r].flow /\ j.copy = job[r].copy
      /\ j.dirty = dirty
  BY <1>1, <1>2, Working DEF Jobs
<1> HIDE DEF j
<1>5. job'[r] = j
  BY <1>3 DEF ReceiptsInv, ReceiptsTyped
<1>6. StatusSound(r)'
  BY <1>1, <1>2, <1>4, <1>5, Working DEF StatusSound
<1>7. ScanSound(r)'
  <2>1. job[r].flow = "scan" => r \notin known /\ r \notin confirmed
    BY <1>1, Working DEF ScanSound, ReceiptsInv, ReceiptsTyped
  <2>2. job[r].flow = "scan" /\ job[r].copy.status = "completed" =>
          /\ job[r].copy.core = Read /\ job[r].copy.raw = Read
          /\ job[r].copy.extra \in {Read, BadDate}
    BY <1>1, Working DEF ScanSound
  <2> QED BY <1>1, <1>2, <1>4, <1>5, <2>1, <2>2 DEF ScanSound
<1> QED BY <1>1, <1>3, <1>4, <1>6, <1>7, Working, JobMoves

LEMMA MarkProcessingSound ==
  ASSUME ReceiptsInv, NEW r \in Receipts, MarkProcessing(r)
  PROVE  ReceiptsInv'
<1> DEFINE new == Written(r, job[r].copy, job[r].dirty)
           j == [job[r] EXCEPT !.dirty = {}, !.pc = "recognize"]
<1>1. /\ job[r].pc = "update" /\ job[r].copy.status = "processing"
      /\ UNCHANGED <<call, known, confirmed, lost>>
  BY DEF MarkProcessing
<1>2. job[r].copy \in Rows /\ job[r].dirty \in Dirt
  BY <1>1, Working DEF Jobs
<1>3. new \in Rows /\ new.status \in {row[r].status, "processing"}
  BY <1>1, <1>2, WrittenColumns DEF ReceiptsInv
<1>4. /\ j \in Jobs /\ j.pc = "recognize" /\ j.flow = job[r].flow
  BY <1>1, Working DEF Jobs, Dirt
<1>5. job' = [job EXCEPT ![r] = j] /\ row' = [row EXCEPT ![r] = new]
  BY <1>1, Working DEF MarkProcessing, Jobs
<1> HIDE DEF j, new
<1>6. job'[r] = j /\ row'[r] = new
  BY <1>5 DEF ReceiptsInv, ReceiptsTyped
<1>7. StatusSound(r)' /\ ScanSound(r)'
  BY <1>1, <1>3, <1>4, <1>6, Working DEF StatusSound, ScanSound
<1> QED BY <1>1, <1>3, <1>4, <1>5, <1>7, Working, JobMoves

\* The job goes on with another copy: what was read, or the mark of a failure.
LEMMA CopyReplaced ==
  ASSUME ReceiptsInv, NEW r \in Receipts, NEW copy \in Rows,
         job[r].pc \in {"recognize", "update"},
         job' = [job EXCEPT ![r].copy = copy, ![r].pc = "compare"],
         UNCHANGED <<row, call, known, confirmed, lost>>,
         copy.status \in Final,
         copy.status = "completed" =>
           copy.core = Read /\ copy.raw = Read /\ copy.extra \in {Read, BadDate}
  PROVE  ReceiptsInv'
<1> DEFINE j == [job[r] EXCEPT !.copy = copy, !.pc = "compare"]
<1>1. j \in Jobs /\ j.pc = "compare" /\ j.flow = job[r].flow /\ j.copy = copy
  BY Working DEF Jobs
<1>2. job' = [job EXCEPT ![r] = j]
  BY Working DEF Jobs
<1> HIDE DEF j
<1>3. job'[r] = j
  BY <1>2 DEF ReceiptsInv, ReceiptsTyped
<1>4. StatusSound(r)' /\ ScanSound(r)'
  BY <1>1, <1>3, Working DEF StatusSound, ScanSound
<1> QED BY <1>1, <1>2, <1>4, Working, JobMoves

LEMMA RecognizeSound ==
  ASSUME ReceiptsInv, NEW r \in Receipts, NEW extra \in {Read, BadDate}, Recognize(r, extra)
  PROVE  ReceiptsInv'
<1> DEFINE copy == [status |-> "completed", core |-> Read, extra |-> extra, raw |-> Read]
<1>1. /\ copy \in Rows /\ copy.status = "completed" /\ copy.core = Read
      /\ copy.raw = Read /\ copy.extra \in {Read, BadDate}
  BY DEF Rows, Content, Final
<1>2. /\ job[r].pc = "recognize"
      /\ job' = [job EXCEPT ![r].copy = copy, ![r].pc = "compare"]
      /\ UNCHANGED <<row, call, known, confirmed, lost>>
  BY DEF Recognize
<1> HIDE DEF copy
<1> QED BY <1>1, <1>2, CopyReplaced DEF Final

LEMMA NotRecognizedSound ==
  ASSUME ReceiptsInv, NEW r \in Receipts, NotRecognized(r)
  PROVE  ReceiptsInv'
<1> DEFINE copy == [job[r].copy EXCEPT !.status = "failed"]
<1>1. job[r].pc = "recognize" /\ UNCHANGED <<row, call, known, confirmed, lost>>
  BY DEF NotRecognized
<1>2. copy \in Rows /\ copy.status = "failed"
  BY <1>1, Working DEF Jobs, Rows, Final
<1>3. job' = [job EXCEPT ![r].copy = copy, ![r].pc = "compare"]
  BY <1>1, Working DEF NotRecognized, Jobs
<1> HIDE DEF copy
<1> QED BY <1>1, <1>2, <1>3, CopyReplaced DEF Final

\* The job is over.
LEMMA EndedSound ==
  ASSUME ReceiptsInv, NEW r \in Receipts, job[r].pc # "over", End(r),
         NEW new \in Rows, row' = [row EXCEPT ![r] = new],
         lost \subseteq lost', lost' \subseteq lost \cup {r},
         known \subseteq known', known' \subseteq known \cup {r},
         UNCHANGED <<call, confirmed>>,
         r \in known' => new.status # None,
         r \notin lost' => new.status \in Final,
         job[r].flow = "scan" /\ r \in known' =>
           new.status = "completed" /\ new.core = Read /\ new.raw = Read /\ new.extra = Read
  PROVE  ReceiptsInv'
<1> DEFINE j == [NoJob EXCEPT !.pc = "over", !.flow = job[r].flow]
<1>1. /\ j \in Jobs /\ j.pc = "over" /\ j.flow = job[r].flow
      /\ job' = [job EXCEPT ![r] = j]
  BY Working, Blanks DEF End, Jobs
<1> HIDE DEF j
<1>2. job'[r] = j /\ row'[r] = new
  BY <1>1 DEF ReceiptsInv, ReceiptsTyped
<1>3. StatusSound(r)'
  BY <1>1, <1>2 DEF StatusSound
<1>4. ScanSound(r)'
  BY <1>1, <1>2, Working DEF ScanSound
<1> QED BY <1>1, <1>3, <1>4, Working, JobMoves

\* In the scan flow the row becomes the copy, as nobody else has written to it since
\* the copy was compared.
LEMMA FinishSound ==
  ASSUME ReceiptsInv, NEW r \in Receipts, Finish(r)
  PROVE  ReceiptsInv'
<1> DEFINE new == Written(r, job[r].copy, job[r].dirty)
           answered == job[r].flow = "scan" /\ job[r].copy.status = "completed"
<1>1. /\ job[r].pc = "update" /\ job[r].copy.status # "processing"
      /\ job[r].copy.extra # BadDate
      /\ row' = [row EXCEPT ![r] = new] /\ End(r)
      /\ known' = known \cup (IF answered THEN {r} ELSE {})
      /\ UNCHANGED <<call, confirmed, lost>>
  BY DEF Finish, Finishing, Refused
<1>2. job[r].copy \in Rows /\ job[r].dirty \in Dirt
  BY <1>1, Working DEF Jobs
<1>3. /\ new \in Rows
      /\ \A f \in {"status", "core", "extra", "raw"} :
           new[f] = IF f \in job[r].dirty THEN job[r].copy[f] ELSE row[r][f]
  BY <1>2, WrittenColumns DEF ReceiptsInv
<1> HIDE DEF new
<1>4. new.status \in Final
  BY <1>1, <1>3, Working DEF StatusSound
<1>5. answered => /\ new.status = "completed" /\ new.core = Read /\ new.raw = Read
                  /\ new.extra = Read
  BY <1>1, <1>3, Working DEF ScanSound
<1> QED BY <1>1, <1>3, <1>4, <1>5, Working, EndedSound DEF Final

LEMMA FinishRefusedSound ==
  ASSUME ReceiptsInv, NEW r \in Receipts, FinishRefused(r)
  PROVE  ReceiptsInv'
<1>1. job[r].pc = "update" /\ UNCHANGED <<row, call, known, confirmed>>
  BY DEF FinishRefused, Finishing
<1>2. CASE Retries(r)
  <2> DEFINE copy == [job[r].copy EXCEPT !.status = "failed"]
  <2>1. copy \in Rows /\ copy.status = "failed"
    BY <1>1, Working DEF Jobs, Rows, Final
  <2>2. job' = [job EXCEPT ![r].copy = copy, ![r].pc = "compare"] /\ UNCHANGED lost
    BY <1>1, <1>2, Working DEF FinishRefused, Jobs
  <2> HIDE DEF copy
  <2> QED BY <1>1, <2>1, <2>2, CopyReplaced DEF Final
<1>3. CASE ~Retries(r)
  <2>1. End(r) /\ lost' = lost \cup {r}
    BY <1>3 DEF FinishRefused
  <2> QED BY <1>1, <2>1, Working, EndedSound DEF StatusSound
<1> QED BY <1>2, <1>3

LEMMA FailJobSound ==
  ASSUME ReceiptsInv, NEW r \in Receipts, FailJob(r)
  PROVE  ReceiptsInv'
<1>1. job[r].pc # "over" /\ End(r) /\ lost' = lost \cup {r}
      /\ UNCHANGED <<row, call, known, confirmed>>
  BY DEF FailJob, Running
<1> QED BY <1>1, Working, EndedSound DEF StatusSound

-----------------------------------------------------------------------------
(***************************************************************************)
(* The steps of a confirmation.                                             *)
(***************************************************************************)
\* A step that writes no row.
LEMMA CallMoves ==
  ASSUME ReceiptsInv, NEW c \in Calls, NEW k \in Confirmations,
         call' = [call EXCEPT ![c] = k], UNCHANGED <<row, job, known, confirmed, lost>>,
         k.pc # "idle" => k.req \in known, CallSound(c)'
  PROVE  ReceiptsInv'
<1>1. /\ call' \in [Calls -> Confirmations] /\ call'[c] = k
      /\ \A d \in Calls \ {c} : call'[d] = call[d]
  BY DEF ReceiptsInv, ReceiptsTyped
<1>2. ReceiptsTyped'
  BY <1>1 DEF ReceiptsInv, ReceiptsTyped
<1>3. \A d \in Calls : CallSound(d)'
  BY <1>1 DEF ReceiptsInv, CallSound
<1>4. \A r \in Receipts : StatusSound(r)' /\ ScanSound(r)'
  BY DEF ReceiptsInv, StatusSound, ScanSound
<1> QED BY <1>2, <1>3, <1>4 DEF ReceiptsInv

LEMMA ConfirmSound ==
  ASSUME ReceiptsInv, NEW c \in Calls, NEW r \in Receipts, NEW text \in Texts,
         NEW extra \in {row[r].extra, text}, Confirm(c, r, text, extra)
  PROVE  ReceiptsInv'
<1> DEFINE copy == [row[r] EXCEPT !.status = "completed", !.core = text, !.extra = extra]
           k == [pc |-> "compare", req |-> r, dirty |-> {}, copy |-> copy]
<1>1. /\ r \in known /\ call' = [call EXCEPT ![c] = k]
      /\ UNCHANGED <<row, job, known, confirmed, lost>>
  BY DEF Confirm
<1>2. row[r] \in Rows /\ ScanSound(r)
  BY DEF ReceiptsInv, ReceiptsTyped
<1>3. /\ copy \in Rows /\ copy.status = "completed" /\ copy.core = text
      /\ copy.extra = extra /\ copy.raw = row[r].raw
  BY <1>2 DEF Rows, Final, Content
<1> HIDE DEF copy
<1>4. k \in Confirmations /\ k.pc = "compare" /\ k.req = r /\ k.copy = copy
  BY <1>3 DEF Confirmations, Dirt
<1> HIDE DEF k
<1>5. call'[c] = k
  BY <1>1 DEF ReceiptsInv, ReceiptsTyped
<1>6. CallSound(c)'
  BY <1>1, <1>2, <1>3, <1>4, <1>5 DEF CallSound, ScanSound
<1> QED BY <1>1, <1>4, <1>6, CallMoves

LEMMA ConfirmCompareSound ==
  ASSUME ReceiptsInv, NEW c \in Calls, ConfirmCompare(c)
  PROVE  ReceiptsInv'
<1> DEFINE r == call[c].req
           dirty == Differing(r, call[c].copy)
           k == [call[c] EXCEPT !.dirty = dirty, !.pc = "update"]
<1>1. call[c].pc = "compare" /\ UNCHANGED <<row, job, known, confirmed, lost>>
  BY DEF ConfirmCompare
<1>2. call[c] \in Confirmations /\ r \in known /\ r \in Receipts /\ CallSound(c)
  BY <1>1 DEF ReceiptsInv, ReceiptsTyped
<1>3. dirty \in Dirt
      /\ \A f \in {"status", "core", "extra", "raw"} \ dirty : call[c].copy[f] = row[r][f]
  BY <1>2, DifferingColumns
<1>4. call' = [call EXCEPT ![c] = k]
  BY <1>1, <1>2 DEF ConfirmCompare, Confirmations
<1> HIDE DEF dirty
<1>5. /\ k \in Confirmations /\ k.pc = "update" /\ k.req = r /\ k.copy = call[c].copy
      /\ k.dirty = dirty
  BY <1>2, <1>3 DEF Confirmations
<1> HIDE DEF k
<1>6. call'[c] = k
  BY <1>4 DEF ReceiptsInv, ReceiptsTyped
<1>7. CallSound(c)'
  BY <1>1, <1>2, <1>3, <1>5, <1>6 DEF CallSound
<1> QED BY <1>1, <1>2, <1>4, <1>5, <1>7, CallMoves

\* A confirmation writes what was typed, or leaves what another one has written.
LEMMA ConfirmUpdateSound ==
  ASSUME ReceiptsInv, NEW c \in Calls, ConfirmUpdate(c)
  PROVE  ReceiptsInv'
<1> DEFINE r == call[c].req
           new == Written(r, call[c].copy, call[c].dirty)
<1>1. /\ call[c].pc = "update"
      /\ row' = [row EXCEPT ![r] = new] /\ confirmed' = confirmed \cup {r}
      /\ call' = [call EXCEPT ![c] = NoCall]
      /\ UNCHANGED <<job, known, lost>>
  BY DEF ConfirmUpdate
<1>2. call[c] \in Confirmations /\ r \in known /\ r \in Receipts /\ CallSound(c)
  BY <1>1 DEF ReceiptsInv, ReceiptsTyped
<1>3. call[c].copy \in Rows /\ call[c].dirty \in Dirt
  BY <1>2 DEF Confirmations
<1>4. /\ new \in Rows
      /\ \A f \in {"status", "core", "extra", "raw"} :
           new[f] = IF f \in call[c].dirty THEN call[c].copy[f] ELSE row[r][f]
  BY <1>2, <1>3, WrittenColumns DEF ReceiptsInv
<1> HIDE DEF new
<1>5. /\ row' \in [Receipts -> Rows] /\ row'[r] = new
      /\ \A q \in Receipts \ {r} : row'[q] = row[q]
      /\ call' \in [Calls -> Confirmations] /\ call'[c].pc = "idle"
      /\ \A d \in Calls \ {c} : call'[d] = call[d]
  BY <1>1, <1>2, <1>4, Blanks DEF ReceiptsInv, ReceiptsTyped
<1>6. ReceiptsTyped'
  BY <1>1, <1>2, <1>5 DEF ReceiptsInv, ReceiptsTyped
<1>7. new.status \in {row[r].status, "completed"}
  BY <1>1, <1>2, <1>4 DEF CallSound
<1>8. job[r].flow = "scan" =>
        /\ new.status = "completed" /\ new.raw = Read /\ new.core \in Texts
        /\ new.extra \in Texts \cup {Read}
  BY <1>1, <1>2, <1>4 DEF ReceiptsInv, CallSound, ScanSound
<1>9. ASSUME NEW q \in Receipts PROVE StatusSound(q)' /\ ScanSound(q)'
  <2>1. CASE q = r
    <3>1. StatusSound(q)'
      BY <1>1, <1>2, <1>5, <1>7, <2>1 DEF ReceiptsInv, StatusSound, Final
    <3>2. ScanSound(q)'
      BY <1>1, <1>2, <1>5, <1>8, <2>1 DEF ReceiptsInv, ScanSound
    <3> QED BY <3>1, <3>2
  <2>2. CASE q # r
    BY <1>1, <1>5, <2>2 DEF ReceiptsInv, StatusSound, ScanSound
  <2> QED BY <2>1, <2>2
<1>10. ASSUME NEW d \in Calls PROVE CallSound(d)'
  <2>1. CASE d = c
    BY <1>5, <2>1 DEF CallSound
  <2>2. CASE d # c
    BY <1>1, <1>5, <1>8, <2>2 DEF ReceiptsInv, ReceiptsTyped, CallSound
  <2> QED BY <2>1, <2>2
<1> QED BY <1>6, <1>9, <1>10 DEF ReceiptsInv

LEMMA FailCallSound ==
  ASSUME ReceiptsInv, NEW c \in Calls, FailCall(c)
  PROVE  ReceiptsInv'
<1>1. call' = [call EXCEPT ![c] = NoCall] /\ UNCHANGED <<row, job, known, confirmed, lost>>
  BY DEF FailCall
<1>2. CallSound(c)'
  BY <1>1, Blanks DEF ReceiptsInv, ReceiptsTyped, CallSound
<1> QED BY <1>1, <1>2, Blanks, CallMoves

-----------------------------------------------------------------------------
LEMMA StepSound == ReceiptsInv /\ [Next]_vars => ReceiptsInv'
<1> SUFFICES ASSUME ReceiptsInv, [Next]_vars PROVE ReceiptsInv'
  OBVIOUS
<1>1. ASSUME NEW r \in Receipts, JobStep(r) PROVE ReceiptsInv'
  BY <1>1, LoadSound, CompareSound, MarkProcessingSound, RecognizeSound,
     NotRecognizedSound, FinishSound, FinishRefusedSound DEF JobStep
<1>2. ASSUME NEW c \in Calls, NEW r \in Receipts, NEW text \in Texts,
             ConfirmAsRead(c, r, text) \/ ConfirmEdited(c, r, text)
      PROVE  ReceiptsInv'
  BY <1>2, ConfirmSound DEF ConfirmAsRead, ConfirmEdited
<1>3. ASSUME NEW c \in Calls, CallStep(c) PROVE ReceiptsInv'
  BY <1>3, ConfirmCompareSound, ConfirmUpdateSound DEF CallStep
<1>4. CASE UNCHANGED vars
  BY <1>4 DEF vars, ReceiptsInv, ReceiptsTyped, StatusSound, ScanSound, CallSound
<1> QED BY <1>1, <1>2, <1>3, <1>4, SubmitSound, FailJobSound, FailCallSound DEF Next

LEMMA ReceiptsSound == Spec => []ReceiptsInv
  BY InitSound, StepSound, PTL DEF Spec

\* In every execution recognition never writes over what a user has confirmed in the
\* scan flow, nor does a confirmation erase what recognition recorded (scanReceipt,
\* confirmReceipt).
THEOREM ConfirmationsKept == Spec => []ScanConfirmKept
<1>1. ReceiptsInv => ScanConfirmKept
  BY DEF ReceiptsInv, ReceiptsTyped, ScanSound, ScanConfirmKept
<1> QED BY <1>1, ReceiptsSound, PTL

\* In every execution what a confirmation leaves out stays as read or as typed before
\* (confirmReceipt).
THEOREM OmittedFieldsKept == Spec => []OptionalFieldsKept
<1>1. ReceiptsInv => OptionalFieldsKept
  BY DEF ReceiptsInv, ReceiptsTyped, ScanSound, OptionalFieldsKept
<1> QED BY <1>1, ReceiptsSound, PTL

\* In every execution a job that ran to its end has left a final status, whatever
\* confirmations slipped between its saves (processOcr, scanReceipt).
THEOREM JobsSettle == Spec => []Settled
<1>1. ReceiptsInv => Settled
  BY DEF ReceiptsInv, StatusSound, Settled, Final
<1> QED BY <1>1, ReceiptsSound, PTL

-----------------------------------------------------------------------------
(***************************************************************************)
(* The screens use the server as anybody does.                              *)
(***************************************************************************)
Screens ==
  [screen : {"upload", "confirm", "processing", "main"}, image : BOOLEAN, place : BOOLEAN,
   locating : BOOLEAN, busy : BOOLEAN, timedOut : BOOLEAN, receipt : Receipts \cup {None},
   by : Calls \cup {None}, form : Texts \cup {None}, sent : Texts \cup {None}, blank : BOOLEAN]

\* The form is about a receipt.
ScreenSound == ui \in Screens /\ (ui.screen = "confirm" => ui.receipt \in Receipts)

LEMMA OpenedSound ==
  /\ Opened \in Screens /\ Opened.screen = "upload"
  /\ \A s \in {"upload", "main"} :
       [Opened EXCEPT !.screen = s] \in Screens /\ [Opened EXCEPT !.screen = s].screen = s
  BY DEF Opened, Screens

LEMMA ScreensInitSound == ScreensInit => Init /\ ScreenSound
  BY OpenedSound DEF ScreensInit, ScreenSound

\* A request of an upload screen submits a receipt that nobody has used, or is lost.
LEMMA SentStep ==
  ASSUME ReceiptsInv, ScreenSound, ui.screen = "upload",
         NEW flow \in {"scan", "upload"}, Sent(flow)
  PROVE  ScreenSound' /\ [Next]_vars
<1> DEFINE r == CHOOSE r \in Receipts : r \in Unused
<1>1. ui \in Screens
  BY DEF ScreenSound
<1>2. CASE Unused # {} /\ Submit(r, flow) /\ ui' = [ui EXCEPT !.busy = TRUE, !.receipt = r]
  <2>1. r \in Receipts
    BY <1>2 DEF Unused
  <2> HIDE DEF r
  <2> QED BY <1>1, <1>2, <2>1 DEF ScreenSound, Screens, Next
<1>3. CASE ui' = [ui EXCEPT !.busy = TRUE, !.receipt = None] /\ UNCHANGED vars
  BY <1>1, <1>3 DEF ScreenSound, Screens
<1> QED BY <1>2, <1>3 DEF Sent

\* Requests of the screens are requests that the server takes from anybody.
LEMMA UserStep ==
  ASSUME ReceiptsInv, ScreenSound, User PROVE ScreenSound' /\ [Next]_vars
<1>1. CASE Scan \/ UploadReceipt
  BY <1>1, SentStep DEF Scan, UploadReceipt, On
<1>2. CASE HandleConfirm
  <2>1. ui \in Screens /\ ui.receipt \in Receipts /\ ui.form \in Texts
    BY <1>2 DEF HandleConfirm, On, CanConfirm, ScreenSound, Screens
  <2>2. ASSUME NEW c \in Calls, NEW blank \in BOOLEAN, ConfirmForm(c, blank), FormSent(c, blank)
        PROVE  ScreenSound' /\ Next
    <3>1. Next
      BY <2>1, <2>2 DEF ConfirmForm, Next
    <3> QED BY <2>1, <2>2, <3>1 DEF FormSent, ScreenSound, Screens
  <2>3. CASE FormSent(None, FALSE) /\ UNCHANGED vars
    BY <2>1, <2>3 DEF FormSent, ScreenSound, Screens
  <2> QED BY <1>2, <2>2, <2>3 DEF HandleConfirm
<1>3. CASE TakePicture \/ TakePictureThenPlace \/ ClearImage \/ Locate \/ Edit
  BY <1>3 DEF TakePicture, TakePictureThenPlace, ClearImage, Locate, Edit, On, ScreenSound,
              Screens, OnlyUi
<1>4. CASE GoBack \/ OpenUpload \/ Leave \/ Reopen
  BY <1>4, OpenedSound DEF GoBack, OpenUpload, Leave, Reopen, ScreenSound, OnlyUi
<1> QED BY <1>1, <1>2, <1>3, <1>4 DEF User

LEMMA AnswerStep ==
  ASSUME ReceiptsInv, ScreenSound, Answers \/ TimeOut PROVE ScreenSound' /\ [Next]_vars
<1>1. CASE Located \/ GetLocation
  BY <1>1 DEF Located, GetLocation, Placed, On, ScreenSound, Screens, OnlyUi
<1>2. CASE ScanFailed \/ UploadFailed \/ TimeOut
  BY <1>2 DEF ScanFailed, UploadFailed, TimeOut, NativeTimeOut, FlutterTimeOut, RunOut, On,
              ScreenSound, Screens, OnlyUi
<1>3. CASE Scanned \/ Uploaded
  <2>1. ui \in Screens /\ ui.receipt \in Receipts /\ UNCHANGED vars
    BY <1>3 DEF Scanned, Uploaded, Arrived, ScreenSound, OnlyUi, ReceiptsInv, ReceiptsTyped
  <2>2. CASE \E text \in Texts :
               ui' = [ui EXCEPT !.screen = "confirm", !.busy = FALSE, !.form = text]
    BY <2>1, <2>2 DEF ScreenSound, Screens
  <2>3. CASE ui' = [ui EXCEPT !.screen = "processing"]
    BY <2>1, <2>3 DEF ScreenSound, Screens
  <2> QED BY <1>3, <2>1, <2>2, <2>3 DEF Scanned, Uploaded
<1>4. CASE Confirmed
  BY <1>4 DEF Confirmed, ScreenSound, Screens, Next, CallStep
<1>5. CASE ConfirmFailed
  BY <1>5 DEF ConfirmFailed, ScreenSound, Screens, Next
<1> QED BY <1>1, <1>2, <1>3, <1>4, <1>5 DEF Answers

LEMMA ScreensStep ==
  ReceiptsInv /\ ScreenSound /\ [ScreensNext]_allVars => ScreenSound' /\ [Next]_vars
<1> SUFFICES ASSUME ReceiptsInv, ScreenSound, [ScreensNext]_allVars
             PROVE  ScreenSound' /\ [Next]_vars
  OBVIOUS
<1>1. CASE Anyone
  BY <1>1 DEF Anyone, screenVars, ScreenSound
<1>2. CASE Server
  BY <1>2 DEF Server, screenVars, ScreenSound, Next, CallStep
<1>3. CASE UNCHANGED allVars
  BY <1>3 DEF allVars, screenVars, ScreenSound
<1> QED BY <1>1, <1>2, <1>3, UserStep, AnswerStep DEF ScreensNext

\* Whatever a user does on the screens of an app, the server's receipts behave as
\* Receipts says of requests that come from anywhere: the theorems above hold for the
\* users of the apps.
THEOREM ScreensUseReceipts == ScreensSpec => Spec
<1>1. ReceiptsInv /\ [Next]_vars => ReceiptsInv'
  BY StepSound
<1>2. ScreensInit => Init /\ ReceiptsInv /\ ScreenSound
  BY ScreensInitSound, InitSound
<1> QED BY <1>1, <1>2, ScreensStep, PTL DEF ScreensSpec, Spec

-----------------------------------------------------------------------------
(***************************************************************************)
(* What React Native's user has sent.  Once a receipt is known its job is   *)
(* over, and as long as no call outlives its client, the only confirmation  *)
(* under way is the one that the form waits for.                            *)
(***************************************************************************)
\* Nobody but a confirmation writes to a receipt that is known.
KnownIsOver == \A r \in known : job[r].pc = "over" /\ job[r].flow = "scan"

\* What the confirmation of call c will write is what the form has sent.
Awaited(c) ==
  /\ ui.by = c
  /\ call[c].req = ui.receipt
  /\ call[c].copy.status = "completed"
  /\ call[c].copy.core = ui.sent
  /\ call[c].copy.extra = IF ui.blank THEN Read ELSE ui.sent
  /\ call[c].pc = "update" =>
       \A f \in {"status", "core", "extra", "raw"} \ call[c].dirty :
         call[c].copy[f] = row[ui.receipt][f]

FormSound ==
  /\ ui.screen \in {"upload", "confirm", "processing"}
  /\ ui.screen # "upload" => ui.receipt \in known
  /\ ui.by # None => ui.busy /\ ui.screen = "confirm"
  /\ ~late /\ ui.screen # "processing" => ui.receipt \notin confirmed
  /\ ~late => \A c \in Calls : call[c].pc # "idle" => Awaited(c)

FiledInv ==
  /\ ReceiptsInv /\ ScreenSound
  /\ area = "native" => KnownIsOver /\ FormSound /\ FiledAsSent

LEMMA FiledInitially == ScreensInit => FiledInv
<1> SUFFICES ASSUME ScreensInit PROVE FiledInv
  OBVIOUS
<1>1. ReceiptsInv /\ ScreenSound
  BY ScreensInitSound, InitSound
<1>2. /\ area = "native" => ui.screen = "upload"
      /\ ui.by = None /\ known = {} /\ confirmed = {} /\ \A c \in Calls : call[c].pc = "idle"
  BY Blanks DEF ScreensInit, Init, Opened
<1> QED BY <1>1, <1>2 DEF FiledInv, KnownIsOver, FormSound, FiledAsSent

\* A job works on a receipt that is not known, and leaves all others alone.
LEMMA JobIsLocal ==
  ASSUME ReceiptsTyped, NEW r \in Receipts, JobStep(r) \/ FailJob(r)
  PROVE  /\ job[r].pc # "over"
         /\ \A q \in Receipts \ {r} : row'[q] = row[q] /\ job'[q] = job[q]
         /\ UNCHANGED <<call, confirmed>>
         /\ known' \subseteq known \cup {r}
         /\ known' # known => job'[r].pc = "over" /\ job'[r].flow = "scan"
<1>1. row \in [Receipts -> Rows] /\ job \in [Receipts -> Jobs]
  BY DEF ReceiptsTyped
<1>2. CASE Load(r) \/ Compare(r) \/ MarkProcessing(r)
  BY <1>1, <1>2 DEF Load, Compare, MarkProcessing
<1>3. CASE (\E extra \in {Read, BadDate} : Recognize(r, extra)) \/ NotRecognized(r)
  BY <1>1, <1>3 DEF Recognize, NotRecognized
<1>4. CASE Finish(r)
  BY <1>1, <1>4 DEF Finish, Finishing, End, NoJob
<1>5. CASE FinishRefused(r)
  BY <1>1, <1>5 DEF FinishRefused, Finishing, End
<1>6. CASE FailJob(r)
  BY <1>1, <1>6 DEF FailJob, Running, End
<1> QED BY <1>2, <1>3, <1>4, <1>5, <1>6 DEF JobStep

\* What stays when neither the screen nor a known receipt nor a call changes.
LEMMA FiledUndisturbed ==
  ASSUME FiledInv, area = "native", UNCHANGED <<area, ui, late, call, confirmed>>,
         NEW r \in Receipts, job[r].pc # "over",
         \A q \in Receipts \ {r} : row'[q] = row[q] /\ job'[q] = job[q],
         known \subseteq known', known' \subseteq known \cup {r},
         known' # known => job'[r].pc = "over" /\ job'[r].flow = "scan"
  PROVE  KnownIsOver' /\ FormSound' /\ FiledAsSent'
<1>1. r \notin known /\ known \subseteq Receipts
  BY DEF FiledInv, KnownIsOver, ReceiptsInv, ReceiptsTyped
<1>2. KnownIsOver'
  BY <1>1 DEF FiledInv, KnownIsOver
<1>3. ui.screen # "upload" => ui.receipt \in known /\ row'[ui.receipt] = row[ui.receipt]
  BY <1>1 DEF FiledInv, FormSound
<1>4. FormSound'
  <2>1. ASSUME NEW c \in Calls, ~late, call[c].pc # "idle" PROVE Awaited(c)'
    <3>1. Awaited(c) /\ ui.screen # "upload"
      BY <2>1, NoneAssumption DEF FiledInv, FormSound, Awaited
    <3> QED BY <1>3, <3>1 DEF Awaited
  <2> QED BY <1>3, <2>1 DEF FiledInv, FormSound
<1>5. FiledAsSent'
  BY <1>3 DEF FiledInv, FiledAsSent
<1> QED BY <1>2, <1>4, <1>5

\* What stays when only the screen changes, and not the screen the form waits on.
LEMMA FormChanged ==
  ASSUME FiledInv, area = "native", UNCHANGED <<area, row, call, job, known, confirmed>>,
         ui'.screen \in {"upload", "confirm"}, ui'.screen # "upload" => ui'.receipt \in known,
         ui'.by # None => ui'.busy /\ ui'.screen = "confirm",
         late' \/ (/\ UNCHANGED <<late, ui.by, ui.sent, ui.blank>>
                   /\ ui'.receipt \in {ui.receipt, None} /\ ui.screen # "processing"
                   /\ ui.by # None => UNCHANGED ui.receipt)
  PROVE  KnownIsOver' /\ FormSound' /\ FiledAsSent'
<1>1. KnownIsOver'
  BY DEF FiledInv, KnownIsOver
<1>2. ASSUME NEW c \in Calls, ~late', call[c].pc # "idle" PROVE Awaited(c)'
  <2>1. Awaited(c)
    BY <1>2 DEF FiledInv, FormSound
  <2> QED BY <1>2, <2>1, NoneAssumption DEF Awaited
<1>3. FormSound'
  <2>1. ASSUME ~late' PROVE ui'.receipt \notin confirmed'
    BY <2>1, NoneAssumption DEF FiledInv, FormSound, ReceiptsInv, ReceiptsTyped
  <2> QED BY <1>2, <2>1 DEF FormSound
<1>4. FiledAsSent'
  BY DEF FiledAsSent
<1> QED BY <1>1, <1>3, <1>4

\* Pictures, positions, answers of a scan, edits, and the app started again.
LEMMA PictureFiled ==
  ASSUME FiledInv, area = "native",
         TakePicture \/ ClearImage \/ Locate \/ Located \/ ScanFailed
  PROVE  KnownIsOver' /\ FormSound' /\ FiledAsSent'
<1>1. /\ ui \in Screens /\ ui.screen = "upload"
      /\ UNCHANGED <<area, row, call, job, known, confirmed, late>>
  BY DEF TakePicture, ClearImage, Locate, Located, Placed, ScanFailed, On, OnlyUi, vars,
         FiledInv, ScreenSound
<1>2. ui.by = None
  BY <1>1 DEF FiledInv, FormSound
<1>3. /\ ui'.screen = "upload" /\ ui'.by = ui.by /\ ui'.sent = ui.sent
      /\ ui'.blank = ui.blank /\ ui'.receipt \in {ui.receipt, None}
  BY <1>1 DEF TakePicture, ClearImage, Locate, Located, Placed, ScanFailed, Screens
<1> QED BY <1>1, <1>2, <1>3, FormChanged

LEMMA ScannedFiled ==
  ASSUME FiledInv, area = "native", Scanned
  PROVE  KnownIsOver' /\ FormSound' /\ FiledAsSent'
<1>1. /\ ui \in Screens /\ ui.screen = "upload" /\ ui.receipt \in known
      /\ UNCHANGED <<area, row, call, job, known, confirmed, late>>
  BY DEF Scanned, Arrived, On, OnlyUi, vars, FiledInv, ScreenSound
<1>2. ui.by = None
  BY <1>1 DEF FiledInv, FormSound
<1>3. /\ ui'.screen = "confirm" /\ ui'.by = ui.by /\ ui'.sent = ui.sent
      /\ ui'.blank = ui.blank /\ ui'.receipt = ui.receipt
  BY <1>1 DEF Scanned, Screens
<1> QED BY <1>1, <1>2, <1>3, FormChanged

LEMMA EditFiled ==
  ASSUME FiledInv, area = "native", Edit
  PROVE  KnownIsOver' /\ FormSound' /\ FiledAsSent'
<1>1. /\ ui \in Screens /\ ui.screen = "confirm"
      /\ UNCHANGED <<area, row, call, job, known, confirmed, late>>
  BY DEF Edit, On, OnlyUi, vars, FiledInv, ScreenSound
<1>2. ui.receipt \in known /\ (ui.by # None => ui.busy)
  BY <1>1 DEF FiledInv, FormSound
<1>3. /\ ui'.screen = "confirm" /\ ui'.by = ui.by /\ ui'.sent = ui.sent
      /\ ui'.blank = ui.blank /\ ui'.receipt = ui.receipt /\ ui'.busy = ui.busy
  BY <1>1 DEF Edit, Screens
<1> QED BY <1>1, <1>2, <1>3, FormChanged

LEMMA ReopenFiled ==
  ASSUME FiledInv, area = "native", Reopen
  PROVE  KnownIsOver' /\ FormSound' /\ FiledAsSent'
<1>1. /\ UNCHANGED <<area, row, call, job, known, confirmed>> /\ late' = (late \/ ui.by # None)
      /\ ui' = [Opened EXCEPT !.screen = "upload"]
  BY DEF Reopen, vars
<1>2. ui'.screen = "upload" /\ ui'.by = None /\ ui'.receipt \notin confirmed'
  BY <1>1, NoneAssumption DEF Opened, FiledInv, ReceiptsInv, ReceiptsTyped
<1>3. CASE ui.by # None
  BY <1>1, <1>2, <1>3, FormChanged
<1>4. CASE ui.by = None
  <2>1. ASSUME ~late PROVE \A c \in Calls : call[c].pc = "idle"
    BY <1>4, <2>1, NoneAssumption DEF FiledInv, FormSound, Awaited
  <2>2. ASSUME ~late' PROVE \A c \in Calls : call'[c].pc = "idle"
    BY <1>1, <2>1, <2>2
  <2> QED BY <1>1, <1>2, <2>2 DEF FiledInv, KnownIsOver, FormSound, FiledAsSent
<1> QED BY <1>3, <1>4

\* A receipt not used before is submitted, or the request is lost.
LEMMA ScanFiled ==
  ASSUME FiledInv, area = "native", Scan
  PROVE  KnownIsOver' /\ FormSound' /\ FiledAsSent'
<1>1. ui \in Screens /\ ui.screen = "upload" /\ ui.by = None /\ UNCHANGED <<area, late>>
  BY DEF Scan, On, Sent, FiledInv, ScreenSound, FormSound
<1>2. /\ ui'.screen = "upload" /\ ui'.by = None /\ UNCHANGED <<call, known, confirmed>>
      /\ ui'.receipt \notin confirmed
      /\ \A r \in known : job'[r] = job[r]
  <2>1. CASE ui' = [ui EXCEPT !.busy = TRUE, !.receipt = None] /\ UNCHANGED vars
    BY <1>1, <2>1, NoneAssumption DEF Screens, vars, FiledInv, ReceiptsInv, ReceiptsTyped
  <2>2. CASE \E r \in Unused : /\ Submit(r, "scan")
                              /\ ui' = [ui EXCEPT !.busy = TRUE, !.receipt = r]
    <3>1. PICK r \in Unused : Submit(r, "scan") /\ ui' = [ui EXCEPT !.busy = TRUE, !.receipt = r]
      BY <2>2
    <3>2. r \in Receipts /\ r \notin known
      BY <3>1, Blanks DEF Unused, FiledInv, ReceiptsInv, StatusSound
    <3> QED BY <1>1, <3>1, <3>2 DEF Submit, Screens, FiledInv, ReceiptsInv, ReceiptsTyped
  <2>3. ASSUME Unused # {}
        PROVE  (CHOOSE r \in Receipts : r \in Unused) \in Unused
    BY <2>3 DEF Unused
  <2> QED BY <2>1, <2>2, <2>3 DEF Scan, Sent
<1>3. \A c \in Calls : ~late => call[c].pc = "idle"
  BY <1>1, NoneAssumption DEF FiledInv, FormSound, Awaited
<1> QED BY <1>1, <1>2, <1>3 DEF FiledInv, KnownIsOver, FormSound, FiledAsSent

\* The form is sent: with nothing else under way, the call just made is the awaited one.
LEMMA HandleConfirmFiled ==
  ASSUME FiledInv, area = "native", HandleConfirm
  PROVE  KnownIsOver' /\ FormSound' /\ FiledAsSent'
<1>1. /\ ui \in Screens /\ ui.screen = "confirm" /\ ui.receipt \in known /\ ui.by = None
      /\ UNCHANGED <<area, late>>
  BY DEF HandleConfirm, CanConfirm, On, FiledInv, ScreenSound, FormSound
<1>2. \A c \in Calls : ~late => call[c].pc = "idle"
  BY <1>1, NoneAssumption DEF FiledInv, FormSound, Awaited
<1>3. ASSUME NEW c \in Calls, NEW blank \in BOOLEAN, ConfirmForm(c, blank), FormSent(c, blank)
      PROVE  KnownIsOver' /\ FormSound' /\ FiledAsSent'
  <2>1. /\ ui'.screen = "confirm" /\ ui'.receipt = ui.receipt /\ ui'.busy
        /\ ui'.sent = ui.form /\ ui'.blank = blank /\ ui'.by = c
    BY <1>1, <1>3 DEF FormSent, Screens
  <2>2. PICK extra \in {row[ui.receipt].extra, ui.form} :
          /\ Confirm(c, ui.receipt, ui.form, extra)
          /\ extra = IF blank THEN row[ui.receipt].extra ELSE ui.form
    BY <1>3 DEF ConfirmForm, ConfirmAsRead, ConfirmEdited
  <2>3. UNCHANGED <<row, job, known, confirmed>>
    BY <2>2 DEF Confirm
  <2>4. /\ call'[c].pc = "compare" /\ call'[c].req = ui.receipt
        /\ call'[c].copy = [row[ui.receipt] EXCEPT !.status = "completed", !.core = ui.form,
                                                   !.extra = extra]
        /\ \A d \in Calls \ {c} : call'[d] = call[d]
    BY <2>2 DEF Confirm, FiledInv, ReceiptsInv, ReceiptsTyped
  <2>5. row[ui.receipt] \in Rows
    BY <1>1 DEF FiledInv, ReceiptsInv, ReceiptsTyped
  <2>6. /\ call'[c].copy.status = "completed" /\ call'[c].copy.core = ui.form
        /\ call'[c].copy.extra = extra
    BY <2>4, <2>5 DEF Rows
  <2>7. ~late => row[ui.receipt].extra = Read
    <3>1. ui.receipt \in Receipts /\ job[ui.receipt].flow = "scan"
      BY <1>1 DEF FiledInv, KnownIsOver, ReceiptsInv, ReceiptsTyped
    <3>2. ~late => ui.receipt \notin confirmed
      BY <1>1 DEF FiledInv, FormSound
    <3> QED BY <1>1, <3>1, <3>2 DEF FiledInv, ReceiptsInv, ScanSound
  <2>8. ASSUME NEW d \in Calls, ~late', call'[d].pc # "idle" PROVE Awaited(d)'
    <3>1. d = c
      BY <1>1, <1>2, <2>4, <2>8
    <3>2. extra = IF blank THEN Read ELSE ui.form
      BY <1>1, <2>2, <2>7, <2>8
    <3> QED BY <2>1, <2>4, <2>6, <3>1, <3>2 DEF Awaited
  <2> QED BY <1>1, <2>1, <2>3, <2>8 DEF FiledInv, KnownIsOver, FormSound, FiledAsSent
<1>4. CASE FormSent(None, FALSE) /\ UNCHANGED vars
  <2>1. ui'.screen = "confirm" /\ ui'.receipt = ui.receipt /\ ui'.by = None
    BY <1>1, <1>4 DEF FormSent, Screens
  <2> QED BY <1>1, <1>2, <1>4, <2>1 DEF vars, FiledInv, KnownIsOver, FormSound, FiledAsSent
<1> QED BY <1>3, <1>4 DEF HandleConfirm

\* The answer comes after the save, which leaves the row as the copy was sent.
LEMMA ConfirmedFiled ==
  ASSUME FiledInv, area = "native", Confirmed
  PROVE  KnownIsOver' /\ FormSound' /\ FiledAsSent'
<1>1. /\ ui \in Screens /\ ui.screen = "confirm" /\ ui.receipt \in known /\ ui.by # None
      /\ ui.by \in Calls /\ ConfirmUpdate(ui.by) /\ UNCHANGED <<area, late>>
  BY DEF Confirmed, On, FiledInv, ScreenSound, FormSound, Screens
<1>2. /\ ui'.screen = "processing" /\ ui'.receipt = ui.receipt /\ ui'.by = None
      /\ ui'.sent = ui.sent /\ ui'.blank = ui.blank
  BY <1>1 DEF Confirmed, Screens
<1>3. PICK c \in Calls : c = ui.by
  BY <1>1
<1>4. /\ call[c].pc = "update" /\ UNCHANGED <<job, known>>
      /\ row' = [row EXCEPT ![call[c].req] = Written(call[c].req, call[c].copy, call[c].dirty)]
      /\ call' = [call EXCEPT ![c] = NoCall]
  BY <1>1, <1>3 DEF ConfirmUpdate
<1>5. /\ call'[c].pc = "idle" /\ \A d \in Calls \ {c} : call'[d] = call[d]
  BY <1>4, Blanks DEF FiledInv, ReceiptsInv, ReceiptsTyped
<1>6. ASSUME NEW d \in Calls, ~late' PROVE call'[d].pc = "idle"
  <2>1. d # c => call[d].pc = "idle"
    BY <1>1, <1>3, <1>6 DEF FiledInv, FormSound, Awaited
  <2> QED BY <1>5, <2>1
<1>7. ASSUME ~late
      PROVE  /\ row'[ui.receipt].status = "completed"
             /\ row'[ui.receipt].core = ui.sent
             /\ row'[ui.receipt].extra = IF ui.blank THEN Read ELSE ui.sent
  <2>1. Awaited(c)
    BY <1>4, <1>7 DEF FiledInv, FormSound
  <2>2. call[c].req = ui.receipt /\ ui.receipt \in Receipts
    BY <1>1, <2>1 DEF Awaited, FiledInv, ReceiptsInv, ReceiptsTyped
  <2>3. call[c].copy \in Rows /\ call[c].dirty \in Dirt
    BY DEF FiledInv, ReceiptsInv, ReceiptsTyped, Confirmations
  <2>4. PICK new \in Rows :
          /\ new = Written(ui.receipt, call[c].copy, call[c].dirty)
          /\ \A f \in {"status", "core", "extra", "raw"} :
               new[f] = IF f \in call[c].dirty THEN call[c].copy[f] ELSE row[ui.receipt][f]
    BY <2>2, <2>3, WrittenColumns DEF FiledInv, ReceiptsInv
  <2>5. \A f \in {"status", "core", "extra", "raw"} : new[f] = call[c].copy[f]
    BY <1>4, <2>1, <2>4 DEF Awaited
  <2>6. new.status = call[c].copy.status /\ new.core = call[c].copy.core
        /\ new.extra = call[c].copy.extra
    BY <2>5
  <2>7. row'[ui.receipt] = new
    BY <1>4, <2>2, <2>4 DEF FiledInv, ReceiptsInv, ReceiptsTyped
  <2> QED BY <2>1, <2>6, <2>7 DEF Awaited
<1>8. KnownIsOver' /\ FormSound'
  BY <1>1, <1>2, <1>4, <1>6 DEF FiledInv, KnownIsOver, FormSound
<1>9. FiledAsSent'
  BY <1>1, <1>2, <1>7 DEF FiledAsSent
<1> QED BY <1>8, <1>9

\* The awaited call has died, or is given up: it is then one that is late.
LEMMA ConfirmFailedFiled ==
  ASSUME FiledInv, area = "native", ConfirmFailed
  PROVE  KnownIsOver' /\ FormSound' /\ FiledAsSent'
<1>1. /\ ui \in Screens /\ ui.screen = "confirm" /\ ui.receipt \in known
      /\ UNCHANGED area
      /\ ui' = [ui EXCEPT !.busy = FALSE, !.sent = None, !.blank = FALSE, !.by = None]
  BY DEF ConfirmFailed, On, FiledInv, ScreenSound, FormSound
<1>2. /\ ui'.screen = "confirm" /\ ui'.receipt = ui.receipt /\ ui'.by = None
  BY <1>1 DEF Screens
<1>3. UNCHANGED <<row, job, known, confirmed>> /\ (~late' => ~late)
  BY DEF ConfirmFailed, FailCall, vars
<1>4. ASSUME NEW d \in Calls, ~late' PROVE call'[d].pc = "idle"
  <2>1. ~late /\ (d # ui.by => call[d].pc = "idle")
    BY <1>4 DEF ConfirmFailed, FiledInv, FormSound, Awaited
  <2>2. CASE ui.by # None /\ FailCall(ui.by)
    BY <2>1, <2>2, Blanks DEF FailCall, FiledInv, ReceiptsInv, ReceiptsTyped
  <2>3. CASE ui.by = None /\ UNCHANGED vars
    BY <2>1, <2>3, NoneAssumption DEF vars
  <2> QED BY <1>4, <2>2, <2>3 DEF ConfirmFailed
<1> QED BY <1>1, <1>2, <1>3, <1>4 DEF FiledInv, KnownIsOver, FormSound, FiledAsSent

LEMMA TimeOutFiled ==
  ASSUME FiledInv, area = "native", TimeOut
  PROVE  KnownIsOver' /\ FormSound' /\ FiledAsSent'
<1>1. /\ ui \in Screens /\ ui.screen = "processing" /\ ui.receipt \in known
      /\ UNCHANGED <<area, row, call, job, known, confirmed, late>>
  BY DEF TimeOut, NativeTimeOut, FlutterTimeOut, On, RunOut, OnlyUi, vars, FiledInv,
         ScreenSound, FormSound
<1>2. /\ ui'.screen = "processing" /\ ui'.receipt = ui.receipt /\ ui'.by = ui.by
      /\ ui'.sent = ui.sent /\ ui'.blank = ui.blank
  BY <1>1 DEF TimeOut, NativeTimeOut, FlutterTimeOut, RunOut, Screens
<1>3. ui.by = None
  BY <1>1 DEF FiledInv, FormSound
<1>4. \A c \in Calls : ~late => call[c].pc = "idle"
  BY <1>3, NoneAssumption DEF FiledInv, FormSound, Awaited
<1> QED BY <1>1, <1>2, <1>3, <1>4 DEF FiledInv, KnownIsOver, FormSound, FiledAsSent

\* Jobs work on other receipts, and no call goes on but the awaited one.
LEMMA ServerFiled ==
  ASSUME FiledInv, area = "native", Server
  PROVE  KnownIsOver' /\ FormSound' /\ FiledAsSent'
<1>1. UNCHANGED <<area, ui, late>> /\ ReceiptsInv
  BY DEF Server, screenVars, FiledInv
<1>2. ASSUME NEW r \in Receipts, JobStep(r) \/ FailJob(r)
      PROVE  KnownIsOver' /\ FormSound' /\ FiledAsSent'
  <2>1. known \subseteq known'
    BY <1>2 DEF JobStep, Load, Compare, MarkProcessing, Recognize, NotRecognized, Finish,
                FinishRefused, FailJob
  <2> QED BY <1>1, <1>2, <2>1, JobIsLocal, FiledUndisturbed DEF ReceiptsInv
<1>3. ASSUME NEW c \in Calls, ConfirmCompare(c)
      PROVE  KnownIsOver' /\ FormSound' /\ FiledAsSent'
  <2>1. /\ call[c].pc = "compare" /\ UNCHANGED <<row, job, known, confirmed>>
        /\ call' = [call EXCEPT ![c].dirty = Differing(call[c].req, call[c].copy),
                                ![c].pc = "update"]
        /\ call[c] \in Confirmations /\ call[c].req \in Receipts
    BY <1>1, <1>3 DEF ConfirmCompare, ReceiptsInv, ReceiptsTyped
  <2>2. /\ call'[c].req = call[c].req /\ call'[c].copy = call[c].copy
        /\ call'[c].dirty = Differing(call[c].req, call[c].copy)
        /\ \A d \in Calls \ {c} : call'[d] = call[d]
    BY <1>1, <2>1 DEF ReceiptsInv, ReceiptsTyped, Confirmations
  <2>3. ASSUME NEW d \in Calls, ~late', call'[d].pc # "idle" PROVE Awaited(d)'
    <3>1. CASE d # c
      <4>1. call'[d] = call[d] /\ ~late /\ UNCHANGED ui
        BY <1>1, <2>2, <2>3, <3>1
      <4>2. Awaited(d)
        BY <2>3, <4>1 DEF FiledInv, FormSound
      <4> QED BY <2>1, <4>1, <4>2 DEF Awaited
    <3>2. CASE d = c
      <4>1. Awaited(c)
        BY <1>1, <2>1, <2>3 DEF FiledInv, FormSound
      <4>2. \A f \in {"status", "core", "extra", "raw"} \ Differing(call[c].req, call[c].copy) :
              call[c].copy[f] = row[call[c].req][f]
        BY <2>1, DifferingColumns
      <4>3. \A f \in {"status", "core", "extra", "raw"} \ call'[c].dirty :
              call'[c].copy[f] = row[call[c].req][f]
        BY <2>2, <4>2
      <4>4. Awaited(c)'
        BY <1>1, <2>1, <2>2, <4>1, <4>3 DEF Awaited
      <4> QED BY <3>2, <4>4
    <3> QED BY <3>1, <3>2
  <2> QED BY <1>1, <2>1, <2>3 DEF FiledInv, KnownIsOver, FormSound, FiledAsSent
<1>4. ASSUME NEW c \in Calls, c # ui.by, ConfirmUpdate(c) \/ FailCall(c)
      PROVE  KnownIsOver' /\ FormSound' /\ FiledAsSent'
  <2>1. call[c].pc # "idle" /\ UNCHANGED <<job, known>>
    BY <1>4 DEF ConfirmUpdate, FailCall
  <2>2. late
    BY <1>4, <2>1 DEF FiledInv, FormSound, Awaited
  <2> QED BY <1>1, <2>1, <2>2 DEF FiledInv, KnownIsOver, FormSound, FiledAsSent
<1> QED BY <1>2, <1>3, <1>4 DEF Server

LEMMA FiledStep == FiledInv /\ [ScreensNext]_allVars => FiledInv'
<1> SUFFICES ASSUME FiledInv, [ScreensNext]_allVars PROVE FiledInv'
  OBVIOUS
<1>1. ReceiptsInv' /\ ScreenSound' /\ UNCHANGED area
  <2>1. ScreenSound' /\ [Next]_vars
    BY ScreensStep DEF FiledInv
  <2>2. UNCHANGED area
    BY DEF ScreensNext, Anyone, Server, Answers, TimeOut, User, screenVars, allVars, OnlyUi,
           TakePicture, TakePictureThenPlace, ClearImage, Locate, Scan, UploadReceipt, Sent,
           Edit, HandleConfirm, GoBack, OpenUpload, Leave, Reopen, Located, GetLocation,
           Placed, Scanned, ScanFailed, Uploaded, UploadFailed, Confirmed, ConfirmFailed,
           NativeTimeOut, FlutterTimeOut, RunOut
  <2> QED BY <2>1, <2>2, StepSound DEF FiledInv
<1>2. ASSUME area = "native" PROVE KnownIsOver' /\ FormSound' /\ FiledAsSent'
  <2>1. CASE User
    <3>1. TakePicture \/ ClearImage \/ Locate \/ Scan \/ Edit \/ HandleConfirm \/ Reopen
      BY <1>2, <2>1 DEF User, TakePictureThenPlace, UploadReceipt, GoBack, OpenUpload, Leave, On
    <3> QED BY <1>2, <3>1, PictureFiled, ScanFiled, EditFiled, HandleConfirmFiled, ReopenFiled
  <2>2. CASE Answers
    <3>1. Located \/ Scanned \/ ScanFailed \/ Confirmed \/ ConfirmFailed
      BY <1>2, <2>2 DEF Answers, GetLocation, Uploaded, UploadFailed, On
    <3> QED BY <1>2, <3>1, PictureFiled, ScannedFiled, ConfirmedFiled, ConfirmFailedFiled
  <2>3. CASE UNCHANGED allVars
    BY <1>2, <2>3 DEF allVars, vars, screenVars, FiledInv, KnownIsOver, FormSound,
                      FiledAsSent, Awaited
  <2> QED BY <1>2, <2>1, <2>2, <2>3, TimeOutFiled, ServerFiled DEF ScreensNext, Anyone
<1> QED BY <1>1, <1>2 DEF FiledInv

\* In every execution of React Native's screens, with any number of receipts and calls,
\* the receipt holds what its user sent when the form gives way to the processing
\* screen, and in a field that was sent blank what was read (handleConfirm of
\* ReceiptConfirmScreen.tsx, confirmReceipt).
THEOREM SentIsFiled == ScreensSpec => []FiledAsSent
<1>1. FiledInv => FiledAsSent
  BY DEF FiledInv, FiledAsSent
<1> QED BY <1>1, FiledInitially, FiledStep, PTL DEF ScreensSpec
=============================================================================
