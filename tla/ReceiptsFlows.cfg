\* One receipt in either flow, with two overlapping confirmations at any time;
\* or one user of an app and two receipts.
SPECIFICATION FairScreensSpec
CONSTANTS
  Receipts = {r1, r2}
  Calls = {c1, c2}
  Texts = {t1, t2}
INVARIANTS ScanConfirmKept OptionalFieldsKept Settled FiledAsSent
PROPERTIES JobsEnd SpinnersEnd
CHECK_DEADLOCK FALSE
