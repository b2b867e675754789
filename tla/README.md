# Verification of the corporate card system

TLA+ models of this repository's server (`packages/api`) and of its three
clients (`packages/dashboard`, `packages/mobile`, `packages/mobile_flutter`),
the TLC runs that check them on small instances, and TLAPS proofs for every
value of the constants. Paths below are relative to
`src/packages/api/src/modules` unless they begin with `packages/`.

## 1. The system

A NestJS server keeps employees, card policies, receipts, transactions,
approvals, settings and audit rows in PostgreSQL (through TypeORM), and
sessions and login counters in Redis. A React dashboard, a React Native app
and a Flutter app call it over HTTP; OCR, language models, S3 and a geocoder
are external services.

Four facts make the system hard to get right, and shape every model here:

* **No transactions, locks or versions.** A handler loads an entity, decides on
  the loaded copy, and saves the copy. Each `await` lets other handlers run, so
  what a handler decided on may be stale when it saves. A TypeORM `save` is
  itself two queries: a SELECT that finds the columns in which the copy differs
  from the row, and an UPDATE of those columns. What is lost or kept when two
  saves overlap is decided column by column.
* **Several saves per call.** A call can die between two of them (lost
  connection, stopped process) and nothing takes it up again.
* **Work that nobody waits for.** The recognition of an uploaded receipt and
  the writing of audit rows go on after the answer was sent.
* **Clients that go on by themselves.** A client's requests overlap, are given
  up after a timeout that the server does not know of, are sent again after a
  401, and are answered when the screen that sent them shows something else.

### Components

| Component | State | Operations | Interacts with | What makes it correct |
|---|---|---|---|---|
| Approval workflow (`approval/`) | tables `approval_requests`, `approval_steps` | create, process a step (approve, reject), cancel, list pending | `RolesGuard` (role from the access token) | no step of the chain is skipped; each decision goes back to someone entitled to it; steps and request agree; every call is answered |
| Sessions (`auth/`) | Redis `user:<id>:refresh:<family>`, `blacklist:at:<hash>`; the password | login, refresh (rotation, reuse alarm), logout, change of password | clients, Redis expiry | a used token stays dead; an ended session does not come back; the cap; a password change ends the sessions of the old password |
| Login lock (`auth/`) | Redis `login:fail:<id>`, `login:locked:<id>` | validateUser, handleLoginFailure | sessions, audit | guesses are bounded, overlapping ones too; the lock ends |
| Clients' sessions (`packages/*`: API clients, stores, splash, login) | tokens in memory and in storage, requests in progress | request, rotation after a 401 and retry, login, logout, restart | sessions | a signed-out user stays signed out; a client in use stays signed in |
| Audit trail (`audit/`, `common/interceptors`) | table `audit_logs`, `lastChecksum` in memory | create, from an interceptor that does not wait | login, logout, change of password | links go to saved rows; the chain forks by overlap only |
| Receipts (`receipts/`) | table `receipts` | upload, scan, recognition, confirm | OCR, language models, S3, the apps | what a user confirmed is not overwritten; recognition ends, and leaves a final status |
| Receipt screens (`packages/mobile*`) | picture, position, form, busy flags | picture, upload, edit, confirm, go back | receipts | a confirmed receipt holds what was sent; no screen stays busy |
| Transactions (`transactions/`) | table `transactions` | createFromReceipt, approve, reject, list | receipts, verification | a verdict is final |
| Lists of transactions (`packages/*`) | pages shown, query cache, requests in progress | filter, next page, refresh | transactions | what is shown belongs to what is selected |
| Settings (`settings/`), wizard and page (`packages/dashboard`) | table `system_settings`; step or category shown, saves in progress | bulkUpsert, isSetupRequired; next, back, load, save | encryption | what is answered is stored; a finished wizard has set everything up |
| Language model (`llm/`) | provider and configuration in memory | set, chat, test, list models | receipts, external services | a key goes to the service it was made for |
| Employees (`employees/`), card policies (`policies/`) | tables `employees`, `card_policies` | create, update, remove; own password | sessions, verification | a replaced password stays dead; a save writes what its request names |
| Verification (`verification/`) | none | verify: five checks, overall status, approval triggers | card policies | the limits, hours and places of the policy are kept; every refused purchase has a way on |
| Policy engine (`policies/`) | table `policy_rules` (read) | evaluate | none in the repository | the verdict does not depend on the order of rules of one priority |

Notifications, location, health, statistics and the dashboard's queries, shared
types and infrastructure are not modelled: section 7.

The hazards found while reading, each at its line, are listed in
`PROJECT.json`. Those that no property covers carry the reason: the code does
not keep what one would like to state.

## 2. Modules

```
ApprovalWorkflow            abstract: one atomic step per decision
   ^ implemented by (INSTANCE)
Approval <- ApprovalProps <- ApprovalSequential <- MCApproval
                                    ^- ApprovalProofs (TLAPS)
AuthSessions <- AuthProps <- MCAuth <- AuthProofs (TLAPS)
   ^                                       ^
   '- ClientSession <- ClientProps <- ClientProofs (TLAPS)
LoginLock, AuditChain <- AuditedLogins <- AuditProofs (TLAPS)
Receipts <- ReceiptsProps <- ReceiptScreens <- ReceiptScreensProps <- ReceiptsProofs (TLAPS)
Verification <- PolicyEngine <- PurchaseRules <- MCRules
                                     ^- RulesProofs (TLAPS)

Transactions <- TransactionLists <- TransactionListsProps --.
Settings <- SettingsProps ----------------------------------+-> SharedTables
LanguageModel ----------------------------------------------|      ^
Employees --------------------------------------------------'      |
   ^- AdministrationProofs (TLAPS) <- TransactionProofs (TLAPS) ---'
```

`A <- B` means that B extends A. A definition that begins with a comment
`Mutant of X` is not part of a model: it is a plausible slip in the code behind
X, kept to show that a property notices it.

### Approval, ApprovalProps, ApprovalSequential, ApprovalWorkflow

`request` and `steps` are the two tables. A call is a process with a program
counter and the copy it loaded: `createApprovalRequest` is `Create` and
`InsertSteps` (two saves); `processStep` is `Load`, one of
`ProcessExpired | ProcessRefused | ProcessReject | ProcessApprove`, then
`SaveStep`, `UpdateStep`, `SaveRequest`, `UpdateRequest` (the SELECT and the
UPDATE of `stepRepo.save` and of `requestRepo.save`); `cancelRequest` is `Load`,
`CancelRefused | CancelAccepted`, `SaveRequest`, `UpdateRequest`. Saving a request also
saves its loaded steps (`cascade: true`), and a request loaded before its steps
were inserted would detach them, which the NOT NULL foreign key refuses
(`SaveRefused`). `Fail` lets a call die between any two queries; `Expire` lets
time pass `expiresAt`, from any moment after creation. `acts` is a history of
the decisions taken. Users, amounts and triggers are inputs; a role is a
function of the employee, as in the access token.

`ApprovalWorkflow` is the workflow as the tests and the controller's texts
describe it, with the one departure named there (`Lapse`).
`ApprovalSequential!Workflow` instantiates it with the tables as they are: the
refinement mapping reads `passed` off `currentStep` and the chain off the step
rows.

### AuthSessions, AuthProps

The keys of one employee in Redis are the set `whitelist` of token families;
each Redis command of a call is an action. `storeRefreshToken` is `Count`,
`Evict`, `Store`; `invalidateAllSessions` is `List` and a `Purge` per key, in
any order; `refresh` is `Refresh`, `Check`, then `Exchange` and the store, or,
when the key is gone, `List` and `Purge` (the reuse alarm). `logout` and
`changePassword` are admitted by `Authenticated` (JwtStrategy). `KEYS` lists in
an unspecified order, so that `Count` may choose any victim. Tokens and keys
expire, token first: the JWT is signed before its key is set, and both live
seven days by default (`JWT_REFRESH_EXPIRATION`, `REFRESH_TOKEN_TTL`). A login begins where
`validateUser` has accepted the password; `root` remembers with which one.

### ClientSession, ClientProps

One device over `AuthSessions`: `kind`, which never changes, says which of the three
clients it runs, for they differ in a dozen places and agree in the rest.
`mem` is the store, `disk` the storage; the apps write it later and key by key
(`dirty`, `removing`, `Flush`, `Remove`), a browser at once. `req` holds the
requests in progress: `Send`, `SubmitLogin`, `SubmitLogout`; the answers
`Accepted`, `LoginAnswered`, `LogoutAnswered`; and what the interceptors make
of a 401: `DeniedAgain` (a request sent again), `NothingToExchange`,
`StartRotation`, then `Rotated` or `NotRotated`. `Lost` is a lost connection, a
timeout or another error: the server goes on (`Abandoned` when it dies too).
`Restart` begins the app or the page anew over what its storage holds. The
server's steps are those of `AuthSessions` (`Serve`). Where the clients differ:
React Native drops the new refresh token (`Successor`); the dashboard sends its
refresh token where the server does not look (`Exchangeable`); Flutter clears
the store when a retried request fails; React Native signs out without leaving
its screen; each restores another selection of keys (`Restored`). `signedOut`
remembers that the user has signed out and not begun to log in since, and that
no login was under way then (`LoggingIn`): Flutter's form can be submitted
twice.

### LoginLock, AuditChain, AuditedLogins

`validateUser` is `Attempt` (the lock), `Right | Wrong` (the comparison),
`Reset`; `handleLoginFailure` is `Incr`, `Expire`, `Lock`. Both keys get the
same 30 minutes whenever they are touched, so `due`, the order in which they
were touched last, is all the model needs of time. `guesses` counts the wrong
guesses answered or in progress since the guesser last had a fresh start (the
counter or the lock gone). `AuditChain` has the call of `create` split where
the code awaits: the checksum with its predecessor (`Create`), the save, and
the assignment of `lastChecksum` (`Remember`). `AuditedLogins` joins them as
the interceptor does: only a login that the guard accepts reaches it.

### Receipts, ReceiptsProps

A row's columns are three groups by who writes them (`core`, `extra`, `raw`),
each empty, read by recognition or typed by a user. `processOcr` (after upload,
not awaited) and `scanReceipt` (awaited) share `Load`, `Compare`,
`MarkProcessing`, `Recognize | NotRecognized`, `Compare`, `Finish | FinishRefused`,
and differ as the code does: a client knows the receipt's id at once or only
after the job (`known`), and only `scanReceipt` has its final save inside the
`try` (`Retries`). A date that JavaScript cannot parse reaches the database as
an Invalid Date and is refused (`Refused`). `Confirm` loads, overwrites and saves the row
whatever its status.

### ReceiptScreens, ReceiptScreensProps

`area` says who uses the receipts: anybody (`Anyone`, the steps of `Receipts`),
or one user of an app. `ui` is his screen: the upload screen with its picture
and position (`TakePicture`, `ClearImage`, `Locate`, `Located`, and Flutter's
`TakePictureThenPlace`, `GetLocation`), the request that sends them (`Scan`,
`Scanned`, `ScanFailed` of React Native; `UploadReceipt`, `Uploaded`,
`UploadFailed` of Flutter), React Native's confirmation form (`Edit`,
`HandleConfirm`, `Confirmed`, `ConfirmFailed`), the processing screen
(`NativeTimeOut`, `FlutterTimeOut`, `GoBack`). A client gives a request up without the server's
knowing: `ConfirmFailed` may leave the server's call running, and `late`
remembers it. React Native scans, and its form is filled with what was read;
Flutter uploads, and has no form. A field may be blank when the form is sent
(`ConfirmForm`): `confirmReceipt` takes it for one that is left out, so that
the row keeps what was read (`ConfirmAsRead`).

### Transactions, TransactionLists, TransactionListsProps

`table` holds the columns that decisions change. `approve` and `reject` are
`Decide` (findOne and the test of the status), `DecideCompare` and
`DecideUpdate` (the SELECT and the UPDATE of save), `DecideFails`. `raced`
remembers which transactions two calls worked on at once. A list request is
`Count` and `Read`, the two queries of findAll, between which the table may
change; the `ORDER BY` is `Ordered`, which takes the k-th of what is selected. Flutter's screen (`Again`, `LoadMore`, `Appended`, `NotAppended`)
appends pages and counts a page before it has come; the dashboard
(`HandleFilter`, `HandlePageChange`, `Visit`, `Fetched`, `NotFetched`,
`Collected`) shows what react-query has cached for the key of its filters;
React Native takes the envelope of an answer for the page in it and breaks
when its home or its list renders it (`HomeBroken`, `ListBroken`), until it is
started again (`Relaunched`).

### Settings, SettingsProps

`stored` is the table, `saving` the PUT in progress of each browser: for each
field that was not blank a `Find` and a `Write`, which the unique pair of
category and key refuses where another insert was faster (`Duplicate`), then
`Answer`. `SaveFails` stops it half way. The wizard (`VisitWizard`,
`HandleNext`, `HandlePrev`, `StepSaved`) goes on to the step after the saved one,
whatever it shows by then; the page (`VisitPage`, `Loaded`, `HandleSave`,
`PageSaved`) reloads after each save. What a form holds when it is saved is an
input that keeps its rules (`Fillings`, `Valid`): in each category a service and
a secret are required and an endpoint is not, except in llm, where it is
required of a provider of one's own and not sent otherwise (`Shown`,
`Submitted`). `alone` remembers whether another save of the category overlapped,
`torn` whether one of llm has failed half way, and left the provider, which is
written first, without the endpoint, which is written last.

### LanguageModel

The service's two fields, `provider` and `config`, and the requests that are
out. `SetProvider` is atomic, since nothing is awaited between the two
assignments, and refused as a whole where `createProvider` throws; `Chat`,
`TestConnection` and `ListModels` send, `Returned` ends, `Restarted` forgets.
A key and a model are named by the place they were made for, so that the
property can tell where they may go.

### Employees

The row of one employee and that of his policy. `update` is `Update` (the copy,
without the password, which is not selected, and the assignment), `SaveSelect`,
then `UpdateRow`, or `Reinsert` where the row is gone; `remove` is `Remove` and
`Delete`; a change of one's own password writes its column only
(`ChangePassword`, `UpdateRow`). A policy's update names its own columns
only (`UpdatePolicy`, `SelectPolicy`, `UpdatePolicyRow`): its DTO, unlike the
employee's, has all fields, and `save` passes over what is undefined.

### SharedTables

The four above beside one another. They share no state, so a behaviour is
about one of them (`about`), and the run is one run for what is one question:
what clients do to rows that nobody locks.

### Verification, PolicyEngine, PurchaseRules

The five validators, the overall status and `detectApprovalTriggers` are
operators on records. Substring and lower case are constants (`Part`, `Lower`).
A limit remembers whether it is the text that the driver reads from a decimal
column (`"0.00"` is truthy) or a number (`0` is not). `PolicyEngine` is one
evaluation, a rule a step, over every order of equal priorities that the
database may return. `PurchaseRules` puts both judgements of a purchase side by
side. No code of the repository calls `verify` or `evaluate`; their inputs here are
those of their parameter types, and the rules and policies those of their
entities.

## 3. Runs

| Run | Instance | What it shows |
|---|---|---|
| `approval_races` | 1 request, chain manager-finance, 2 overlapping calls, any number of calls in all (3.1 M states) | `ChainRespected`, `DecisionsEarned`, `OrphanUndecided`: overlapping saves and lost calls can lose decisions but never invent one or skip a step; `TypeOK` |
| `approval_sequential` | 1 request, every trigger, amounts 100 000, 100 001, 500 000, 500 001, one call at a time, calls may die | `ImplementsWorkflow` (refinement), `StepsTellProgress`, `CallsAnswered` |
| `approval_cancelled` | as `approval_races` | violation: a cancellation answered 200 is undone by an approver's stale save |
| `approval_decided` | one call at a time | violation: a decided request becomes `expired` when processed after its expiry |
| `approval_listed` | one call at a time | violation: a call lost between its two saves leaves an open request that no pending list shows |
| `auth_races` | 3 families, cap 2, 2 passwords, 2 overlapping calls, calls may die | `SpentIsDead`, `NoResurrection`, `InvalidationHolds` always; `SessionsCappedAlone`, `SessionsFollowPasswordAlone`, `RefreshKeepsOthersAlone` as long as no calls have overlapped and none was lost; `TypeOK` |
| `auth_password` | 2 overlapping calls, none lost | violation of `SessionsFollowPassword`: a login in progress stores its session after the password change has listed the sessions to end |
| `app_sessions` | a device of each kind, 2 requests at a time, 3 pairs of tokens, restarts | `SignedOutStaysOut`: no late answer and no half-cleared storage signs a user in again, but for the answer of a login that was under way at the sign-out; `LoneClientKeepsSession`: rotation does not cost a Flutter or web client its session while its requests do not overlap |
| `audited_logins` | limit 3, 2 overlapping logins, 2 overlapping audit writes of 3, restarts | `GuessesBounded`, `LockEnds`, `LinksSaved`, `ForksOverlap` |
| `receipts_flows` | 1 receipt in either flow, 2 overlapping confirmations, 2 texts; or a user of either app and 2 receipts | `ScanConfirmKept`, `OptionalFieldsKept`, `Settled`, `JobsEnd` of the server; `FiledAsSent` (a field that is sent blank is what was read), `SpinnersEnd` of the screens |
| `purchase_rules` | every hour with every window; each boundary of limits and distances; every table of 3 rules out of 9 | `AllowedUnlessBlocked`, `HigherPriorityFirst`, `ApprovalsComplete`, `HoursGoRoundTheClock`, `VerdictHasWayOn`, `LimitsOfTableKept` (per purchase, day and month) |
| `shared_tables` | 3 transactions in pages of 2, 2 list requests, 3 managers; 2 administrators, 2 steps; 2 custom services, 2 requests; 2 calls about an employee (640 000 states) | `DecisionFinalAlone`, `ListShowsSelection`; `AnsweredIsStored`, `CompletedIsSetUp` (the endpoint of a provider of one's own excepted while a save of llm goes on or after one failed half way); `KeyGoesToItsService`; `OldPasswordStaysDead`, `UnnamedKeptAlone`; `TypeOK` of all four |

Type invariants are checked in `approval_races`, `auth_races` and
`shared_tables`; those of the other modules are parts of the proved invariants
of section 5.

Four runs are violations: each states what a text of the repository says of the
program, and TLC shows the execution in which the code does otherwise
(`findings` in `PROJECT.json`).

### Why the bounds are enough

* *One request, one employee's sessions, one account, one receipt.* Rows of
  different requests (employees, accounts, receipts) are never read or written
  by one call, so they do not influence one another.
* *Two calls at a time.* Each race here is between a stale copy and one
  change of what it was copied from; a call may end and begin again any number of
  times, so that arbitrarily many stale copies follow one another. The theorems of
  section 5 remove this bound, and most others, for what they state.
* *A chain of two* has a first step, a last one and a step between request and end;
  the sequential run has chains of one, two and three.
* *Cap 2 for the code's 5, limit 3 for its 5.* The cap is compared with a number of keys and the limit
  with a counter only; below, at and above are all reached. Three families allow one session more
  than the cap. `MaxFails` 4 lets the counter stand above the limit without a
  lock, which lost calls cause.
* *The device* (`app_sessions`): once the server has begun with a call it does
  all of it before anything else happens (`Serving`; what overlaps inside the
  server is the subject of `auth_races`); `randomUUID` returns the next unused
  family (`Fresh`); only the access token in memory expires, since one that is
  no longer in memory is not sent again but by requests already out.
* *Three audit rows* are a row, its successor and one that overlaps it.
* *Receipts*: where anybody uses them, one receipt and a text per caller; the
  user of an app has two receipts, so that a second upload can follow a failed
  one. His confirmations follow one another, also the one after a confirmation that he
  gave up (`Taken`): confirmations that overlap are those of anybody.
* *Rules of two priorities* in threes: before, equal and after.
* *Three transactions in pages of two* are a full page and a broken one.
  Decisions are about the first transaction, which alone may be missing at
  first: three managers decide on it where no list is open, one where an app's
  list is, nobody where the dashboard's is, whose property no change of the
  table touches. Which pages the dashboard's table offers is left open.
* *Two steps of the wizard* are one that is required and the last, llm. One
  administrator uses the wizard, the others the page, with any one category at a
  time. A form has one field for each way of being required, and its values say
  whether they were there before, not who typed them.
* *Two custom services* beside the three hosted ones: each key has a wrong place to go to.
* *Two passwords* (`MaxPasswords`) beside none are an old and a new one; the employee is
  registered once, and has one policy.

`auth_*` and `app_sessions` use symmetry, and views that leave out histories
which nothing checked depends on (`View`, with the reason beside it);
`approval_races` uses symmetry in calls: no formula distinguishes the values, and none of these
runs checks liveness.

`CHECK_DEADLOCK FALSE` is given where the instance really ends: when every
family has been drawn and every session is over (`auth_*`, `app_sessions`), when
the receipts are over and nothing more may be confirmed (`receipts_flows`), when the purchase is judged
(`purchase_rules`), when the passwords are used up and the employee is removed
(`shared_tables`).

## 4. Fairness

* `ApprovalSequential!FairSpec`: weak fairness of each call's next step. Node
  resumes a call when the query it awaits is answered, and a query that is not
  answered is `Fail`. Requests need not arrive, and time need not pass.
* `FairScreensSpec` of the receipts: weak fairness of each job, of the search for a
  position (which has a timeout of 15 s), and of the end of a client's request
  (which has one of 60 s or 30 s). Where a request is answered 401 it ends with
  the exchange of the refresh token, whose own POST has no timeout in either app
  (`api/client.ts:34` of React Native, `api_client.dart:35` of Flutter): that it is answered
  or fails is assumed. The OCR request has a timeout of 30 s
  (`ocr/ocr.service.ts:57`). The language model's has none: that it answers or
  fails is an assumption about the provider, not something the code ensures.
  Users need not do anything.
* `AuditedLogins!Spec`: keys that have a time to live expire (Redis), and calls
  go on. Nobody is obliged to log in.

## 5. Proofs

Every theorem holds for all values of the constants: any number of requests,
calls, employees, receipts, transactions, rules, services and so on. Every
invariant that a run checks is a theorem.

| Module | Theorem | States |
|---|---|---|
| `ApprovalProofs` | `TypeCorrect` | `Spec => []TypeOK` |
| | `ChainIsRespected` | `Spec => []ChainRespected` |
| | `DecisionsAreEarned` | `Spec => []DecisionsEarned` |
| | `OrphansStayUndecided` | `Spec => []OrphanUndecided` |
| | `ProgressIsTold` | `Spec /\ []OneAtATime => []StepsTellProgress` |
| | `WorkflowIsImplemented` | `Spec /\ []OneAtATime => ImplementsWorkflow` |
| `AuthProofs` | `SessionsTypeCorrect` | `Spec => []TypeOK` |
| | `SpentStaysDead` | `Spec => []SpentIsDead` |
| | `InvalidationsHold` | `Spec => []InvalidationHolds` |
| | `SessionsStayEnded` | `Spec => NoResurrection` |
| | `CapKeptAlone` | `MCSpec => []SessionsCappedAlone` |
| | `PasswordFollowedAlone` | `MCSpec => []SessionsFollowPasswordAlone` |
| | `OthersKeptAlone` | `MCSpec => []RefreshKeepsOthersAlone` |
| `ClientProofs` | `ClientsImplementSessions` | `ClientSpec => Spec` |
| | `SignOutHolds` | `ClientSpec => []SignedOutStaysOut` |
| | `LoneClientsKeepSessions` | `ClientSpec => []LoneClientKeepsSession` |
| `AuditProofs` | `LinksStaySaved` | `Spec => []LinksSaved` |
| | `ForksComeOfOverlap` | `Spec => []ForksOverlap` |
| | `GuessesStayBounded` | `Spec => []GuessesBounded` |
| `ReceiptsProofs` | `ConfirmationsKept` | `Spec => []ScanConfirmKept` |
| | `OmittedFieldsKept` | `Spec => []OptionalFieldsKept` |
| | `JobsSettle` | `Spec => []Settled` |
| | `ScreensUseReceipts` | `ScreensSpec => Spec` |
| | `SentIsFiled` | `ScreensSpec => []FiledAsSent` |
| `TransactionProofs` | `VerdictsStay` | `TableSpec => DecisionFinalAlone` |
| | `ListsShowWhatIsSelected` | `ListSpec => []ListShowsSelection` |
| | `PartsAreIndependent` | `Spec => ListSpec /\ SettingsSpec /\ ModelSpec /\ EmployeesSpec` |
| | `SharedTablesTyped` | `Spec => []TypeOK` |
| `AdministrationProofs` | `AnswersAreStored` | `SettingsSpec => []AnsweredIsStored` |
| | `WizardSetsUp` | `SettingsSpec => []CompletedIsSetUp` |
| | `KeysStayApart` | `ModelSpec => []KeyGoesToItsService` |
| | `OldPasswordsStayDead` | `EmployeesSpec => []OldPasswordStaysDead` |
| | `SavesWriteWhatTheyName` | `EmployeesSpec => UnnamedKeptAlone` |
| `RulesProofs` | `HoursAreRound` | `Spec => []HoursGoRoundTheClock` |
| | `VerdictsHaveWayOn` | `Spec => []VerdictHasWayOn` |
| | `TableLimitsKept` | `Spec => []LimitsOfTableKept` |
| | `RefusedWhenBlocked` | `Spec => []AllowedUnlessBlocked` |
| | `PriorityKept` | `Spec => []HigherPriorityFirst` |
| | `ChainsUnited` | `Spec => []ApprovalsComplete` |

`MCSpec` is `Spec` with a history variable, which remembers whether calls have
overlapped or one was lost; `Spec /\ []OneAtATime` are the executions of `Spec`
in which no call begins before another one has ended or died. The specifications
without fairness are the stronger claim for safety; those with fairness
(section 4) imply them.

What the modules assume of their constants, which TLC evaluates on the instances:

* `RoleOf` gives each employee a role, `Triggers` are those of the enum,
  `Amounts` are integers (`Approval`);
* the cap on sessions (`MAX_SESSIONS` in `auth.service.ts`), the limit of
  failed logins and the number of settings' categories are at least 1;
  `MaxFails`, `MaxEntries` and `MaxPasswords`, TLC's bounds, are natural numbers;
* there are finitely many logins in progress and finitely many rules in the
  table (`LimitAssumption`, `RulesAssumption`);
* `None` is neither a call nor a receipt (`NoneAssumption`);
* there can be a transaction, though there need not be one, and a page has room
  for one (`PagesAssumption`: `@Min(1)` of `PaginationDto`, and the apps ask for 20);
* purchases, policies and rules have the types of their interfaces and entities,
  with hours from 0 to 23 and amounts and distances in whole units
  (`CasesAssumption`), and `Part` and `Lower` are a relation and a function on
  names (`NamesAssumption`).

Hardly any of the properties is inductive: each speaks of tables or screens, and
what becomes of these is in the copies that calls hold. Each part has an
inductive invariant that says the missing part of the copies, one lemma per
action, and under it one step per part of the invariant that the action can
disturb.

**Approval.** `IInv == TypeOK /\ Coherent /\ Earned`. `Coherent` relates a
call's copy to the tables in what never changes: requester, number of steps, the
roles of the steps (or none, for a copy loaded before they were inserted), and
that only one call creates a request. `Earned` extends the properties to every
copy and to the columns it is about to write: whatever a copy claims (a step
approved, a current step reached, a final status) is backed by a recorded
decision of someone with the step's role, or by the passing of time. The argument is that
claims are stable: decisions are only added, roles never change, and time does
not go back. A claim that was backed when the copy was made is backed whenever
it is written, so overlapping writes can mix old and new columns freely, each
backed by itself. (This is also why the workflow is *not* safe against losing
decisions, which `approval_cancelled` shows.)

**Approval, one call at a time.** `SeqInv` says what overlapping would lose. A lone
call's copy is never stale: it equals the tables, but for the change that the
call is about to save (`Copied`), so that the SELECT of each save finds just
that change. The steps a creating call still has to insert are those of a chain
of the code (`OfAChain`). The step rows before the current one are approved,
those after it pending, and a final status agrees with the current row (`Told`);
as `processStep` saves the step first, a call that dies leaves at most the
current row ahead. The refinement follows: the tables of a request are read as a
`Ticket` (status, steps passed, length and roles of the chain), and each INSERT
or UPDATE of a request, and each insertion of its steps, is one step of
`ApprovalWorkflow`; every other step leaves the tickets alone.

**Sessions.** `SessionInv == TypeOK /\ SpentIsDead /\ EachSound /\ PairsApart`.
What could bring a session back is a late store, and the keys in Redis say
nothing of the families that calls are about to store. The invariant follows a
family from `randomUUID` on: until its call has stored it, it has no key, no
client holds it (`EachSound`), no other call has it and no list of keys to
delete contains it (`PairsApart`); and the token being exchanged for it has lost
its key. That `randomUUID` does not repeat itself (the guards of `Login` and
`Exchange`) is what all of it rests on.

**Sessions without overlap.** `AloneInv` adds to it what holds until calls
overlap or one is lost: what a call has counted is still so, and leaves room for
the key it is about to store once its victim or the presented token is gone
(`RoomMade`, whence the cap, and that a rotation evicts nobody); and what a call
holds stems from the password of now (`PasswordKept`, `Followed`), which a
password change makes true of the rest by ending every session.

**Clients.** Each step of a client is a step of the server's calls, or leaves
them alone, so what is proved of the sessions holds of the clients' too
(`ClientsImplementSessions`); none of it needs the bounds that TLC explores
within. `ClientInv` relates a request to its call (`Phases`) and a screen to the
requests that can be out (`Screens`); `SignedOutInv` lists where a user could
still be found after a sign-out: in the storage of a native client, and then
its removal is under way. No login is out then, because `signedOut` is set when
none is and reset when one begins; so every answer that is still to come puts
back tokens without a user. `LoneInv` is about the client that sends one request
at a time and loses nothing: its storage follows its memory, and whenever the
server is idle the refresh token in memory is live (`Undisturbed`). A rotation
deletes the old key before it stores the new one; the proof needs both
`SessionInv` (the family that is stored is new) and that the client's answer is
taken before anything else is sent.

**Login lock.** `LockInv` counts what is in progress: unless the account is
locked, the guesses answered are at most what the counter says and one for each
call that has counted past the limit (`OpenBounded`); once it is locked, only the
calls that passed the test of the lock before can still answer, and they are at
most all but one (`LockedBounded`).

**Audit log.** `ChainInv`: what `lastChecksum` holds, and what a row in the
making names as its predecessor, is saved (`LinksGoBack`), which holds since
`create` remembers after its save; and until a call has remembered its
checksum, nobody has named it (`Unlinked`, `Apart`), so that it becomes the
last one without successors.

**Receipts.** `ReceiptsInv`: in the scan flow nobody knows a receipt before its
job has saved its end (`ScanSound`), so the job's copies and those of
confirmations never exist at once; what confirmations write over one another is
then typed or read (`CallSound`). A job's copy carries a status, which ends
final whatever slipped in between (`StatusSound`). `ScreensUseReceipts` carries
this over to the users of the apps: each step with screens is a step of
`Receipts`, or leaves it alone. `FiledInv` adds what a React Native user
knows: receipts whose jobs are over (`KnownIsOver`), so that nothing but a
confirmation can change them; and, unless an answer was given up (`late`), the
confirmation in progress is the one the form waits for, with what it sent, or
with what was read where that was blank (`FormSound`, `Awaited`).

**Transactions.** `DecisionInv`: whoever holds a copy of a transaction that is
decided loaded it while the deciding call was in progress, so the two have
raced (`OthersRaced`).

**Lists.** `ListInv`: what the dashboard has cached under a key was fetched for
it (`CachedByKey`). Of Flutter's screen, while nothing has come between: at
most one page is on its way, it is the one after those shown, for the filter
shown, and the screen waits for it (`InOrder`); so the pages are appended in
order, each once. That pages put together are the head of the selection needs
`Ordered` to enumerate what is selected without gaps or repetition
(`OrderedSelects`, from `KthSelected`) and the page count to be the quotient
rounded up (`TotalPagesBound`).

**Shared tables.** Each step of `SharedTables` changes the variables of one part
only (`PartsAreIndependent`), so that the theorems of the parts carry over, and
`SharedTablesTyped` is their type invariants taken together.

**Settings.** `SettingsInv`: what a save has written of its fields is stored,
as sent if it was alone, and not blank in any case (`WrittenSoFar`). Nothing
empties a setting, so what is set up stays set up, and the steps before the one
a wizard shows are (`StepsSetUp`). The endpoint is another matter, because the
provider that requires it may be overwritten by one that does: a provider of
one's own that is stored without it was written by a save that has still to
write the endpoint, or by one that failed (`ProviderPlaced`). An answered save
that nothing overlapped ends that, having stored both or another provider.

**Language model.** `ModelInv`: the two fields agree about the place
(`FieldsAgree`), because `createProvider` throws before either is assigned.

**Employees.** `RowsInv`: a password that a call carries is its own, neither in
the row nor in another call, because a loaded copy has none. `SavesInv` adds
that a call that was alone holds the row as it is.

**Verification.** `VerdictInv`: a verdict is `verify` of the purchase and the
policy. The rest is about operators: the test of the hours, in its two cases, is
one comparison modulo 24 (`WithinGoesRound`); the checks that flag a purchase are
the ones that `detectApprovalTriggers` has a trigger for.

**Policy engine.** `EngineInv`: every rule in force that matches has had its say
or is still in the queue, and the queue is ordered by priority (`Queued`); whoever
has had his say matched (`HadSay`); what blocks ends the evaluation (`Outcome`).
`RequiredInv` adds that the approvals required so far are those of the chains of
the matched rules, each once. The loop that merges a chain is a fold; that it
adds just the roles of the chain is proved for chains of any length from the
equation of the fold: a set of naturals has a least element, so there would be
a shortest prefix of the chain for which it fails.

## 6. Model-checked only

Liveness: `CallsAnswered`, `JobsEnd`, `LockEnds` and `SpinnersEnd` rest on
fairness (section 4), which the prover does not handle, and are checked on the
instances only. So are, of course, the four violations.

## 7. Not modelled

* Notifications: no code calls `createAndSend` or the `notify` methods, so the
  table stays empty and no event is sent. A model would have states in which
  the program never is. The screens that wait for those events (result screens,
  the dashboard's alerts) are for the same reason not reached, and left out.
* Location, health, statistics, dashboard queries: one query or one
  external call each, no state between two of them.
* The comparison with the current password, by which `changePassword` refuses a
  call: `UpdatePassword` may change it for anybody who is signed in, which allows more.
* `testConnection` of the settings and the encryption of a value: an external
  call and a library's cipher.
* The dashboard's pages of employees, policies and approvals, whose requests
  name routes that the server does not have (section 8).
* Rendering, shared types, migrations, deployment files.
* A role that changes while an access token is out: the approval model takes
  roles as constant, as the token does for its hour.
* Contents of columns, checksums, tokens and messages beyond what the
  properties tell apart.
* What the code never does: an audit row for a refused login (guards run before
  interceptors), the resumption of a recognition job after a restart, a call of
  `verify`, `evaluate` or `createFromReceipt` (which `CreateFromReceipt` leaves
  possible for the lists).

## 8. Seen while modelling

What the code does otherwise than its reader may expect, where no text of the
repository promises more, or a single call shows it, so that it is no finding;
each is in the models as it is, unless they leave the part out.

* *Dashboard against server.* Transactions are approved and rejected by PATCH,
  where the server has POST, and flagged by a route that it does not have: 404.
  The page of employees updates by PATCH where there is PUT, and expects a page
  where the server answers with an array. Of the policies' six requests the server
  has one (POST). The socket joins the root namespace, the server has
  `/notifications`; `activeAlerts` is always empty.
* *Transactions.* Filters that the DTO does not know are refused. React
  Native's screens take the envelope for the page. Flutter's list skips a page
  whose request failed, and appends a late page of one filter to the list of
  the next.
* *Clients' sessions.* React Native keeps the used refresh token, and its
  second rotation raises the reuse alarm, which ends all sessions of the
  employee; so do parallel requests of Flutter. The dashboard's rotation never
  succeeds. An administrator who sets an employee's password ends none of his
  sessions. Flutter's login form is submitted again by the keyboard while it
  loads (`login_screen.dart:100`), and the answer of the second login, if it
  comes after a sign-out, signs the user in again (`auth_provider.dart:49-57`).
* *Receipts.* In the upload flow a failing recognition writes over what was
  confirmed meanwhile. An address or a date that the user blanks is kept as it
  was read (`receipts.service.ts:117,121`); a VAT that he blanks is sent and stored as
  0, and one that is no number is sent as null and kept. React Native's `popToTop` does nothing on a screen that
  has replaced the others.
* *Settings.* A blank field is left out of a save, so a stored value cannot be
  taken back. A reload after a save writes over what is being edited. A saved
  port is text, which the test of a connection refuses. Overlapping saves of one category mix, or the
  slower fails on the unique key. A save of llm that fails half way may leave a
  provider of one's own without its endpoint (`settings.service.ts:70-73`), also
  after the wizard has said that everything is set up. What the wizard stores of the language model
  is not read by the service, whose choice lasts until the server stops.
* *Employees.* An update that names a password and overlaps the removal of the
  employee inserts him again. A card policy is unique in a synchronised schema
  and not in the migrated one.
* *Verification.* `policy-violation.e2e-spec.ts` expects more of `verify` than it
  does: it has a category refused that is blocked for the whole company though the
  policy's list of categories is empty (lines 39-68), which the category check
  passes, since only `evaluate` knows such blocks; and one of its titles (line
  190) has a warning from 500 m to 2 km, where the location check warns up to
  1000 m. No run is about these two: each is a single call.
* *Roles.* Rotation copies the role of the old token into the new one.
