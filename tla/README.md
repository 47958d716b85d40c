# Home Land: verification of the API

TLA+ models of the state-changing parts of the Home Land API
(`src/apps/api`), checked with TLC on small instances and, where it matters
most, proved with TLAPS for all of them.  Paths below are relative to the
repository; RR stands for
`src/apps/api/src/modules/rent/infrastructure/rent.repository.ts` and SR for
`stripe.repository.ts` beside it.

## The system

One NestJS process serves HTTP requests; all durable state is in PostgreSQL,
reached through Prisma.  There is no worker: the outbox table is written and
never read by this repository.  Whatever runs concurrently are requests, each
one or two interactive transactions at READ COMMITTED (no isolation level is
set anywhere), plus the payment provider, which calls back.

| Part | State | Operations | Hard behaviour |
|---|---|---|---|
| Rent books (`modules/rent`, RR) | obligations with status and version, payments, refunds and their allocations, ledger entries, reconciliation items | charge, pay, refund, resolve; snapshot, trial balance and summary read | optimistic locking over rows read earlier, idempotency keys, several writes that must agree |
| Online payment (SR, `stripe.service.ts`, `stripe-gateway.service.ts`) | intents and their allocations, webhook events | create an intent (prepare, call the provider, persist), process an event | at-least-once, reordered, concurrent deliveries; a crash between the provider and the database |
| Leasing (`modules/leasing`) | tenants, leases, unit occupancy, invitations of tenants | create and invite a tenant, accept; draft, validate, activate, mark for renewal, terminate | one active lease per unit under concurrent activation, a unit released before its lease is checked, a charge that overlaps a termination |
| Maintenance (`modules/maintenance`) | requests with status and version | create, triage, assign, complete, verify, close | a version compared and then not used in the update |
| Accounts and sessions (`modules/identity`, `infrastructure/session`) | users, passwords, tokens, sessions | register, verify, log in and out | tokens raced, replaced, expired or lost in the mail |
| Organizations and invitations (`modules/organization`) | organizations with their progress, memberships, invitations | create, configure, invite, accept, activate | readiness evaluated over many tables and committed on one version; double acceptance |
| MFA enrollment (`modules/identity`) | enrollments with attempts, factors | begin, confirm, acknowledge | attempts at their limit, a confirmation overtaken by an acknowledgement, two organizations of one owner |
| Portfolio (`modules/portfolio`) | properties, buildings, units | foundation, create, import | imports raced by other units |
| Contact, web application, prototypes | none that the API relies on | | not modelled |

They interact through shared rows: rent obligations belong to leases and are
charged only while the lease is active; payments at the desk and online write
the same obligations; every write asks for an active workspace, which
onboarding produces; MFA enrollment, the portfolio's foundation and the
activation move one row, the onboarding progress, which is their only lock; MFA
confirmation replaces the session it was sent with; leasing occupies the units
of the portfolio, and both charges and maintenance requests read its rows
without locking them.

What makes each part correct: *rent books* - nothing is allocated, refunded or
charged twice or beyond what is owed, statuses are computed from current totals,
the ledger is derivable from the rows, retries post once; *online payment* - one
effect per intent, every collected amount posted, an intent of the provider
stored once; *leasing* - at most one active lease
per unit, an occupied unit has one, no step of a lease is lost or doubled, only
tenants who accepted are let in, only leases that held their unit are charged;
*maintenance* - every stage reached was earned, and a closed request is
read-only; *accounts* - a token opens one session, an address verified
keeps its password; *onboarding* - stages are entered one by one, each with what
it requires, and an owner who goes on gets there; *MFA* - guesses within the
limit, one active factor, a confirmation whole or not at all; *invitations* -
one member of one invitation; *portfolio* - units are those of the requests on
record, an import in whole or not at all.

## Modules

| Module | What it is |
|---|---|
| `UnitSums` | sums of natural-valued functions over finite sets, as the code's `reduce`; `UnitSumsProofs` proves the laws used below |
| `RentAccount` | abstract: due, received and returned per obligation, one return at a time |
| `RentLedger` | RR's writes with their races, retries and failures |
| `StripeRent` | extends `RentLedger` with intents, provider and deliveries |
| `RentLedgerProofs`, `RentSafetyProofs`, `RentBooksProofs` | theorems about `RentLedger`: types, locking, and what the books say |
| `StripeRentProofs` | theorems about `StripeRent` |
| `LeaseLifecycleProofs`, `MaintenanceProofs` | theorems about `LeaseLifecycle` and `Maintenance` |
| `Occupancy` | abstract: who holds a unit, who has left, who was billed |
| `LeaseLifecycle` | tenants, invitations, leases, units, and the charge's view of a lease |
| `Maintenance` | extends `LeaseLifecycle` with maintenance requests |
| `Accounts` | users, registrations, sessions |
| `Organizations` | extends `Accounts` with organizations, their progress, members and invitations |
| `MfaEnrollment`, `Portfolio` | each extends `Organizations` |
| `OnboardingPath` | abstract: the stages of an organization and what each brings |
| `Workspace` | composes the four above, with readiness and activation |
| `WorkspaceProofs` | theorems about `Workspace` and the modules it composes |
| `MCRentLedger`, `MCStripeRent`, `MCOperations`, `MCWorkspace` | small instances |

### How RentLedger corresponds to RR

A request in service has a `stage`, its input `req` and what it has read,
`seen`.  `Begin` is membership and idempotency lookup; `LoadPayment` and
`CheckPayment`, `LoadRefund`, `LoadRefundVersions` and `LoadRefundTotals`, and
`LoadItem` are the reads of recordPayment, recordRefund and
resolveReconciliation; `CommitCreate`, `CommitPayment`, `CommitRefund` and
`CommitItem` are all their writes; `Recover` is the lookup after a unique
violation; `Abort` is any other failure.

* The writes are one step although they are many statements.  At READ
  COMMITTED nobody sees them before the commit, rows they update stay locked
  to its end, and a conditional `updateMany` that had to wait evaluates its
  condition again.  The order in which the rows are locked is unspecified, so
  two requests may deadlock; the database then aborts one, which is `Abort`.
* The reads are separate steps where the statements are separate.  The schema
  enables no relation joins, so Prisma loads a nested relation by a statement of
  its own, siblings in the order of the selection.  Two pairs of statements are
  one step each.  The payment's line and its refunds (RR:687-723): the line of a
  payment never changes once it is written.  The allocations of an obligation
  and their refunds, in `LoadRefundTotals`: they are read after its version, so
  whatever comes between the two moves that version, and the commit, which tests
  it, writes nothing.
* Sums are those of the code: `Gross` (recordPayment) ignores refunds, `Net`
  (recordRefund, the webhook) does not.
* A checked condition is evaluated when its data is read.
* Preconditions, not modelled here: the lease is active and covers the period,
  the workspace is active.  Memberships do not change; the code has no
  operation that changes one.
* Audit events, outbox messages and receipts are written in the same
  transaction and read by nothing; they are left out.  Amounts are unbounded:
  the column is 32 bits wide and the insert of a larger sum fails, an `Abort`.
* Identifiers are picked from finite sets, large enough that no run can use
  them up, so a write is never blocked for want of one.

### How StripeRent corresponds to SR

`Prepare`, `PrepareAllocations`, `PrepareRefunds`, `CallProvider`, `LookupIntent`
and `InsertIntent` are the steps of createIntent; `Deliver`, `LoadIntent`,
`LoadIntentVersions`, `LoadIntentAllocations`, `LoadIntentRefunds`, `PostIntent`,
`UpdateIntentStatus` and `IgnoreEvent` those of processWebhook.  Allocations and
their refunds are separate statements, and here nothing tests afterwards whether
they belong together (prepare runs outside a transaction, the webhook ignores its
versioned update), so `rows` holds the payments found by the first until the
second adds up what is left of them (`NetOf`).  `ProviderStep`, `CollectElsewhere` and `Issue` are
external: an intent is paid only after the API handed out its client secret,
the same key gives the same intent and is refused for another amount, events
are objects that may be delivered at any time and any number of times,
`CollectElsewhere` is an intent of the same account that the API did not make,
and `Subscribed` are the event types the endpoint is registered for.
`RepeatEvents` allows two event objects about one fact.  The unique event
identifier makes a second delivery of the same event wait for the first
(`NotBeingProcessed`).  A stored intent always starts as
REQUIRES_PAYMENT_METHOD because the provider repeats its first response.  The
lookup and the insert of a key differ in their answers, which the model leaves
out; that a retry can be refused by `Prepare` before its key is looked up is
visible as a request that leaves no trace.

`PostIntent` has no path for a unique violation inside the posting.  Beside the
event's own row, only the receipt number (SR:331-337) could violate one, and
SR:368-370 would then answer the delivery as a replay although it was rolled back;
the number is the last sixteen characters of the event's identifier, which the model
takes to differ as the identifiers do.

### How the other modules correspond to the code

A request in service (`call`, for maintenance `desk`) is again a stage, its input
and what it has read.  `Begin...` is everything up to the last statement whose
result the writes rely on without testing it again: guard, role, key and checks.
`Commit...` is the writes, in one step for the reasons given above, with the
conditions the `updateMany` statements repeat and the unique indexes, the partial
ones of the migrations included: one ACTIVE lease per unit, one ACTIVE factor per
user, one open invitation per organization and address.  `Leave` and `Abandon`
are every way a request ends without a trace: refused, rolled back, or dead with
its process.  What is assumed about data:

* A request stands for its key, its scope and its body: a command is filed under
  its key, and `Request` says what each kind of request of the onboarding carries
  once its DTO is validated (`WorkspaceAssumption`).  Replays and conflicts are answered from the record and change nothing; the expiry of
  records (24 hours) is left out.  A slot is unique, so a commit requires
  `Recorded(q) = {}`.
* Identifiers and tokens are random, so it does not matter which unused one is
  taken (`New`).  If none is left, the request cannot commit; `Exhausted` says so
  where a liveness property depends on it.
* Time is the order of events: a challenge, invitation, enrollment or session
  expires at any moment, and a session is `fresh` while its owner counts as
  recently authenticated.
* Mail is sent after the commit and not awaited.  `SendMail` puts the token into
  `mailbox`; `Leave` at that point loses it, and only tokens in the mailbox are
  ever presented.

*LeaseLifecycle* (`leasing.repository.ts`): `CheckStep` separates the reads of
tenant and unit from that of the lease.  Terms are numbers, checked as in the
service; dates are their difference in days.  `BeginCharge` and `CommitCharge`
are rent.repository.ts:292-427, of which only the lease's status matters here:
the charge reads it without a lock, so it may commit after the termination.
`ImplementsOccupancy` states what holds all the same: a lease is charged once and
only if it has held its unit, units change hands through an empty unit, and a
lease that left does not return.

*Maintenance* (`maintenance.repository.ts`): `CommitTransition` updates by the
identifier alone, as line 276 does; the stage it writes comes from the row it
read.  By this race a request goes back to an earlier stage, a closed one
included, against the documents: `VClosedIsReadOnly`.  What holds in spite of it
is that no stage is reached unearned (`StagesWereEarned`) and that the version
counts every transition, so that a version that still matches was read after the
last one (`VersionCountsTransitions`); the theorem `RegressionIsStale` adds that
only a stale reader takes a request back.

*Accounts* (`identity.repository.ts`, `login-user.service.ts`,
`session.repository.ts`): a registration mails a temporary password with its
token, and one identifier stands for both.  `CommitRegistration` relies on the
status read in `BeginRegistration`; a registration begun while an account was
pending replaces the password of the account verified since, which
`VVerifiedKeepsPassword` shows, and the theorem `StaleRegistrationsAlone` says
that nothing else does.

*Organizations* (`organization.repository.ts`, `invitation.repository.ts`,
`organization-membership.guard.ts`): `Passes` is the guard.  The version of the
progress is the number of its stage, since every transition increments it once.

*MfaEnrollment* (`mfa.repository.ts` and its three services): an enrollment and
its factor share an identifier.  `CommitNextEnrollment` may or may not see an
enrollment that another transaction is adding.  `CommitConfirmation` does not
test the onboarding state again, and `CommitAcknowledgement` not the factor's
status.  The expiry of an enrollment is tested when it is read only.

*Portfolio* (`portfolio.repository.ts`, `import-units.service.ts`): a file is a
set of rows; the unique index of (property, unit code) refuses all rows or none.
The service folds codes to lower case and the index does not: `Fold`.

*Workspace* (`onboarding.repository.ts`): readiness, and the composition.
`AdmittedStatuses` is the one condition of the guard that is a parameter:
`{"ACTIVE"}` is the guard as shipped.  Under it nothing behind the guard is
reachable for a new organization, as `VOnboardingProceeds` shows, and the
transactions behind it would be checked for nothing; MCWorkspace therefore admits
`{"ONBOARDING", "ACTIVE"}`.  A wider guard only adds behaviours, so the safety
properties and the refinement checked there hold of the guard as shipped all the
more, and the proofs are for any `AdmittedStatuses`.  Liveness is another matter:
it is checked with the shipped guard alone, and fails.

## Runs

| Run | Instance | Shows |
|---|---|---|
| MCRentLedger | 3 obligations of 2 tenants, rents 2, 2 and 1, 3 members of 3 roles, 3 keys, 2 payments, 2 refunds, 2 requests at a time | types, `NoOverAllocation`, `EffectsAreKeyed`, `AnswersAreTrue`, `SafetyInv`, `LedgerAgrees`, `ChangesMoveVersion`, `StatusesAreCurrent`, `ImplementsAccount`, `ResolutionIsFinal` |
| MCStripeTwo | 2 intents for one obligation, 2 events, 2 deliveries at a time | types, `PostedAsCollected`, `OneEffectPerIntent`, `LedgerAgreesWithCredit`, `PaidIntentIsFinal` |
| MCStripeProgress | 1 intent asked for by 2 members, payments at the desk, failing deliveries, fair redelivery | `LedgerAgreesWithCredit`, `IntentsAreStoredOnce`, `CollectedIsPosted` |
| MCOperations | 2 leases of 1 unit, 1 tenant, 4 members of 4 roles, 2 requests at a time; 1 maintenance request, 2 at a time | types, `OccupiedMeansLeased`, `StepsRecordedOnce`, `LeasedToWillingTenants`, `ImplementsOccupancy`; `StagesWereEarned`, `VersionCountsTransitions` |
| MCWorkspace | 2 users, 2 registrations, 3 sessions, 2 organizations, 2 invitations, 2 enrollments of 2 attempts, 3 unit codes, 2 requests at a time | types, `TokensAreSpentOnce`, `InvitationsAdmitOnce`, `ConfirmationsAreWhole`, `UnitsFollowRecords`, `ProgressIsEarned`, `ImplementsPath` |

MCOperations explores leasing or maintenance in a behaviour (`focus`): maintenance
reads the tenants alone, so a product of the two would show nothing more.
Versions named by clients are those a snapshot can have shown, which includes stale
ones; the version of a maintenance request ends at 7 (`MaxVersion`), one more
than an undisturbed request needs, so that one regression and its repair fit.
MCWorkspace races one part of the way in a behaviour (`part`); what has to come
before is asked for one request at a time.  Two organizations and two enrollments
are what it takes for one owner to displace a factor; two invitations of one
address, of different roles, for an invitation to be replaced while it is
accepted; two attempts for the limit (five in the code) to be met by two raced
guesses; three imports that clash in whole, in part, in lower case alone and in
their building.  Both runs come to rest when keys, identifiers or stages are used
up, so deadlock is not checked there.

MCRentLedger explores one of three workloads in a behaviour (`workload`): payments
of one or both obligations of a tenant, with attempts to pay another tenant's
with them; payments and refunds of one obligation; and every kind of request
under one key, with reviews by two members.  Their product is beyond TLC.  In the
last a request names the payments and items there are, once there is one.
In MCStripeProgress two members send an intent's creation under one key, fail and
send it again, before and after the payments at the desk: the provider gives
another key another intent, so one key is where they meet.

Two concurrent requests are enough for the races: a commit depends on what one
request read and on what one other committed in between, and keys and
identifiers outlive requests, so that longer histories are sequences of pairs.
Two keys allow a retry and an unrelated request; rent 2 allows partial, full and
excessive amounts; two payments and two refunds allow every order of paying,
refunding and paying again.  A joint payment races another and a payment of
either of its obligations, so that it fails in one part or in both.
Clients, keys and identifiers are interchangeable in every property, so their
permutations are symmetries (in MCRentLedger the key of the charges is not
exchanged with the others); the runs with liveness properties use none.

Identifiers of payments run out only after every key was used, and then
retries are still answered, so nothing stops and deadlock is checked in the runs
of the rent books and of online payment.

### Fairness

`StripeFairSpec` assumes what the provider documents and the webhook relies
on: a success is issued as an event and delivered again until confirmed
(strong fairness of `Deliver`), and a step tried again and again does not fail
every time (strong fairness of each step of a delivery).  Nothing is assumed of
other events or of intent creation.
`MCFairness` is the fairness of the run `VOnboardingProceeds` alone.  It concerns
the part "owner", where one owner takes an organization through onboarding while
wrong codes are raced against the enrollment, and is generous, so that its failure
is not one of scheduling.  It assumes that the owner goes on asking for what is useful next (strong
fairness of `OwnerAsks`, as what is useful may come and go), that the API serves
a request it has begun (weak fairness of `OwnerServed`), and that not every
attempt dies with its process (strong fairness of `OwnerGets`, once an account
and an organization exist).  Mails, expiries and other requests are not assumed.
The property allows for an identifier that has run out and for a factor displaced
by the same owner's other confirmation; the counterexample needs neither.

### What the code does not do

Seven runs end in a counterexample and show where the program departs from what
its own texts say.

* `VNoOverRefund`: a refund that commits between the read of the refunded amounts
  (RR:695) and the read of the obligation's version (RR:700), which are separate
  statements, is not noticed; the line is refunded twice.
* `VOpenCanBePaid`: recordPayment counts all that was ever allocated (RR:486), so
  a refunded obligation is reopened and then refuses payment.  By the same sum
  an obligation paid after a partial refund becomes PAID although part was
  returned (RR:527), and the snapshot's outstanding amount (RR:212) differs
  from the ledger's receivable after any refund.
* `VNoOverCollection`: the webhook ignores the count of its versioned update
  (SR:288) and allocates on stale totals.
* `VOneEffectPerIntent`: two event objects about one success post twice when
  they are processed at the same time, as SR:347 updates the intent by its
  identifier only.
* `VOnboardingProceeds`: the guard of a workspace admits members of ACTIVE
  organizations (`session.repository.ts:58`) and protects the configuration, the
  foundation and the activation of organizations, all of which ask for one in
  ONBOARDING; no new organization passes its first stage over HTTP.
* `VClosedIsReadOnly`: a transition of a maintenance request that read it early
  commits late (`maintenance.repository.ts:276` names no version) and takes a
  request that is CLOSED back to an earlier stage.  Closed requests are read-only
  and concurrent updates require version validation, say `09_STATE_MACHINES.md`
  (line 382) and `11_DATABASE_ARCHITECTURE.md` (line 231).
* `VVerifiedKeepsPassword`: a registration that read a pending account writes its
  password by the user's identifier (`identity.repository.ts:56`) after the address
  was verified.  Registration and verification resist race conditions, says
  `docs/THREAT_MODEL_ONBOARDING.md` (line 14).

## Proofs

TLAPS checks the theorems below for any values of the constants that satisfy the
assumptions the modules name; TLC evaluates the same assumptions in the runs.

| Theorem | States |
|---|---|
| *RentLedger* | |
| `TypeCorrect` | `Spec => []TypeOK` |
| `LockingIsSound` | `Spec => []SafetyInv`, inductive |
| `NeverOverAllocated` | `Spec => []NoOverAllocation` |
| `ItemsAreResolvedOnce` | `Spec => ResolutionIsFinal` |
| `PostingsMoveVersions` | `Spec => ChangesMoveVersion` |
| `BooksAgree` | `Spec => []BooksInv`, inductive |
| `LedgerIsDerivable` | `Spec => []LedgerAgrees` |
| `KeysPostOnce` | `Spec => []EffectsAreKeyed` |
| `AnswersCanBeTrusted` | `Spec => []AnswersAreTrue` |
| `StatusesNeverStale` | `Spec => StatusesAreCurrent` |
| `RentImplementsAccount` | `Spec => ImplementsAccount` |
| *StripeRent* | |
| `OnlinePaymentAgrees` | `StripeSpec => []StripeInv`, inductive |
| `StripeTypesCorrect` | `StripeSpec => []StripeTypeOK` |
| `PostedIsCollected` | `StripeSpec => []PostedAsCollected` |
| `LedgerIsDerivableWithCredit` | `StripeSpec => []LedgerAgreesWithCredit` |
| `OneEffectUnlessRepeated` | `RepeatEvents = FALSE => (StripeSpec => []OneEffectPerIntent)` |
| `PaidIsFinalUnlessRepeated` | `RepeatEvents = FALSE => (StripeSpec => PaidIntentIsFinal)` |
| `StoredOnce` | `StripeSpec => []IntentsAreStoredOnce` |
| *LeaseLifecycle* | |
| `LeasingIsSound` | `Spec => []LeaseInv`, inductive |
| `LeasingTypeCorrect` | `Spec => []LeaseTypeOK` |
| `UnitsAgreeWithLeases` | `Spec => []OccupiedMeansLeased` |
| `HistoriesAreComplete` | `Spec => []StepsRecordedOnce` |
| `TenantsAgreed` | `Spec => []LeasedToWillingTenants` |
| `LeasingImplementsOccupancy` | `Spec => ImplementsOccupancy` |
| *Maintenance* | |
| `MaintenanceIsSound` | `MaintenanceSpec => []MaintenanceInv`, inductive |
| `MaintenanceTypeCorrect` | `MaintenanceSpec => []MaintenanceTypeOK` |
| `NoStageIsSkipped` | `MaintenanceSpec => []StagesWereEarned` |
| `VersionsCount` | `MaintenanceSpec => []VersionCountsTransitions` |
| `RegressionIsStale` | `MaintenanceSpec => OnlyStaleReadersRegress` |
| *Workspace* | |
| `WorkspaceIsSound` | `Spec => []WorkspaceInv`, inductive |
| `WorkspaceTypeCorrect` | `Spec => []WorkspaceTypeOK` |
| `TokensSpentOnce` | `Spec => []TokensAreSpentOnce` |
| `StaleRegistrationsAlone` | `Spec => OnlyStaleRegistrationsReplacePasswords` |
| `InvitationsAdmit` | `Spec => []InvitationsAdmitOnce` |
| `ConfirmationsWhole` | `Spec => []ConfirmationsAreWhole` |
| `UnitsFollow` | `Spec => []UnitsFollowRecords` |
| `ProgressEarned` | `Spec => []ProgressIsEarned` |
| `ImplementsOnboardingPath` | `Spec => ImplementsPath` |

### The rent books

Any finite sets of obligations, payments and refunds, any clients, members, keys
and requests, any rents and amounts.  Assumed are `SetsAssumption` (the sets are
finite; no identifier names rows of two kinds), `RentAssumption` (a rent is at
least one minor unit), `RequestsAssumption` (the service's validation: a payment
or refund names a line) and `RoleAssumption`.

*Sums.*  `UnitSum` counts units instead of recurring, so that the provers can
reason about it: `UnitSumsProofs` shows that it is a natural number, zero on a
table of zeros, monotone and additive, and that changing one entry changes it
by as much.

*Locking.*  `NoOverAllocation` is not inductive: a commit relies on a check
made earlier.  `SafetyInv` adds what is true in between (`ReadingOK`).  A request
has read no version that does not exist yet; and what it checked is still true
of every obligation whose version is the one it read.  A posting keeps this
for the other requests (`OthersStillRight`), because it moves the version of
every obligation it changes and versions never go back, so an obligation with
the version read has been left alone since.  The commit's conditional update
(`Unchanged`) then turns the check made earlier into one made now.  The rest of
`SafetyInv` is that rows not in use hold nothing and are under no review
(`UnusedIsEmpty`; a new row adds exactly its amounts to the sums, `GrossGrows`
and `RefundedGrows`) and that an obligation not charged has version 0
(`AbsentIsNew`; its insert is a move of the version too).

For refunds the same argument needs the versions to be read no later than the
refunded amounts.  They are read after them, so `NoOverRefund` fails, which
`VNoOverRefund` shows.  What is left of the check is `RefundFitsLine`: the payment
exists, and one refund alone is within its line.

*Books.*  `BooksInv` is what the agreement of the tables needs beside the
properties themselves.  Records have to describe their rows (`RecordsDescribeRows`:
a key found again is answered by a row with the body it asked for), and a refund
in service has to name a payment that allocated to what it refunds
(`RefundsWhatWasPaid`).  `TotalsStillTrue` is `ReadingOK` again for the totals a
status is computed from: not that they suffice, but that they are equal to the
present ones while the version stands.  Unlike the refunded amounts of a line these
are read after the version, so this part holds of recordRefund too.

*Statuses.*  `StatusesAreCurrent` follows from it: a commit finds the versions it
read, so the totals it computes the status from are those it adds to.  It says what
each operation's own rule is, of the totals after the step: all that was allocated
for a payment, the net for a refund.  That the two rules disagree, so that an
obligation paid after a partial refund is PAID with part of the rent returned, is
`VOpenCanBePaid`.

*Refinement.*  `RentImplementsAccount` maps each commit to a charge, a receipt or a
return of the amounts it posts, all of them at once, and every other step to none.
A receipt is bounded by `NoOverAllocation` in the state after it, a return by
`RefundFitsLine` and the sum its line is part of.  The abstract account bounds each
return and not their sum, because two raced refunds exceed what was received.

### Online payment

Beside the assumptions about rent, `StripeAssumption`: a request for an intent
names a line (the service's validation), and the endpoint is registered for
successes.  Any intents, events, deliveries at a time and subscriptions; the
provider is trusted with what the code trusts it with, that it does not take a
success back.

Not every fact about the rent books survives the webhook: `PostIntent` writes an
allocation whether or not the version still is the one it read, and records no
key, so the locking part of `SafetyInv` fails here, and with it `NoOverCollection`
(the run `VNoOverCollection`), and what `BooksInv` says of keys and totals.  `RentBasics` is the part that the proofs about rent keep without them, and `RentKeepsBasics` carries it over the steps
of the rent requests, whose lemmas ask for no more than it.

`StripeInv` then says of each object what its next handler relies on: a request
in service asks to pay what was charged (`CheckoutOK`; a charge is never taken
back), a stored intent has the provider's amount (`IntentOK`), an issued success
is one the provider still stands by (`EventOK`), a delivery past its first read
has the success of an intent that is stored (`HookOK`).  None of these is
disturbed by the others' steps, because of what no step takes back (`Kept`), so
for each action it is enough to look at what it writes (`Advances`,
`AdvancingKeeps`).  `EntriesBalance` is double entry over the three accounts and
the tenants' credit: with `LedgerAgrees` it gives the credit.

That an intent is posted once is not a matter of the intent: `processWebhook`
reads it before it posts and its update has no condition.  What keeps a second
delivery out is the unique identifier of the event's row.  `OnceInv` therefore
follows the events: one object for one fact, one delivery at a time for one
object, so whatever has read an unpaid intent is alone with its success.  The
theorems are stated for a provider that issues one object for a fact
(`RepeatEvents = FALSE`); for one that repeats itself `VOneEffectPerIntent` is
the execution that posts twice.

`KeyInv` carries the storing of intents: a checkout past the provider's answer holds
an intent of its own key (`KeyOK`; the provider never gives an intent another), and
each stored intent has one key on record.  Two checkouts may hold the same intent,
of one key and of two members; the unique indexes that `InsertIntent` tests keep the
second out.

### Leasing

Any tenants, units, leases, members, keys and handlers; terms and requests as the
service validates them, identifiers of tenants and leases distinct
(`LeasingAssumption`).  `OccupiedMeansLeased` rests on what a request in service
knows and no other can take away (`ServiceOK`): the unit and the tenant of a lease
never change once it exists, a tenant who accepted remains active, and a lease
that held its unit has it or has left it (`Kept` is what no step takes back).  The
versions follow the statuses (`RowsOK`), so an update conditioned on either is
conditioned on both; termination, which frees the unit before it tests its own
lease, is sound because the test fails the whole transaction.  Counting is turned
into "there is exactly one" (`Sole`) for the induction and back for the theorems.
In the refinement the holder of a unit is the one active lease.

### Maintenance

Any requests, members served at the same time and bound on the versions.
`MaintenanceInv` says of a reader in service (`DeskOK`) that the version it read
is not ahead of the row, that a row of the same version is the row it read, and
that the stage it read was earned; the commit, which tests nothing, then keeps
`StagesWereEarned` because records are only added.  How far the lost update goes
(`OnlyStaleReadersRegress`) follows: a reader of the present row moves it forward
or leaves it.

### From a registration to an active organization

Any users, tokens, sessions, organizations, invitations, enrolments, unit codes,
requests and handlers, any limit of attempts, and either reading of the guard
(`AdmittedStatuses`).  Assumed are that a body was validated
(`WorkspaceAssumption`), that tokens of registrations and of invitations differ
and `NoValue` is none of the values (`OrganizationsAssumption`), that at least one
wrong code is allowed (`MfaAssumption`) and that folding a code gives a code
(`PortfolioAssumption`).  Nothing is assumed finite but the file of an import:
that there is at most one (of the open invitations, the factors in force, the
records of an activation) is stated by equality in the invariant and counted in
the theorems.

`WorkspaceInv` has one part for each table or group of tables, and one for the
requests in service:

* `TokensOK` and `SessionsOK`: the password on file was mailed with a token of the
  same address; a spent token was in the mailbox, made its account active and
  opened one session.  An address has one live token because the commit of a
  registration revokes the others of the row it writes, not because of what the
  registration read.
* `OrgsOK`: version, status and slug follow the stage.  This is why a condition on
  any of them is a condition on the progress.
* `InvitesOK`: one record per invitation, one open invitation per address, one
  accepted one per guest.  The index of the migrations counts expired
  invitations as open too, so the invariant does as well (`Waiting`).
* `MfaOK`: an enrolment is consumed exactly if it has its factor and its session,
  and the session's parent is revoked; a factor in force has no rival.
* `PortfolioOK`: the rows that the entries on record made do not clash and together
  are the units; a property came of a foundation.
* `ProgressOK`: what each stage requires, which no later request takes back.
* `CallsOK`: what each request has read and its writes do not test again
  (`Known`): that its session was opened, its organization, invitation or
  enrolment exists and is its own, its token was delivered, its rows are free of
  clashes among themselves and name buildings of the property.

The argument is that nothing in `Known` can become false.  `Kept` lists what no
step takes back, `KnowledgeLasts` derives that what a request knows outlasts the
steps of others, and every commit is shown to satisfy `Kept` along with the parts
of the invariant it writes; the parts it does not write stand by a lemma each
(`TokensStand`, `InvitesStand`, `MfaStands`, ...).  Whatever is *not* kept - a
pending enrolment, a live session, an open invitation, a free code, the stage -
does not appear in `Known`, and the commits that depend on it are sound only as far
as their conditional updates and indexes test it again.  The password of an
account is the exception the code makes: a registration relies on the status it
read, and `StaleRegistrationsAlone` says that this is the one way a verified
account is written.

In the refinement, one organization moves by one stage in a step (`StagesMove`),
and the invariant reads the factor, the property and the activation off the stage
(`StageTells`), so the abstract sets move with it.

### What is only model-checked

The liveness property `CollectedIsPosted`: fairness and
ENABLED are out of the prover's reach.  `OneEffectPerIntent` and `PaidIntentIsFinal`
are proved for a provider that does not repeat itself; that `OneEffectPerIntent`
fails for one that does is what `VOneEffectPerIntent` shows.  Every other property
of a passing run is a theorem for all values of the constants.

## Not modelled

* The answers of intent creation, and the reads of the accounting summary
  (RR:964), whose two statements may see different postings.
* The version of the terms a user accepted, users being disabled (no operation
  does it), the comparison of CSRF tokens, rate limits.
* The outbox and audit tables: written in the transactions modelled, read by
  nothing.  createLease writes one outbox message twice (leasing.repository.ts:397).
* The contact form forwards a mail and keeps nothing; the web application and the
  prototypes hold no state the API relies on.
* Cryptography, formatting and the parsing of CSV beyond what refuses a file.

## Plan

Modelled and checked, in the order of what rests on what: the rent books and
online payment, leasing and maintenance, the way to an active organization.
Proved: everything they are checked for but liveness.  Next:

1. The accounting summary's read skew.
2. Readiness that goes stale before an activation commits, and acknowledged factors
   that are displaced afterwards: no property speaks of them yet.
