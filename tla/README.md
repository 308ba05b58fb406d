# stellar-anchor: specifications, model checking and proofs

The Business Server of Slimepay's Stellar anchor pays naira for USDC and XLM. It stands
between SAP (the Stellar Anchor Platform, which owns the transactions), a MongoDB
database, core (Slimepay's payout backend, which sends naira through SafeHaven), Dojah
(KYC) and Horizon (the Stellar ledger). It holds no lock and uses no database
transaction: everything rests on the order of remote calls, each of which may fail or
lose its answer, and on records that are read, kept during such calls and written back
whole. That is what these specifications are about.

Paths below are relative to the repository. Every definition that models code is listed
in `PROJECT.json` under `map`, with the lines it stands for.

## 1. The system

### Components, state, operations

| Component | Code | State | Operations | Must hold |
|---|---|---|---|---|
| SAP and its client | `internal/sap/client.go` | transactions: status, memo, amounts, matched payments (at SAP) | list, get, `request_onchain_funds`, `notify_*` | external; statuses move only as SAP allows |
| Withdrawal service | `internal/withdrawal/service.go` | rate table | `Quote`, `Start`, `create` | one quote per withdrawal, the same in SAP, on record and on the page |
| Withdrawal store | `internal/withdrawal/store.go` | one document per withdrawal | `Create` (never replaces), `Get`, `Update` (replaces all), `FindByStellarMemo` | no stale copy undoes what matters |
| Processor | `internal/withdrawal/processor.go` | none of its own; the queue of a tick in memory | `Tick`: `startSep6`, `payOut`, `checkPayout`; `checkFunds`, `complete`, `fail`, `hold` | pay once, only what was funded, only where recorded; never end silently; never get stuck |
| Reconciler, completed | `internal/withdrawal/reconcile.go` | result on the withdrawal's record | `Tick`, `checkCompleted`, `compare` | a result is true, a mismatch is heard of once, every withdrawal gets one |
| Reconciler, incoming | same, `checkIncoming` | cursor | scan the distribution account's payments | no stray payment is passed over |
| Horizon client | `internal/chain/horizon.go` | none | `Transaction`, `IncomingPayments` | |
| Payout client | `internal/payout/client.go` | none | `Pay`, `Get`, `ResolveAccount` | a rejection is told from an error |
| Customers | `internal/customer/` | one sealed record per customer | GET, PUT, DELETE `/customer`; `settle`, `verify` | accepted means checked, as a whole, and complete |
| KYC | `internal/kyc/dojah.go` | none | `Verify`: `verifyBVN` or `verifyNIN`, `screen` | accepted means found and clean; no answer is not an answer |
| Interactive page | `internal/interactive/handler.go` | none | `submitIdentity`, `submitWithdraw` | prices only for a cleared identity; tells the user to pay only what SAP waits for |
| Alerts, audit | `internal/alert`, `internal/audit` | webhook; write-only log | | |
| Money | `internal/money` | none | `Parse`, `Format`, `Equal` | naira is never rounded up |
| Auth, secure, config, db, toml | | none | pure functions or set-up | |
| Server | `cmd/server/main.go` | | starts the goroutines | |

### Who runs next to whom

One process runs the processor goroutine, the reconciler goroutine and one goroutine per
HTTP request (the page from users' browsers, `/customer` from SAP). They share MongoDB and
SAP. `Service.Start` is called by the page (SEP-24) and by the processor (SEP-6).
Everything in memory is lost when the process dies; the next tick starts over from what
SAP lists.

### What is hard

* **Stale copies.** `Update` and `Save` replace the whole document by a copy read several
  remote calls earlier.
* **Lost answers.** SAP or core may have done what the caller believes failed.
* **Several writes that are one fact.** Hold and fail are a save, an alert and a call to
  SAP; starting is an insert, a call to SAP and a save; reconciling is an alert and a save.
* **Pages.** Lists are cut at 50, walks at 20 pages.
* **Protocols of status fields.** ACCEPTED can be reached without a KYC call, from
  NEEDS_INFO.
* **One record, two doors.** The page and SAP's `/customer` callbacks read and replace the
  same customer, and the page goes on into `Start` on the strength of what it saved.

The list of hazards, each at its line with the properties that cover it, is in
`PROJECT.json`.

## 2. Modules

```
Money <-------+
Platform <- WithdrawalService <- Processor <- Reconciler
                 ^      ^            ^
                 |      |            +---- ProcessorContract  (INSTANCE Lifecycle)
                 |      +---- Incoming
                 |
                 +.... Interactive  (INSTANCE)
                            |
Dojah <- Customer <---------+

MoneyProofs <- ServiceProofs <- ProcessorProofs <- ContractProofs <- ReconcilerProofs
                     ^
                     +---- IncomingProofs
Customer <- CustomerProofs <- InteractiveProofs -> Interactive
```

Each of Processor, Reconciler and Incoming EXTENDS what it runs next to and puts its own
steps beside the other's in its next-state relation, so every run interleaves real
neighbours. Interactive extends Customer and instantiates WithdrawalService with the real
customer records. Lifecycle knows none of them: it is the abstract specification that
ProcessorContract relates to Processor.

**Platform** (external). A transaction is a number, in order of creation; the memo SAP
gives to `t` is `t`. The operators say what each RPC does when it reaches SAP and which
statuses allow it. SAP's observer (`PaymentMatched`) may match *any* amount, asset and set
of Stellar transactions: the code claims to check them, so nothing is assumed. Operators
settle withdrawals that are on hold, by completing or refunding them
(`docs/TESTNET_RUNBOOK.md:171`). `PaysOnlyPending` depends on their touching no others:
`payOut` works from a list and does not read SAP again.

**WithdrawalService.** `call[c]` is where caller `c` is inside `Start`, with the record in
its memory. Steps: `FormOpen` (the page's session and lookup), `FormPut` (bank details),
`StartGet`, `StartCreate` (lookup, quote, bank account resolved by core), `StartInsert`,
`StartReget`, `StartRequest`, `StartUpdate`. Each has an alternative in which the call was
not carried out, and where the effect matters one in which only its answer was lost. The
customer may change in any way at any time; `FormPut`, a read and a save of the whole
record with other requests in between, may therefore leave any customer behind, and goes
on with the one it saved. A customer is three things here, each read by another part of the code:
whether the identity counts as verified (the form), whether the status is ACCEPTED
(`create`), and the bank account, which an accepted customer might still lack. `Restart`
forgets all calls and may bring another rate table.
`Worth` is the exact value of an amount in kobo, which the minimum is compared with;
`Payable` is what is left of it after `Format`, as in `Quote`.

**Money.** A decimal string is the rational it stands for, as `big.Rat` is, and a string
with a fixed number of decimals a number of units of the last one. `Format` rounds down,
`Nearest` is how the page itself rounds what it shows.

**Processor.** `phase` is which of the five lists of `Tick` is worked off, `queue` the
withdrawals of that page still to do, `step`/`cur`/`doc` the handler's next call, its
withdrawal and the record in its memory. `Hold` and `Fail` are the three calls each makes
in order (`Save`, `Alert`, `NotifyHold`/`NotifyError`). `Pay`, `Save` and `NotifyPending`
take whether their answer arrives; for the last call of a handler it makes no difference.
`CallFails` is any call that is not carried out or that SAP refuses. Core creates at most
one payout per transaction, with any status and possibly another amount. Until the payout is
completed or failed its status, its reference and its error text come and go
(`CoreUpdates`), and core may answer `Get` with "no payout" though it has one. The ledger
gets its transactions one by one.

**Reconciler.** The page walk (`sep`, `page`, `full`, `todo`), and `checkCompleted` as
`RGet`, `RCompare`, `RAlert`, `RSave`. `compared` and `reported` are history the properties
speak of.

**Incoming.** The operations Horizon lists are a growing sequence, and the cursor a
position in it. `ScanFetch` reads a page, `ScanLook` handles one operation, `ScanSave`
stores the cursor.

**Lifecycle, ProcessorContract.** Lifecycle is what the anchor owes a withdrawal, with no
word of requests, ticks, saved copies or retries: `stage` (opened, asked, funded, sending,
completed, failed, held, and settled or refunded by a person), `quote`, what the wallet was
`told` of it, and the `naira` (on its way, arrived or bounced; the quoted amount or another;
to which bank). `Price` takes a quote only from a rate table and only once, `Send` only from
a funded withdrawal and only once, `Complete` only when exactly the quoted naira arrived,
`Fail` only when none did. The refinement mapping reads these off what others see:
`StageOf` SAP's status (a withdrawal completed by hand is "settled"), `QuoteOf` the stored
record, `ToldOf` the amounts SAP holds once it gave out a memo, `NairaOf` core's payout, and
`OffersOf` what the rate tables make of the amounts. Everything in a goroutine's memory is
invisible, so every retry and every stale save has to be a stutter.

**Dojah.** `Answer` is what the identity check and the screening can come back with: each
of `first`, `last` and `dob` agrees, differs or is absent; each call ends as `Http` says.
`Do`, `Check`, `Screen` and `Decision` are the code's reading of it. `Found` and `Clean` are
what Dojah said, whatever the code makes of it; `Outcomes` are the pairs Customer uses.

**Customer.** A request reads the record, merges the given fields, runs KYC if the
identity is complete and changed or pending (`Begin`), gets Dojah's answer (`Verify`) and
replaces the stored record (`Save`). Two more state variables are history: `cleared`, the
identities Dojah found and screened clean, and `deleted`.

**Interactive.** A browser's post of the identity form (`SubmitIdentity`) is a PUT of
Customer; a post of the withdrawal form is `SubmitWithdraw` (transaction and customer are
looked up), `PutBank` and `SaveBank` (a PUT of the bank account, with whatever KYC it runs
in between) and then the steps of `Start` (`PageStart`), which reads the customer again.
SAP's GET, PUT and DELETE (`Callback`, `Delete`) run in between. `CustomerView` is what
WithdrawalService sees of the records: `View` of one, `Nobody` of an account without one.
`ServiceHolds` states that the page on top of the real records implements
WithdrawalService, whose customer is arbitrary. `StartAssumption` is what WithdrawalService
and Platform assume of their constants, which the instance here has to meet as well.

### Deliberate simplifications

* The queue keeps only which withdrawals were listed. The other fields the handlers read
  from the listed copy do not change at SAP while a withdrawal is in the listed status or
  a later one.
* `Start`'s own check of the status and kind always passes: both callers hold a copy
  listed or read as incomplete. A withdrawal no longer incomplete makes SAP refuse.
* `GetTransaction` and the lookup of the page are one step, and so are the lookup, the
  quote and `ResolveAccount` in `create`; `compare` is one step. What they read either
  does not change in between or only moves one way.
* SAP's `amount_in` asset and `amount_expected` are the withdrawal's own asset; a SEP-6
  withdrawal always has a creator. An expected amount of 0 is a wallet that gave none.
* Core never rejects a transaction it already has a payout for. The source relies on it
  (comments at `payout/client.go:93` and `processor.go:121`), and core is not here to check.
  An answer 409 counts as a rejection (`payout/client.go:146`), so a core that gave it to a
  repeated `Pay` would make the anchor fail a withdrawal it has paid. Nor does core ever
  change a payout's amount or bank account, make a second one for a transaction, or take
  back "completed" or "failed".
* Dojah verifies identities, as on mainnet. Off mainnet `main.go:69-72` takes
  `kyc.Testnet`, which accepts everyone and checks nothing: what is said here of cleared
  identities (`VerifiedWasCleared`, `PricedForCleared`) is about mainnet.
* A read that fails in `Customer` is a step that changes nothing and is left out.
* Required SEP-9 fields other than the ones KYC checks behave alike, and stand for each
  other; the optional one has no influence on any status.
* `Genuine` is the set of identities a BVN or NIN record exists for: Dojah can match no
  other.
* Dojah's names and dates are compared after normalisation; only what the comparison says
  is modelled. Which strings `Parse` accepts and how many digits `Decimals` counts are
  matters of characters: an amount here is a whole number of smallest units.
* `show`, the templates and the list of banks change nothing and are left out.
* Not modelled at all: the audit log, delivery of alerts, authentication, encryption,
  configuration, HTTP encoding, the text of pages and messages.

## 3. What the runs check

Constants are small, but every bound is above the least value at which the case exists.
Deadlock is checked in every run.

| Run | Instance | Properties |
|---|---|---|
| `sep24_start` | 1 SEP-24 withdrawal, 2 forms, amounts 0, 10 and 11, 2 banks, 2 rate tables; one product (15) is below the minimum of 16, one (16.5) is rounded down onto it | `QuoteAgreement`, `AboveMinimum`, `QuoteIsFinal`, `StartedIsRecorded`: one quote, whoever of two submissions wins and however calls fail |
| `sep24_payout` | 1 SEP-24 withdrawal, 1 form, 2 assets, 2 banks, a good and a failed Stellar transaction, an odd payout amount | `PaidOnlyIfFunded`, `PaidWhereRecorded`, `CompletedAsPromised`, `ErrorOnlyIfUnpaid`, `NoSilentEnd`, `PaysOnlyPending`, `QuoteIsFinal`, `OutcomeNeverStale` |
| `sep6_payout` | 1 SEP-6 withdrawal, 2 payout references, a payment or none, an odd payout amount | `CompletedAsPromised`, `PayoutRecorded`, `FundedResolves` and `Sep6Starts` (liveness), `KeepsPromises` (refinement of Lifecycle) |
| `page` | 1 account, 1 request of the page and 1 of SAP, an identity field and the bank account, 2 people, 1 withdrawal | `VerifiedWasCleared`, `AcceptedIsPayable`, `PricedForCleared`, `ServiceHolds` (refinement of WithdrawalService) |
| `reconcile` | 3 SEP-24 withdrawals, pages of 1 and 2 pages to a walk, an odd payout amount, 1 form, processor and reconciler | `OkMeansConsistent`, `RecordedIsReported`, `Reconciled` (liveness) |
| `scan` | 4 operations: the withdrawal's payment, one without memo, one with a foreign memo, one that is no payment; pages of 2, 2 pages | `NoStrayPassed`, `StrayReported` (liveness) |

Each run also checks the type invariant of its module, but for those whose module another
run checks it in.

One withdrawal is enough for the payout runs because no handler touches another's document
or payout; the queue, where withdrawals do meet, has a run with two (`sep6_starved`), and
the proofs are for any number. `reconcile` needs three: one on the first page, one on the
second, and one more to overflow them. So that it ends in minutes it starts from two states
of a running server (`MCReconciler`): in `Early` the oldest withdrawal has just been opened
while the two others were held and refunded, so their mismatch stands on record; in `Late`
core has paid the oldest out, which the processor is about to learn, and the two others were
held and completed by hand, the late saves of their forms having taken the mismatch back.
When the oldest completes it pushes the youngest off the pages. From there every
interleaving of the processor, the reconciler, the form, SAP, core, the ledger and crashes
is explored, with core free to deny the payout; what SEP-12 does to the customer is left
out, because nothing the run is about reads it. Two requests are what a stale save takes. In
`page` one identity field stands for the identity as a whole; that the fields of two
requests do not mix into one nobody checked is proved for any number of fields (section 4).
A required field besides these two, which KYC does not check and the bank form does not take
(the email address), makes the instance too large for `page`; `bank_asked_again` has it.
Four operations fill the scan's budget of two pages. Symmetry is used only where forms or
people are interchangeable, and never with a liveness property.

### Fairness

Liveness needs the goroutine in question to be scheduled (`WF` on the processor's,
reconciler's or scan's next step: Go's tickers), core to settle its payouts in the end
(`WF` on `CoreSettles`, and on no other change of a payout), and outages to end:
`<>[][Calm]_vars`, from some point on no call fails and the process does not die.
Nothing is said about failures before. Weak fairness alone would be too weak (a call
could fail each time), and strong fairness on each call's success more than anyone
guarantees.

### Where the code and its documents differ

Each of these is a run that TLC must find violated; `findings` in `PROJECT.json` quotes
the sentence and says what happens.

| Run | Violated | In short |
|---|---|---|
| `memo_unchecked` | `MemoCheckedBeforePaying` | when SAP's answer or the save of the memo is lost, the payment's memo is not checked at all |
| `form_overwrites_payout` | `PayoutRecorded` | the page's last save overwrites the payout the processor recorded meanwhile |
| `sep6_starved` | `Sep6Starts` | 50 SEP-6 withdrawals waiting for KYC starve the rest |
| `deleted_comes_back` | `DeletedStaysDeleted` | a save after DELETE inserts the customer again |
| `mismatch_unreported` | `MismatchAlerted` | a crash inside hold leaves a mismatch nobody is told of, which the reconciler then skips |
| `bank_asked_again` | `BankFormSuffices` | a customer identified over SEP-12 without an email address is shown the bank form again and again |

Some more observations are shown by no run, because they can be read off a single place of
the code or the model:

* `ARCHITECTURE.md:67` speaks of every completed withdrawal, but the reconciler lists the
  oldest 20 pages of 50 per protocol, each time from the start (`reconcile.go:56`): from the
  1001st on none is compared. `Reconciled` therefore speaks of a withdrawal for as long as
  it is on those pages (`OnPages`), and is checked with one more than they hold. No run
  reports the difference as a finding of its own: that a walk ends after 20 pages is what
  the constant says.
* A mismatch (`reconcile_test.go:57`) and a stray payment (`reconcile_test.go:76`) are
  meant to be reported once. The alert comes before the save of the result and of the
  cursor, so a crash or a failed call in between makes it two. The properties ask for at
  least once.
* "A payment whose memo belongs to no withdrawal" (`ARCHITECTURE.md:73`) is one whose memo
  is on no *record*. A record gets its memo in the last save of `Start`, so a payment may be
  reported although SAP did assign its memo.
* "Every incoming payment" (`ARCHITECTURE.md:73`) is every plain payment: a path payment is
  passed over (`horizon.go:91`), and `Incoming` stands for plain payments only.
* The date of birth is matched, say `docs/TRANCHE1_UPDATES.md:13` and
  `docs/TRANCHE1_EVIDENCE.md:72`. A BVN answer without it, and a NIN record whose date is in
  no known layout, are accepted all the same; only a date that *differs* is refused
  (`Check` in Dojah, where "absent" is not "no").
* A doubtful screening leaves the customer PROCESSING with nothing pending (`dojah.go:186`),
  and no operation of this code ever takes it out of that.
* The page's "You will receive" is rounded to the nearest kobo from a rate cut to two
  decimals, and the quote is rounded down from the exact rate. With a rate of at most two
  decimals the page shows at most one kobo more than is paid (`ShownWithinOneUnit`).

## 4. What is proved

The proofs hold for every set of withdrawals, customers, forms, requests, fields, banks,
rate tables and amounts, every page size and every ledger, under the named assumptions in
the modules (`PlatformAssumption`, `ServiceAssumption`, `ProcessorAssumption`,
`ReconcilerAssumption`, `IncomingAssumption`; `CustomerAssumption`, `RecordAssumption`,
`InteractiveAssumption`, `StartAssumption`), which give the constants their types and keep a
few values apart ("no bank" is no bank account). TLC evaluates them in the runs, and no
theorem has any other hypothesis. Every safety and action property that a passing run checks
is the statement of a theorem, with one exception: `PayoutRecorded` is false where a form
may still save (`form_overwrites_payout`), so `sep6_payout` checks it of SEP-6 alone, and
`Sep6OnRecord` proves that for every SEP-6 withdrawal beside any number of others.

| Module | Of | Theorems |
|---|---|---|
| MoneyProofs | Money | `FormatRoundsDown`, `FormatOfEqual`, `FormatExact`, `MinimumSurvives`, `ShownWithinOneUnit` |
| ServiceProofs | `ServiceSpec` | `ServiceTypeCorrect`, `ServiceQuoteTold`, `ServiceMinimumSafe`, `ServiceQuoteSafe`, `StartedSafe` |
| ProcessorProofs | `Spec` of Processor: forms and processor together | `TypeCorrect`, `FundsSafe`, `BankSafe`, `QuoteSafe` |
| ContractProofs | the same | `CompletedSafe`, `ErrorSafe`, `AlertSafe`, `QuoteTold`, `MinimumSafe`, `PendingSafe`, `Implementation`; `StartedSafeBesideProcessor`, `Sep6OnRecord`, `OnlyFormsOverwrite`, `OutcomeSafe`, `MemoSafe` |
| ReconcilerProofs | `RSpec`: forms, processor and reconciler | `ReconcilerTypeCorrect`, `ConsistentSafe`, `ReportedSafe`, `PromisesBesideReconciler`, `SafeBesideReconciler`, `QuoteSafeBesideReconciler`, `StartedSafeBesideReconciler`, `RecordSafeBesideReconciler` |
| IncomingProofs | `IncomingSpec`: forms and scan | `IncomingTypeCorrect`, `StraySafe` |
| CustomerProofs | `Spec` of Customer | `CustomerTypeCorrect`, `VerifiedSafe`, `AcceptedSafe`, `DeletedSafe` |
| InteractiveProofs | `PageSpec`: the page and SAP's requests on the same records | `PageImplements`, `PageIsCustomer`, `PricedSafe`, `SentBackForReason`, `PageVerifiedSafe`, `PageAcceptedSafe`, `PageQuoteTold`, `PageQuoteSafe`, `PageStartedSafe` |

**Money.** Formatting loses less than one unit and gives equal strings for equal values; an
amount at least a *whole* minimum is still at least that after rounding down. The last is
why the minimum may be compared before rounding, as `Quote` does.

**Service.** `CallInv`: a copy of a record in anyone's memory has the amounts and the bank
account of the stored one, though nothing else need be current. It is inductive because the
only writes are inserts into nothing and copies that agree with the store; `ServiceQuoteSafe`
follows from it. What the user is told needs two facts more: whoever is about to save a memo
has SAP's, with the amount SAP was told (`InformedInv`), and neither changes any more once
SAP waits for the payment (`SapStands`), so it does not matter how late that save comes or
how many forms are about to do the same. `EnoughInv` carries the minimum from the exact
amount, which is compared, to the rounded one, which is inserted, by `MinimumSurvives` of
Money.

**Processor.** `PaidOnlyIfFunded` is not inductive: when `Pay` runs, all that is known is
what `checkFunds` saw some steps ago, of a copy of the record and of a withdrawal others
write to. The inductive invariant `Inv` says what is stable in between: `CallInv` and
`HandInv` (copies agree with the store), `QueueInv` and `PastInv` (a withdrawal the
processor looks at, or that has a payout, is past the status in which SAP matches payments)
and `FundsInv` (from a successful check to the payout and ever after, the payment is there
and equals the recorded amount). The lemmas go one by one through who may write the store
(`StoreSteps`), SAP (`SapSteps`), core (`CoreSteps`), callers' frames (`CallSteps`) and the
walk (`WalkSteps`). `QuoteSafe` follows from the copies.

**Contract.** The promises rest on one fact nobody wrote down in the code: once the
processor has listed a withdrawal, nobody else moves it. `FullInv` adds to `Inv`

* `WalkInv` (`FormInv`, `ProcInv`, `HandledInv`, `PhaseInv`): which caller may still start
  which withdrawal, and that everything in the queue, and the one being worked on, has at SAP
  the status its list was asked for;
* `MoneyInv` (`AskedInv`, `AnswerInv`, `PayoutInv`): SAP was told the recorded amounts, what
  the processor remembers of core's answer is still true (core's final answers stay), and
  SAP's status never says more about a payout than core did;
* `AlertInv`: the alert of a hold or of a failure comes before SAP's status;
* `OfferInv`: every quote on record or in memory is one a rate table offers.

`Implementation` is the
refinement, `Spec => Contract!Spec`: initial states map to the initial state, and
`ContractStep` shows case by case that what a step does to SAP, the store or core is one
action of Lifecycle for one withdrawal, and every other step a stutter.

**Record and memo.** `form_overwrites_payout` and `memo_unchecked` (section 3) show what a
record may lose; `RecordInv` says what it cannot. Only the processor writes the record of a
SEP-6 withdrawal (`SoleWriter`), so the copy it has in hand differs from it in nothing but
core's answer until it is saved, and in nothing afterwards (`CopyInv`). Hence
`Sep6OnRecord`. Of any withdrawal, once SAP says completed the forms and the processor
replace the record by nothing but the late last save of a form (`OnlyFormsOverwrite`): the
finding is the only way it happens. What that save leaves is the second half: a copy that
`Start` may still save was read before SAP was asked, and so before core was, and says
nothing of a payout (`OutcomeInv`); so the record of a completed withdrawal has what SAP was
told of the payout or nothing, and never an earlier answer of core (`OutcomeSafe`). A memo on
record is SAP's (`MemoInv`), and a SEP-6 record keeps the one it has between the check of the
funds and the payout, so the comparison of the payment's memo is left out only where the memo
never got on record (`MemoSafe`).

**Reconciler.** The reconciler overwrites whole records with copies several calls old, next
to goroutines that do the same. What it leaves is true because SAP's and core's word on a
completed withdrawal is the last one (`LastWord`), no other writer of its record holds any
result but "none", or a mismatch of the processor's own (`CleanInv`), and every copy has the
quote of the record it replaces (`HeldInv`). `OrderInv` and `ResultInv` are then the two
properties, kept across any interleaving. `PromisesBesideReconciler` repeats the refinement
with the reconciler running: its save is a stutter of Lifecycle. The theorems
`...BesideReconciler` do it for the properties of the others. Those of the record need one
fact about the reconciler's copy: its memo is SAP's or none, and of a SEP-6 withdrawal it
differs from the record in nothing but the result (`Copied`), because that record is final
once SAP says completed (`RecordIsFinal`).

**Incoming.** What the scan has seen (`SeenUpTo`) holds both of the saved cursor and of the
position it has reached, so saving the one as the other passes nothing over. That a stray
payment is never taken for a withdrawal's needs the service's invariant: records carry only
memos SAP gave.

**Customer.** The invariant is stated for one record (what its status, pending flag and
verified identity may be together) and holds of stored records and of those in a request's
memory alike; as it never mentions what the store holds at that moment, overlapping saves
cannot break it. It only refers to `cleared`, which grows. `DeletedSafe` is what is true of
deletion: a deleted record that no request has in hand never comes back, because a new
record has an id never handed out before (`IssuedInv`) and every other save is of an id in
hand. `deleted_comes_back` is the request that has it in hand.

**Page.** `PageImplements` is the refinement `PageSpec => ServiceHolds`. WithdrawalService
lets one customer change per step, so the step to look at is a save, which writes a copy of
any age over whatever is there. `PageInv` adds three facts to Customer's invariant: an id
belongs to one account for ever, so a stale copy is at least a copy of the same account's
record (`IdInv`), and what is seen of every other account stays the same; a bank account on
record passed `validate`, and `settle` has accepted every complete record it leaves behind
(`GivenInv`), so a form that goes on into `Start` leaves a customer that `FormPut` allows;
and a browser in the withdrawal form has the owner's record in hand (`PostInv`). `PricedSafe`
needs no more: `create` reads the customer itself, and `Inv` speaks of every stored record.

Seen from the other side the page is a behaviour of Customer (`PageIsCustomer`): a form's
calls leave the customers alone or are PUTs. So whatever is proved of either side holds of
both at work together. The page's theorems on the customers are those of CustomerProofs; those
on quotes and memos are taken from an instance of ServiceProofs with `CustomerView` for the
customer, whose assumptions about SAP's transactions, the rates and the amounts are
`StartAssumption` of Interactive. `SentBackForReason` is about how the two meet. A save that
sends the user back wrote a customer who is not accepted (`SentBack`); `settle` accepts
whoever is verified and complete, so a required field is missing on that very record. Which
one is not the theorem's to say: `bank_asked_again` is the case in which it is the email
address, that the form cannot take.

### Model-checked only

* Liveness (`FundedResolves`, `Sep6Starts`, `Reconciled`, `StrayReported`): fairness is out
  of the prover's reach. So are induction over data and recursive operators, and no
  module declares one.

## 5. Not modelled

* **Audit log**: write-only, no decision depends on it. **Alert delivery**: the code does
  not look at whether an alert arrived; the models speak of alerts raised.
* **Authentication** (JWT, shared secret), **encryption at rest** and `stellar.toml`: pure
  functions of a request or a constant text, with no state of this service.
* **Configuration** and **database connection**: run once, before anything modelled; their
  result is the constants.
* **HTTP and JSON of the SAP, Horizon and core clients**: represented by what the callers
  can tell apart, which is an answer, a refusal, an error, or a lost answer.
* **SAP, core, Dojah, Horizon** themselves are not in this repository. They are modelled
  from how the code uses them and do what it cannot rule out, but for what section 2 lists
  under core: one payout per transaction whose amount and bank account stay, no refusal of a
  payout it has accepted, and an outcome that is final.
* **`kyc.Testnet`**, the verifier off mainnet, which accepts everyone.

Left for whoever goes on: the processor on top of the real customer records (Processor
still has the arbitrary customer, which `PageImplements` justifies for the forms), and
`reconcile` from the initial state, which is too large to explore with three withdrawals.

## 6. Running

    tlc -config MCSep24.cfg MCProcessor      # any pair of `runs` in PROJECT.json
    tlapm MoneyProofs.tla
    tlapm ServiceProofs.tla
    tlapm ProcessorProofs.tla
    tlapm ContractProofs.tla
    tlapm ReconcilerProofs.tla
    tlapm IncomingProofs.tla
    tlapm CustomerProofs.tla
    tlapm InteractiveProofs.tla

The `mutants` of `PROJECT.json` are plausible faults, defined next to what they replace
and marked in the modules; each breaks the property it is listed with.
