# Depawn: models, checks and proofs

Depawn is a pawn market. A vault takes an item in and issues a *custody receipt* for
it; the receipt's holder lists it; lenders make funded offers; an accepted offer becomes
a loan secured by the receipt; a loan that is not repaid defaults, and the item is
claimed by the note holder or sold to the highest bidder. A NestJS API over PostgreSQL
(`src/apps/api/src`) does the work; three React applications (`src/apps/marketplace`,
`src/apps/vault-console`, `src/apps/admin`) call it through shared clients (`src/packages`). Paths
below are relative to `src/apps/api/src` unless they start with `docs/`, `src/` or `apps/`.

The project holds TLA+ modules of the API and of the applications' behaviour, the TLC
configurations that check them, and TLAPS proofs. `PROJECT.json` is the index: what each
definition translates, what each run checks, which mutation of the code each property
notices, and the hazards the properties are for.

## The system

| Component | State it keeps | Operations | Correct when | Modules |
| --- | --- | --- | --- | --- |
| Intake and issuance (`modules/custody`, `domain/custody`) | `intake_record` with a version, `appraisal`, `vault` | begin, attach photo, update, record appraisal, seal, issue receipt | evidence is never lost, a sealed record is final, one receipt per intake, the vault's exposure stays insured | `Intake` |
| Receipts and redemption (`modules/custody`, `infrastructure/custody`) | `custody_receipt`, `redemption_request` | encumber, release, claim, burn; request, verify, release | an item secures one loan at a time and leaves the vault only when it secures none | `Custody`, `Pawn` |
| Ledger settlement (`infrastructure/settlement`) | append-only entries, accounts, `funds_hold` | deposit, withdraw, hold, release, refund, transfer | balanced, nobody overdrawn, a hold spent or returned once, under concurrent transactions | `Settlement`, `Ledger`, `Transactions` |
| Marketplace (`modules/marketplace`) | `listing`, `offer` | create, publish, cancel listing; place, withdraw, reclaim offer | an open listing's item is free, an acceptable offer is funded, no lender's money is trapped | `Marketplace`, `Pawn` |
| Lending (`modules/lending`) | `loan`, `lender_note` | accept offer, repay, mark default, claim receipt | the item backs the loan until it is paid | `Lending`, `Pawn` |
| Liquidation sale (`modules/lending`) | `liquidation`, `bid` | schedule, open, bid, reclaim bid, close | the standing bid is funded, the winning bid is spent once and entirely handed out | `Liquidation`, `Pawn` |
| Clock, pause switch, parameters (`infrastructure/clock`, `parameters`, `system-state`) | offset of the demo clock, switch, parameter versions; copies in each process | move and reset the clock, pause, resume, edit the parameters, restart | pausing blocks nobody's way out; what a process serves was committed, and survives it | `Operations`, `DemoClock`, `Parameters` |
| Event outbox (`infrastructure/events`) | `outbox_event`, `dead_letter_event` | queue, drain | events are neither lost nor held by two drains | `Outbox` |
| Idempotency (`modules/shared/http`, `infrastructure/persistence`) | `idempotency_record` | begin, complete, release | a retry has no second effect, but after a failure that gave the key up | `Idempotency` |
| Vault reconciliation (`modules/admin`) | nothing of its own but the history row | compare a count with the records | a drift means something is wrong | `Reconciliation` |
| Accounts and sessions (`modules/accounts`) | `account`, `session`, the browser's cookie | register, sign in and out, guard | a session outlives nothing it should not | `Sessions` |
| Queries | none | browse with a cursor, look at the loan book | no row is skipped or repeated | `Browsing`, `Reconciliation` |
| HTTP layer and shared clients (`modules/*/http`, `src/packages`) | none | one route per client function | | `Endpoints` |
| Frontends (`src/apps/marketplace`, `src/apps/vault-console`, `src/apps/admin`) | keys of forms, the query cache | press, retry, move between pages | what is set out is done once, what is shown is what was done | `Pages`, `Console` |
| Audit log, object storage | append-only | | | not modelled |

The components meet in the use cases. A use case runs in one database transaction
(`infrastructure/persistence/prisma-unit-of-work.ts`) and calls across components in it:
accepting an offer moves a listing, all its offers, the lender's hold, three ledger
accounts, the receipt and a new loan; closing a sale moves the liquidation, the winner's
hold, up to four accounts, the receipt and the loan. Each use case also queues events in
its transaction, which the outbox publishes later, and each write request passes the
idempotency interceptor before its transaction begins. The key it passes with is drawn by
a form in a browser, which keeps it or replaces it depending on what it hears. What goes by
the clock goes by that of the process that happens to serve the request.

What is hard, and where the properties are aimed:

- **Interleaving of use cases** of a borrower, lenders, bidders, a note holder and an
  administrator over the same receipt, hold and loan, with deadlines passing in between.
  A long sequence of legal requests is what goes wrong in such a system.
- **Interleaving of statements** inside the transactions: reads without a lock before a
  write (creating a listing, sealing an intake, recording an appraisal, checking the vault's
  exposure), row locks taken in different orders, accounts opened on first use.
- **Retries, crashes and lost answers** around several separate statements: idempotency,
  outbox, sign-in, and the forms that decide whether a second press is a second wish.
- **Copies in memory**: the clock's offset and the parameters in each process, the query
  cache in each tab.
- **Truncating arithmetic**: fees, interest and the liquidation waterfall.
- **Progress**: the lenders' way out must not depend on anyone else, nor on the pause;
  transactions that wait in a circle must end.

`PROJECT.json` lists each hazard at its line with the properties that cover it.

## The modules

| Module | Models |
| --- | --- |
| `Identifiers` | the sets of identifiers and what a database table is: a function from the identifiers of its rows |
| `Operations` | clock, pause switch, parameters in force, truncating basis-point arithmetic, as the market sees them |
| `Custody` | receipts, redemptions, the custody port; issuing, seen from the market |
| `Settlement` | balances and holds; one operator per operation of the settlement port |
| `Marketplace`, `Lending`, `Liquidation` | the aggregates: listing, offer; loan; liquidation, bid, waterfall |
| `Pawn`, `MCPawn` | **the market**: composes the six, one action per use case; its properties; instances |
| `Reconciliation` | what an administrator reads of the market: drift of the vault, the ledger's sums, the loan book |
| `Ledger` | **abstract specification** of the settlement port: settlements one at a time, each whole |
| `Transactions`, `MCTransactions` | the settlement adapter statement by statement, with row locks, inside the use cases' transactions; implements `Ledger` |
| `Intake`, `MCIntake` | intake to receipt, statement by statement |
| `Outbox` | queueing and draining events |
| `Idempotency`, `MCIdempotency` | the interceptor and its store, statement by statement |
| `DemoClock`, `Parameters`, `Sessions`, `Browsing` | what goes by the clock of a process: its offset, the parameter versions, sessions with the browser's cookie, paging through open listings |
| `Platform`, `MCPlatform` | composes these four with restarts of processes |
| `Endpoints` | the routes and the client functions that call them, as tables |
| `Pages` | every query, card, form and page of the three applications, as tables |
| `Console`, `MCConsole` | how a browser tab behaves with any form and query of the tables |
| `PawnProofs` | theorems about `Pawn` and `Reconciliation` |
| `TransactionsProofs`, `IntakeProofs`, `OutboxProofs`, `IdempotencyProofs`, `PlatformProofs`, `ConsoleProofs` | theorems about the module of that name |
| `Sums`, `SumProofs` | the sum over a finite set, and lemmas about it |

### The market (`Pawn`)

A table of the database is a function whose domain is the rows that exist; a row is a
record whose fields are the columns the properties can tell apart. Names, photographs,
descriptions, URLs, audit rows and events are left out. The ledger is kept as the
balances its entries add up to. The note of a loan is its holder, since no operation
transfers a note.

Each action is a use case with every write its transaction makes. Its guard is the
use case's chain of early returns, in the aggregate's module when the aggregate decides
and in `Pawn` when the use case does. A request that is rejected changes nothing and has
no step. What justifies one atomic step per use case is the code's locking: the listing
(with its offers), the hold, the loan, the liquidation (with its bids) and the redemption
request are locked before they are read (`SELECT ... FOR UPDATE`), and what is read without
a lock is protected as follows.

- Reclaiming an offer's hold reads the offer without the listing's lock. What it looks
  for, superseded or pending and past its expiry, stays so except when an acceptance or a
  withdrawal that began before the expiry ends after it; the hold's row then decides:
  the acceptance fails on a refunded hold, the reclaim on a released one, and a second
  refund moves nothing.
- Encumbering, releasing, claiming and burning a receipt save it under its version, so a
  transaction that read an older row fails.
- Publishing a listing reads the receipt unlocked, under the lock of the listing. If an
  acceptance pledges the receipt meanwhile, then another listing of it is live at the
  read, and the unique index on live listings makes the publication fail; if a redemption
  burns it meanwhile, publication and redemption commute, because redemption does not
  look at listings.
- **Creating a listing** reads the receipt and inserts later with nothing between the two
  that notices a change, so it is two actions, `BeginListing` and `CreateListing`, and
  everything may happen in between.
- The settlement in it is atomic as `Transactions` shows.

`Deposit` and `WithdrawFunds` are transfers from and to the platform's float. Only the
float may be overdrawn: it stands for the outside world.

Bounds of the market, all of them constants or in the guards named in comments: `MaxTime`
(the clock), `FloatLimit` (what may be deposited in all), the sets of identifiers (each
row is made once), the amounts, rates and lifetimes, and, in `PlaceOffer`, that an offer
expires before time ends, so that the liveness property is not refuted by the end of
time. Receipts are issued with values the insured limit admits (`Custody!IssueReceipt`);
how issuing gets there is the subject of `Intake`.

`Reconciliation` adds no step. It says which physical counts of the vault are honest in a
state of the market (a sold item may have been collected or not, a redeemed item is gone
only when its release is confirmed), and what the drift of such a count may be.

### Settlement under concurrency (`Ledger`, `Transactions`)

`Ledger` is what the port promises its callers: from the balances it was opened with,
holds, releases, refunds and transfers happen one at a time, a hold or a transfer only
with the balance for it, a hold settled once and for exactly its amount.

`Transactions` is what the adapter does. A transaction (`task` says for which use case)
locks the rows its use case locks, in the use case's order; locks and reads the hold it
settles; resolves its accounts, inserting those that are used for the first time; locks
the account it debits and reads its balance; inserts its entries, each of which shares
the lock of its account by the foreign key; and commits. What it writes nobody sees before
then. Waiting is `WaitsFor`, the wait-for graph of the database, and a circle in it is
broken by aborting one of its members; any transaction may also be aborted at any statement.
A hold that was settled in the same way before is answered again, as the code does.
`OpeningAccounts` are there at the start: those of the holders of holds. The order in
which a use case names the accounts it credits is the order in which they are inserted and
locked, so the model keeps it: an acceptance credits the borrower and then the fee, a sale
the note holder, the fee, the borrower and what rounding left over, without the empty lines.

### Intake (`Intake`)

Transactions of PostgreSQL's READ COMMITTED level, one statement a step: a request reads,
may read again, may wait for the vault's row, and writes in its last step. The intake's
version, the vault's row lock and the unique index on the receipt's hash are what the
code has against races, and they are what the model has. The sealed hash is what it is a
hash of. `Burn` is the market's part: a redemption or sale, which locks no vault.

### The outbox (`Outbox`)

A drain claims a batch in one transaction and then publishes, marks, or records a failure
for each event, every one of them a step. Drains overlap, because every process has a
timer that does not wait for the drain before. A drain may die between any two steps
(`CrashLimit`). A claim is kept as its age, which is not told apart once lapsed, and the
attempts are not told apart beyond one more than the maximum: the code compares both only
with those limits.

### Idempotency (`Idempotency`)

One step for each statement of the store, with the request's own reading of the clock
(`startedAt`). A process may die in any step and leaves its reservation pending. A record
is inserted at most once by each request, so the request stands for the record's
identifier. `Handle` is the whole handler that the interceptor wraps: its transaction
commits or changes nothing, and what follows the commit may fail too. Editing the parameters
reloads them (`modules/admin/application/update-protocol-parameters.use-case.ts:75`), the
intake's handlers read the detail back (`modules/custody/http/intake.controller.ts:176`), the
lending handlers the loan (`modules/lending/http/lending.controller.ts:191`). After that the
filing may fail, and after any failure the release may (`"stuck"`: the key is kept by a
process that lives). `Prompt` is an assumption: the clock does not advance so far that a
request runs for as long as the reservation window (24 hours in the code).

### What goes by a process's clock (`Platform`)

- `DemoClock`: the offset is a row that a process reads when it starts and keeps. Moving
  the clock computes the new offset from memory, writes the row, and then changes the
  memory: three steps, between which other moves and restarts happen. Another process
  goes on telling its own time; the documents accept that
  (`docs/OPEN-QUESTIONS.md:206-211` says the same of the parameters).
- `Parameters`: an edit commits a version, and the process that served it reads the table
  again and replaces its copy. The two are steps apart, two reloads of one process may
  overtake each other (`overtaken` marks the processes where an older reading was kept last),
  and a failed reload tells the operator that the edit failed although the version is there.
- `Sessions`: registration looks for the address and then inserts under a unique index.
  Signing in sets a cookie with the session's expiry; answers of sign-in and sign-out may be
  lost. The tab keeps what the account query found last and is led by it. That query fails
  with anything but an answer or a 401 (`src/packages/contracts/src/client/auth-client.ts:30-43`)
  and then keeps what it had (`FailMe`): a page that has the account stays open, one that has
  none leads to the login page. Signing out opens the login page once the fetch it asks for
  has ended, either way (`leaving`), and from there the member may go back (`GoBack`).
- `Browsing`: each page is a query with a cursor holding the sorted value and the
  identifier; listings open, close and expire between the pages. What matters of a page is
  which rows it has, so a page is a set, and `seen` counts how often each row was shown.

### The applications (`Endpoints`, `Pages`, `Console`)

`Endpoints` has one line per route: who is admitted, whether the interceptor stands before
it, whether a repeat of the use case would do its work again, and which data it writes or
reads. `Pages` has one definition per query, card, form and page: the calls of a form,
where the key of each comes from (drawn when the card is mounted, by every press, or
none), after which answers the keys are replaced, what is invalidated, which page opens.
The tables are data read off the code; `Console` gives them their behaviour. A behaviour
follows one form and one query that answers from what the form changes: forms share no
state with one another, nor do queries. In it the form is pressed, double-clicked, pressed
again with the same or another filling; requests arrive late, are refused, replayed, done
or rejected, and answers are late, lost, or come when the user has gone to another page;
the query is asked, its answer cached, an answer on its way thrown away when invalidated; the
session may end. The interceptor's claim is one step here; `Idempotency` is about that step.
Everything happens within the replay window of a key.

A fetch that fails leaves the answer there was (`FailRead`, `failed`). What a card does then
is in its table: `waits` are the queries without whose answer it draws no form, `hides` those
whose failure it draws in place of the form, `drops` those whose failure unmounts a form that
is a component of its own, keys and all. A call may fail before its work or after it
(`Reject`, `FailAfterwards`), and gives its key up unless that fails as well; `freed` are the
calls whose work was done and whose key was given up all the same.

`FormsAssumption` says what the behaviour relies on in the tables, and TLC evaluates it over
every form: a form makes one or two calls and stays where it is or
opens another page; a call whose repeat would do its work again, and
whose key is drawn with the card, is its form's only such call, and only a success replaces
that key; a form that never replaces its keys is left when it succeeds; and what a page shows
beside a form that changes it is refreshed, or ended, by the form's success, but for the
audit list.

## The runs

| Run | Question | Instance | Result |
| --- | --- | --- | --- |
| `pawn_market` | Do two listings, two offers and two loans on one item keep the item, the holds and an honest count of the vault right, under changing parameters? | 2 accounts, 3 ticks, no sale | 7 invariants hold, 934 thousand states |
| `pawn_sale` | From offer to liquidation with two bids: balanced, funded, in step with the loan? | 1 loan, 2 bids of different size, 4 ticks | 5 invariants and 1 action property hold, 719 thousand states |
| `pawn_liveness` | Does every lender's money come back or get spent, whoever else stops, and under a pause for good? | 2 offers, pause both ways, offers that arrive expired | holds under `FairSpec`, 227 thousand states |
| `transactions` | Do the statements of concurrent settlements amount to settlements one at a time? Who can deadlock? Does every transaction end? | any 3 of 13 tasks on 2 holds, 3 accounts of which one is new | refinement of `Ledger`, 1 invariant, liveness: hold, 196 thousand states |
| `intake` | Are evidence, seals, the insured limit and one receipt per intake kept? | 2 workers, 2 intakes, limit below two receipts | holds, 1.14 million states |
| `outbox` | Do claims exclude one another; does every event settle? | 2 events, 2 drains, batch of 2, 2 attempts, 2 crashes | holds, 359 thousand states |
| `idempotency` | Does a request take effect once per window? | a request sent three times and another with its key, 3 ticks, window 2, failures before and after the commit | 3 invariants and 1 action property hold, 1.13 million states |
| `platform` | What survives a restart, what does a process serve, does signing in and out do what it says, does paging skip a row? | 2 processes, 2 moves of the clock, 2 edits, 2 tokens, 3 listings with pages of one | 6 invariants hold, 1.39 million states |
| `console` | Is what a user sets out to do done once, and does the page show it? | the forms of the applications, one of those that are alike, with the queries that must show what they change; 2 presses (3 of a deposit), 2 fillings | 2 invariants and 2 action properties hold, 1.56 million states |
| `blocked` | "Never blocked, under any circumstance" | 2 accounts, 1 bid, 4 ticks | **violated**, finding 1 |
| `dual_appraisal` | A receipt at or above the threshold has two appraisers | 2 appraisers, threshold 2 | **violated**, finding 2 |
| `idempotency_retry` | "Safe to retry" | as `idempotency` | **violated**, finding 3 |

Three more configurations are kept for reading and are not among the runs:
`repay_blocked.cfg` (with `MCPawn`) shows the other half of finding 1, `zero_fee.cfg` (with
`MCPawn`) and `outbox_crash_loop.cfg` (with `Outbox`) the two observations after the findings.

**Why the bounds are enough.** The market's hazards are about who acts on one item in
which order. One receipt with two listings, offers and loans has the competing claims;
two accounts suffice for a borrower, who may also be a lender, bidder and note holder, and a
counterparty; two bids suffice for outbidding. A tick is the unit of every deadline, so three
cover placing, expiring and defaulting, and the fourth the sale's window. The amounts
are chosen so that every truncation is reached: fee of 4 tenths of 4 is 1.6, the loan-to-value
of 6 tenths of 6 is 3.6, and bids of 4 and 7 fall below and above what is owed.

In `transactions` a circle of two needs two transactions, and a third decides between
them or finds what they leave; the tasks are every way a hold is made and settled, two
repayments in opposite directions, and an account that has never been used. Which of the three
does what makes no difference, so the tasks are dealt in the order of a list (`InOrder`).

In `platform` the subsystems share nothing but the clock and the restarts, so that one of
them is busy at a time (`OneAtATime`) and moves of the clock overlap only while none is
(`MovesApart`); both registrations are answered, one of them by the unique index, before the
first sign-in (`RegisteredFirst`). Two of the listings ask the same rate, and two close at the same time,
so that the cursor's tie-break decides; the second edit takes effect before the first.

In `console` two presses have every race of a press with its retry; a third tells apart
that a late answer has replaced a key (`excused`), and is given to the deposit
(`Persistent`), whose route has no defence but the interceptor. Three things keep the run
short. What follows a failed fetch is explored while the form can still be pressed
(`FailuresFollowed`), since what it may disturb is a later press. A query that its form neither
refreshes nor stands beside is left out where the form has another (`Telling`): nothing is
asked of it, and the keys are explored with the other. And of forms that are alike but for
names one is explored (`Likes`): TLC evaluates `LikesAreAlike`, which compares all that a
behaviour looks at. Without the three the run had 4.9 million states and the same result.

In `intake` the dual-appraisal threshold is above the values, so that one appraiser
suffices and two workers on two intakes stay feasible; the branch at the threshold is the
subject of `dual_appraisal`. Symmetry is over values told apart only by their names, and
is not used in the runs with liveness. Deadlock is allowed where the system may have
nothing left to do; the market's runs check it, where the administrator can always act.

**Fairness.** The market assumes that time passes and that each lender keeps asking for
the money of an offer that can be reclaimed (`WF` on `TimePasses` and, for each offer, on
`ReclaimHold`). Nothing is assumed of borrowers, of the administrator, or of anyone who
withdraws, accepts or unpauses: that nobody else is needed is the point. For the outbox:
timers keep starting drains (`WF` on `Claim`), a drain that has not died goes on (`WF` on
its next step), time passes. For the transactions: the database runs each statement that can
run and breaks circles (`WF` on `Statement` and `BreakCircle` of each transaction); that
a transaction is aborted for any other reason is not counted on. Every assumption is weak
fairness of actions that stay enabled, as a repeating timer, an awaiting loop, a database
and the clock provide. (A statement that waits may be enabled and disabled again by others;
each transaction runs once, so that only finitely many get ahead of it.)

## What is proved

TLAPS checks the theorems for every value of the constants: any sets of accounts,
receipts, listings, offers, loans and bids, any amounts, rates, windows and parameters, any
number of concurrent transactions, workers, drains and requests. They rest on the named
assumptions of the modules, which TLC evaluates on every run: amounts are naturals and
placeholders are not identifiers; offers are not bids; the accounts of a ledger and the
listings a member pages through are finitely many; every transaction is one of the use cases,
no two create one hold, and the member of a hold that exists already has both accounts. The
theorems about `Console` rest on `FormsAssumption`, which is a closed statement about the
tables of `Pages`.

| Theorem | Says |
| --- | --- |
| `TypeCorrect` | tables, balances and clock of the market keep their shape, with the checks of the aggregates' constructors |
| `EncumbranceIsBacked` | an encumbered receipt is so by an unpaid loan made on it, to the account that holds it |
| `ActiveListingIsUnencumbered` | an item open to offers secures no loan and belongs to the listing's borrower |
| `CollateralIsKept` | until a loan on the item defaults, it stays pledged to the loan to be paid |
| `SaleFollowsLoan` | sales exist for loans in default, and settle as the loan closes |
| `RedemptionIsBurned` | what is redeemed is burned, in its last holder's name |
| `ReceiptMovesOnlyOnDefault` | an item moves only to the note holder of a loan on it in default |
| `OffersAreFunded`, `BidsAreFunded` | offers, bids and their holds agree |
| `NobodyIsOverdrawn` | no account but the float goes below zero |
| `BooksBalance`, `HoldsAreBacked` | all balances sum to zero; a held account is the sum of its member's holds to be settled |
| `CountsAreExplained` | an honest count of the vault misses nothing that is on record, and has too much only of what was sold or is on its way out |
| `LocksProtectReads` | what a transaction read of a balance or a hold under its locks is true until it ends |
| `TransactionsImplementLedger` | the adapter under concurrency is a behaviour of `Ledger` |
| `RacesNeverOverdraw` | so no race overdraws an account |
| `OnlyRepaymentsDeadlock` | once the float has its account, only repayments wait in a circle |
| `IntakeTypeCorrect`, `PhotographsAreKept`, `SealsAreForGood`, `IssuingIsIdempotent` | the intake's tables, evidence, seals and receipts, for any workers |
| `ExposureIsInsured` | the live receipts are never worth more than the vault is insured for |
| `OutboxTypeCorrect`, `ClaimsAreExclusive`, `PublishedStays` | the outbox, for any drains that overlap and die |
| `IdempotencyTypeCorrect`, `ReplaysAreFaithful`, `KeysAreGivenBack` | the interceptor, whatever fails or dies |
| `RetriesAreSafe` | one effect per key and window, but for a request that took effect, failed and gave its key up |
| `PlatformTypeCorrect` | clock, parameters, sessions and paging keep their shape, for any processes |
| `MovesOutliveProcesses` | a process that moved the clock last has the stored offset, unless two moves overlapped |
| `OnlyCommittedIsServed`, `OwnEditsAreServed` | what a process serves was committed; an edit it reported as made is among it, unless an older reading was kept last |
| `SigningOutHolds`, `SigningInHeals` | once a fetch has succeeded, no late answer brings an account back after signing out, or hides it after signing in |
| `PagesShowOnce` | paging to the end shows once what was open throughout, and nothing twice |
| `ConsoleTypeCorrect` | the tab, its presses, its query and the server behind them keep their shape, for every form |
| `PressesActOnce` | what a user sets out to do is done once, however often it is pressed, unless a late success replaced the key, or it was done, answered with a failure and its key given up |
| `ReportsAreTrue` | what the page reports as done was done for that purpose |
| `PagesShowOwnWork` | a page with nothing to fetch, whose last fetch succeeded, has seen what it reported as done |
| `RefusalsFollowFailures` | a key is refused only while another press under it has had no success |

The arguments are by inductive invariants, each preserved by every action.

- `TypeInv` (`Pawn`) adds to the type invariant that every row a row refers to exists
  (`References`): without it an action reads a row whose shape is unknown.
- `CollateralInv` is the conjunction of the collateral invariants with `OneLiveListing`,
  the unique index: acceptance pledges a receipt and must leave no other listing of it
  open. The parts need one another. `CollateralKept` across an acceptance needs that the
  listing was active and so its item unencumbered; across a redemption or a claim it needs
  `EncumbranceBacked`.
- `HoldInv` adds that a sale has a winner exactly when it is settled. The case that
  needs care is a reclaimed offer whose row stays `PENDING`: it has expired and time
  does not go back, so the funded-if-acceptable clause survives. `SettleEffect` says what
  release and refund may do to a hold, repeated calls included.
- `LedgerInv` needs that no line of a distribution is negative: lemmas `ShareBounds`,
  `AmountDueBounds`, `WaterfallBounds` and `OriginationBounds` prove that of the
  truncating arithmetic from its bounds.
- `BooksInv` joins the two sums with the finiteness of the holds, without which a sum says
  nothing. `SumProofs` proves of a sum over a finite set what the steps need: it is an
  integer, it changes with one member as that member does, and it does not depend on the rest.
  An operation then moves as much out of one account as into others, whatever was truncated,
  because the last line of a distribution is what is left over.
- `Discipline` (`Transactions`) says that a row is locked by one transaction, that whoever
  is past reading a balance or a hold has it locked, and that what was read is still so.
  With it a commit is a step of `Ledger` and everything else a stutter.
- `RowsInv` says which account rows a transaction has locked, shares or has inserted at
  each statement. The rows a transaction inserts follow an order (`Rank`: a member's account,
  the fee's, rounding's, a member's held account last), so that who waits for an inserted row
  waits for somebody further on. A transaction is in no circle if whom it waits for is in a
  set that is closed under waiting and leaves it out (`OutOfCircles`): the transactions that
  have got further make such a set at every statement. It cannot be found only for a
  repayment that has its payer's account locked and enters the payee's.
- In `Intake`, `KnowsItsRow`: a row with the version a request read *is* the row it read.
  Hence a save that passes the version check adds to what is there, and writes no sealed
  row. `IssuesOnce`: past the vault's lock a request holds it, and what it found missing
  stays missing, since receipts are inserted by its holder alone and a burned receipt
  keeps its hash. `AdmittedFits`: for the same reason what it found room for still fits, and
  burning only makes room.
- In `Outbox`, `HeldIsStamped`: within its window, what a drain has in hand is in the
  table, unpublished, and stamped with an age no claim accepts.
- In `Idempotency`, `HoldersOnRecord` with `DeletesExpired`: a request whose handler may
  still run holds the record of its key, since whoever is about to delete a record found it
  expired before, and no request outlives its own reservation (`Prompt`).
  `EffectsOnRecord`: an effect is on record while the window lasts, unless its request has
  failed. Without it a release by key could free a key under a response.
- In `Platform` each part has an invariant of its own, which the steps of the others leave
  alone. `MoveInv`: as long as no two moves overlapped, only the last is under way, and it has
  written what it will keep. `OwnEditInv`: the reload of an edit has read it.
  `SignedOutInv` and `SignedInInv` say which answers of the account query may still come.
  `PagesInv`: everything seen lies before the cursor and everything steady and unseen after
  it; that a page ends where the next begins is `PageIsFirst`, from `LastExists`: a finite set
  that is not empty has a last member in every strict order.
- In `Console`, `ClientInv` is the tab's part: keys are drawn in order, a press that is
  waited for is the last or the first of a double click, a key that succeeded is spent, an
  unanswered press is followed under its key by its double or by a failure. `ServerInv` is the
  other part: what runs, and what took effect and was not freed, is on record under its key,
  with the filling it was sent with. `PurposeInv` joins them for a form whose call only its key protects: a
  purpose keeps its key unless a late success replaced it, and of two keys for one purpose the
  first is refused to it for good, having done another filling's work. A second effect then
  finds the first on record, unless it was freed. `ReportsReachThePage`: what was reported is in what
  the page shows, or in the answer that is to come, or is being asked for.

Each of these invariants was also checked with TLC on the run's instance. The attempts
corrected the model twice: `overtaken` had missed an order of reloads that takes three edits,
and `OwnWritesSeen` counted what a form's first call had done as reported when only a retry
that began with its second call had succeeded, which takes three presses.

Left to TLC: liveness (`NoOfferTrapsFunds`, `EveryEventSettles`, `EveryTransactionEnds`),
because TLAPS has no rules for fairness and `ENABLED`. The claims of the documents that the
three runs `blocked`, `dual_appraisal` and `idempotency_retry` refute are of course not
theorems; `RetriesAreSafe` is what is left of the last of them.

## Findings

1. **What is "never blocked" can be** (`blocked`, `repay_blocked.cfg`). A claim leaves the
   loan in default and checks only that the receipt is encumbered, not by which loan. The
   note holder may claim the item while its sale is open and redeem it; the close then
   burns a burned receipt and fails, and the standing bid can be neither spent nor
   reclaimed. Likewise the note holder may claim, pledge the item anew and claim again; the
   second loan's repayment then fails.
2. **The second appraiser can be bypassed by timing** (`dual_appraisal`): an appraisal
   inserted after the sealing that should have counted it sets the receipt's value.
3. **A failure after the commit frees the key** (`idempotency_retry`), and the retry takes
   effect again. The interceptor's `catchError` follows the whole handler, with what it reads
   back or reloads after its transaction, and the filing of the response. A retried parameter
   edit or appraisal is then made twice, and so is a deposit whose response is not filed; most
   other use cases refuse the repeat by the state they find.

The documents' sentences and the code's lines are quoted in `PROJECT.json`. Also seen:

- *A zero or truncated origination fee makes offers unacceptable* (`zero_fee.cfg`). The
  empty line is refused by the ledger; closing a sale drops such lines, accepting does not.
- *An event that kills its drain is never dead-lettered* (`outbox_crash_loop.cfg`): the
  maximum of attempts is only compared where a failure is caught, although a comment of
  the drain's test counts a reclaim as an attempt.
- Two use cases that repay in opposite directions between two members may deadlock, and
  the database aborts one (`CirclesAreOfTransfers` says that nobody else can, once the
  float's account exists).
- Pausing refreshes the switch beside the audit list and not the list. The list-a-receipt
  dialog keeps its keys for as long as it is open, so that a figure corrected after the listing
  was created and not published is refused as a reused key until the dialog is opened anew.
  The parameter form starts from a cached copy of what is in force; photographs and moves of the
  clock carry no key. A session whose sign-in answer is lost is nobody's until it expires.
  `OwnWritesSeen`, `PressedOnce` and `SignInHeals` state their exceptions.
- *A page may go on showing what was true before a failed fetch.* The receipts card draws its
  redemptions from whatever answer there is
  (`apps/marketplace/src/routes/borrow.receipts.tsx:101-103`), so that an item whose return was
  just asked for reads as not requested; the reclaim banner, the default actions, the payoff
  cards of the borrower's loans and the clock's card do the same with theirs, and the pages'
  guards with the account. After a sign-out whose account query fails, the tab still has the
  account, and shows it when led back. `OwnWritesSeen`, `SignOutHolds` and `SignInHeals` speak
  of a query that succeeded last.
- *A form that reports a failure may have done its work.* It keeps its key, which the server
  has given up, and pressing it again does the work again where the route has no other defence
  (`PressedOnce`).
- The history query of reconciliation knows the drift `LEDGER_ACCOUNT_IMBALANCE`, which no
  run writes; the loan book is read in four separate statements. The reclaim banner counts
  superseded offers whose hold is already back, since reclaiming leaves the row as it is.
- Closing a sale does not compare the clock with `closesAt` (`domain/lending/liquidation.ts:171`);
  a payment above the amount due settles the loan for that amount, although the comment
  above the method says that only the exact amount does (`domain/lending/loan.ts:205-214`).

## Not modelled

- **Audit log, object storage**: append-only writes and files nothing in the core reads
  back; a photograph's bytes may be stored for a row whose save fails
  (`modules/custody/application/attach-photo.use-case.ts:64`).
- **Payloads**: validation, schemas, mapping of errors to statuses, drawing. `Endpoints`
  keeps who may call what and `Pages` what a form does with the answer.
- **The rows reconciliation writes**, and single-statement queries: nothing reads the
  former back; the latter read what the models hold and are rows of `Endpoints`.
- **Statuses and operations no use case reaches**: expired listings and offers (an offer
  lapses by its deadline alone), cancelled liquidations; `transferReceipt`.
- **The pause switch as a read of its own**: a use case that read it open may commit just
  after the pause. The market reads it in the step that obeys it.
- **Requests that outlive the replay window** of 24 hours
  (`infrastructure/persistence/prisma-idempotency-store.ts:73`): excluded by `Prompt`, and
  the applications work within the window.
- **Cached answers that are dropped** when no page has shown them for five minutes, and the
  library's own repeats of a failed fetch: a failure in the models is the last of them. A card
  whose answer was dropped waits for one, as it does when it is opened first.
- **Several vaults**, seed data, deployment, tests and fixtures.

A receipt may be redeemed while its listing is live
(`modules/custody/application/request-redemption.use-case.ts:55`); `Pawn` has that behaviour, and
no property forbids it: the offers on it can still be withdrawn and reclaimed, as
`NoOfferTrapsFunds` says.

## Plan

Done: the market with its proofs, the books included; settlement under concurrency with its
abstract specification, the refinement and who can deadlock; intake, outbox and
idempotency; the processes' clocks and copies, sessions and paging; the applications. Every
invariant and action property of the runs is a theorem, but for those named above. What
could follow: the pause switch read apart from the step that obeys it; an abstract
specification of what the market promises one member, which `Pawn` implements.
