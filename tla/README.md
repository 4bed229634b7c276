# A verification of fidel-quick in TLA+

fidel-quick is a loyalty platform: small businesses run programs of points, of
cashback or of stamp cards, and their clients and employees use them by writing
to a WhatsApp bot. The server is a single Go program over Postgres and Redis.
This directory models the parts of it whose correctness depends on the order in
which things happen, checks the models with TLC on small instances, and proves
the most important invariants with TLAPS for every instance.

## 1. The system

### Parts and how they interact

| part | code (under `src/`) | state it keeps | operations |
|---|---|---|---|
| WhatsApp webhook and sessions | `internal/platform/whatsapp/webhook.go`, `internal/session`, `internal/resolver` | Redis: `session:{phone}` (30 min, refreshed on access), `session:select:{phone}` (5 min) | receive a message, resolve business and role, register a client, choose a business, switch role |
| flow engine | `internal/flow`, `internal/loyalty/registry.go` | Redis: `flow:{phone}:{customer}` | start a flow, take a step, dispatch the command to a module, show the menu |
| points program | `internal/modules/earnburn` | Postgres: `balances_`, `transactions_`, `rewards_`, `redemptions_earnburn`; Redis: `otp:{code}` | credit a purchase, redeem, confirm, correct, expire points, issue codes, admin updates |
| cashback program | `internal/modules/cashback` | the same with `_cashback`, and caps per transaction and per period | as the points program |
| stamp card | `internal/modules/pushcard` | Postgres: `pushcard_config`, `_cards`, `_stamps`; Redis: `pc:redeem:{code}` | stamp, undo, show, redeem, confirm, configure |
| identity and load codes | `cache.go` of both programs | Redis: `otp:{code}`, the tracker of a client's active identity code | issue, read, consume |
| admin accounts | `internal/admin` | Postgres: `admins`, `password_reset_tokens`; an in-memory rate limiter | log in, reset the password, onboard a business, link Google |
| feature flags | `internal/featureflags` | Postgres: `feature_flags`; Redis cache, 60 s | resolve, update |
| onboarding wizard | `internal/onboarding` | one row per business | save a step, complete |
| receipts | `internal/platform/ai` | none | extract a receipt, compute its fingerprint |
| programs | `internal/sisfi`, `CreateProgram` and `UpdateProgram` of the modules, `admin/src/pages/programs` | Postgres: `customer_sisfi`, `config_earnburn`, `config_cashback`, `pushcard_config` | create, list, edit, switch off |
| collaborators, clients | `internal/phone` and the modules' APIs | rows | CRUD |
| API, admin panel, landing, clients of WhatsApp, OCR, e-mail, storage | `main.go`, `api`, `admin`, `landing`, `internal/platform` | none of their own | routing, rendering, I/O |

A webhook call is answered at once, and each message in it is handled by a
goroutine of its own (`webhook.go:111`). The goroutine reads the session,
enters the flow engine, and the engine calls a module's `HandleCommand`, which
calls its service, which issues one Postgres or Redis statement after another.
There is no lock, no queue and no memory of message ids between goroutines:
the messages of one client, of a client and an employee, or the same message
twice run at the same time. Admins change the configuration over HTTP meanwhile.

### What is hard

* **Interleaving.** Every handler is a sequence of statements. What protects it
  is the WHERE clause of an UPDATE under a row lock, a unique index, or GETDEL;
  where a handler reads in one statement and acts in another, nothing does.
* **Partial failure.** A handler can fail, or the server stop, between any two
  statements. `WithTx` undoes a transaction; what lies outside one stays.
* **Time.** Codes, correction windows, cards and redemptions expire by
  comparison with the clock at the moment somebody looks.
* **Delivery.** Messages and receipts arrive twice, and late.

### What makes each part correct

* *Points program*: a client's balance is the replay of the client's ledger;
  the count of a reward is the number of its redemptions and within its stock;
  a redemption and its ledger entry exist together or not at all; one receipt
  and one issue of a load code credit once; a confirmation is final.
* *Cashback program*: the same, and the caps hold under concurrent credits.
* *Stamp card*: one open card per client, a one-way lifecycle, codes only for
  completed cards of their owner, no reward for a card that is not redeemed, a
  full card does get completed.
* *Flow engine and sessions*: a command is dispatched once with the data of its
  own flow; a reply is taken by the step that asked for it.
* *Accounts*: a reset token sets one password; a business has its admin.
* *Identity codes*: of the codes a client was shown only the last one works, and a
  request takes a code from somebody else only where the code was drawn twice.
* *Receipts*: two photos of one ticket have one fingerprint.
* *Feature flags*: after an update no reader sees the old flag for longer than
  one TTL; fields nobody named are kept.
* *Programs*: a program that is offered has its configuration, no edit is lost,
  and nothing switches a program on again by accident.

`PROJECT.json` lists the hazards of the code at their lines, with the
properties that look at each.

## 2. Plan

The modules were written in this order, the most important behaviour first, and
all of the plan's modules exist:

1. `EarnBurn`, the abstract `PointsContract` it implements, `EarnBurnProofs`.
2. `Pushcard`, `PushcardProofs`.
3. `Conversation`: the webhook, the sessions and the flow engine together;
   `ConversationProofs`.
4. `Cashback` over `Receipts`: the ledger of `EarnBurn` with caps, periods and
   credits that expire; `CashbackProofs`.
5. `IdentityCodes`, `IdentityCodesProofs`: the Redis keys both programs share.
6. `PasswordReset` over `RateLimiter`, `PasswordResetProofs`; `Accounts`,
   `AdminProofs` (its first half).
7. `FeatureFlags`, `FeatureFlagsProofs`; `Programs`, the second half of `AdminProofs`.

Every invariant and action property of the passing runs is stated by a theorem; the
two liveness properties are model-checked (section 5).

## 3. The modules

### EarnBurn

One `customer_sisfi` of the points program. The tables are `balance`, `ledger`
(the rows of `transactions_earnburn` in the order of their commits), `reward`
and `redemption`; `otp` is the part of Redis the program uses; `pc[p]` and
`job[p]` are the place and the local variables of the goroutine `p`; `closed`
and `lapsed` say whose `correctable_until` and `expires_at` have passed. The
history variables `issues` and `handed` count the load codes issued and the
"Entrega" replies given.

The transactions run at READ COMMITTED, the default of Postgres, which the code
does not change. An UPDATE waits for the lock of its row and then evaluates its
WHERE and its SET on the newest committed row; the lock lasts until the end of
the transaction. The model says this with two steps per row: the UPDATE computes
the new value into `job[p]` when nobody holds the row (`LockBalance`,
`ReserveStock`, `DeductBalance`), and the last statement of the transaction,
which is taken together with its COMMIT, writes it. Who holds which row follows
from `pc` (`HoldsReward`, `HoldsBalance`), so a rollback is only `Finish`.

| code | model |
|---|---|
| `AddPointsTx` | `UpsertBalance`, `InsertEarn` |
| `BurnPointsTx` | `ReserveStock`, `DeductBalance`, `InsertRedemption` (the two INSERTs and the COMMIT) |
| `SetOTP` after it | `CacheRedemption` |
| `AdjustPointsTx` | `CheckCorrectable`, `AdjustBalance`, `InsertAdjustment` |
| `ConfirmRedemption` | `ConfirmRedemption` (GETDEL), `ReadRedemption`, `MarkConfirmed` |
| a failing statement, a crash | `Abort` |
| `updateReward` | `UpdateReward` |
| `ExpireBalance` before a balance is shown | `CheckBalance`, `SelectExpiring`, `DeductExpired`, `InsertExpiration` |
| time | `CloseCorrection`, `LapseRedemption`, `ExpireOTP` |

Data that is abstracted: a receipt is a member of `Receipts`, or `NoReceipt`
when its fingerprint is not confident; a purchase is an amount in `Amounts`; the
6 digits of a code are a member of `Codes`, any of which `generateCode` may draw
again. Whether an entry is old enough to expire is a choice of `SelectExpiring`.
The type CHECK of `transactions_earnburn` does not know the type of an expiration
entry, so `InsertExpiration` can only fail and undo the deduction; that the
transaction does undo it is what the runs check. `points_cost` is taken as
positive (`ConfigAssumption`); the API checks only that it is not zero.

`PointsContract` is what the program promises, with nothing of how: five atomic
operations (`Credit`, `Correct`, `Redeem`, `Confirm`, `SetReward`) on balances,
entries, rewards and redemptions. `ImplementsContract` maps the committed state
of `EarnBurn` to it.

### Pushcard

One `customer_sisfi` of the stamp card. `card` and `stamp` are the tables in
insertion order, `undone` the stamps that were deleted, `config` the row of
`pushcard_config`, `code` the Redis keys; `stale` and `settled` say which cards
and stamps are past `card_expiry_days` and the two hours of `CorrectionWindow`.
This module uses no transactions, so every statement is a step and commits at
once.

| code | model |
|---|---|
| `AddStamp` | `AddStamp`, `GetOpenCard`, `CancelCard` when stale, `OpenCard`, `InsertStamp`, `ReadCount`, `CompleteCard` |
| `GetProgress` (check, redeem) | `CheckCard` or `Redeem`, `GetOpenCard`, `CancelCard`, `ReadCount` |
| `RequestRedemption` | `ListCards`, `SetCode` |
| `ConfirmRedemption` | `ConfirmRedemption` (GETDEL), `MarkRedeemed` or, on an error, `RestoreCode` |
| `UndoLastStamp` | `UndoLastStamp`, `GetCard`, `DeleteStamp`, `ReopenCard` |
| `UpsertConfig` | `UpsertConfig` |
| a failing statement, a crash | `Abort` |

`ListLimit` is the 50 of `RequestRedemption`. The age of a card is a Boolean
(past the limit or not), so a change of `card_expiry_days` from one number to
another is not told apart from none; that expiry is switched on or off is.

### Conversation

One phone number and everything that keeps its state: `session`, `selection`
(the pending list of businesses) and `flow[b]` are the Redis keys; `clients`,
`staff` and `programs` the rows the resolver looks up. A handler is a message's
goroutine; it carries in `job[p]` the session it read at the beginning, as the
code passes `uc` by value. The history is `dispatched`, the commands handed to a
module with the session and role they ran in; `left`, the sessions the phone has
left; and whether anything failed or overlapped.

The webhook and the flow engine are one module because every message runs
through both without a boundary in time: `processMessage` reads the session and
ends in `HandleMessage` of the engine. A message that creates a session goes on as an
empty text, with its photo if it has one (`Rest`); only the choice of a business after
`cambiar_negocio` ends there (`ends`).

| code | model |
|---|---|
| `processMessage`, the look at the session | `Receive`, `Backfill` |
| `cambiar_negocio`, `cambiar_rol` | `DeleteSession`, `ResetLeft`; `RegisterSwitch`, `FindSwitch`, `SaveRole`, `ResetRole` |
| `resolveContext` | `GetPending`, `DeletePending`, `Resolve`, `SavePending`, `Register` |
| `resolveAndCreateSession` | `ResetNew`, `FindCollaborator`, `FindClient`, `SaveSession` |
| `Engine.HandleMessage`, `startFlowWithData`, `processStep` | `GetFlow`, `SaveFlow`, `DeleteFlow` |
| `Registry.Dispatch` | `Dispatch` |
| a failing call, a restart | `Abort`; a TTL: `Expire`; the admin: `Administer` |

Texts, prompts and menus are left out. A message is a member of `Inbox`; what a
step collects is the name of its key, since no property looks at the value.

### Receipts and Cashback

`Receipts` is `ComputeFingerprint` as an operator: which fields of an extract
count and what normalising them forgets. `Cashback` extends it, so that a credit
is refused for a fingerprint that is in the ledger, as the unique index does.

`Cashback` has the tables of `EarnBurn` and its discipline of locks and commits.
What differs is the point of the module: `SumWindow` reads the sum of the period
at the beginning of the transaction and locks nothing, so `job[p].cap` and the
amount rest on what was committed then; `SelectExpiring` reads the credits to be
expired, and `CommitExpired` writes one entry for each of them; a correction
(`UpdateCashback` ... `InsertAdjustment`) recalculates at the rate of now. Money is
in cents, rates in ten-thousandths, time in days (`today`), with `closed` and
`lapsed` for the two hours of a correction and the one of a redemption.

| code | model |
|---|---|
| `AddCashback`, `AddCashbackTx` | `AddCashback`, `SumWindow`, `UpsertBalance`, `InsertEarn` |
| `ExpireBalance` | `CheckBalance`, `SelectExpiring`, `DeductExpired`, `CommitExpired` |
| `RequestRedemption`, `BurnCashbackTx` | `RequestRedemption`, `ReserveStock`, `DeductBalance`, `InsertRedemption` |
| `ConfirmRedemption` | `ConfirmRedemption`, `MarkConfirmed` |
| `UpdateCashback`, `AdjustCashbackTx` | `UpdateCashback`, `CheckCorrectable`, `AdjustBalance`, `InsertAdjustment` |
| `updateProgram`, `updateReward` | `UpdateProgram`, `UpdateReward` |

### IdentityCodes

`otp` is the `otp:{code}` keyspace that the points program and the cashback
program draw from together, `tracker` the active identity code of each client of
each program. `RequestIdentityOTP`, `DeleteOld`, `DeleteTracker`, `SetCode` and
`SetTracker` are its Redis calls in order, each of which may fail; `IssueOther` and
`ConsumeOTP` stand for redemption and load codes, which live among the identity
codes, and for a code typed where another kind is expected.

### RateLimiter, PasswordReset, Accounts

`RateLimiter` is `MemoryRateLimiter` as a value with `AfterAllow`, pruning and
sweeping included. The slice of hits of a key is a set here: the code filters and
counts it and never looks at its order, and a hit is its time and its place among
the hits of that time. `PasswordReset` puts one instance before each of
`ForgotPassword` and `ResetPassword`; `ConsumePasswordReset` is a transaction
(`UpdatePassword`, `MarkUsed`, `InvalidateOthers`, `Commit`) whose first statement
locks the row of the admin. `Accounts` is `Onboard`, `GoogleOnboard`, `Register`,
`GoogleLogin`, `LinkGoogle` and `UnlinkGoogle`, one step per statement and no
transaction around them, as in the code; the UNIQUE columns are the guards.
A password stands for the request that set it.

### FeatureFlags

`flags` is the table, `cache` the Redis entry. `Enabled` is `CacheGet`, `RepoGet`,
`CacheSet`, `Return`; `Update` is `UpsertGet`, `Upsert` (which writes the merged row
back whole) and `CacheDelete`. `stale` and `overlapped` name, from what handlers
read and when, the two races the code leaves open, so that the properties can say
that there are no others.

### Programs

`link` is `customer_sisfi`, `config` the row of the system's configuration table,
`page` what a tab of the admin panel has loaded. A page sends every field back, as
the forms of `admin/src/pages/programs` do, because `UpdateProgram` clears what is
left out (`Save`); its switch turns a program off, since the list shows active ones.
Any other client of the API sends what it likes, `active: true` for a program that
is off included (`PutProgram`). No list shows a program that is off, and the UNIQUE of
the link keeps it from being created anew: only a client that kept its id, or a page
that writes back an old row, switches it on again. The points program and the cashback program are created by one
transaction (`CreateProgram`, `InsertLink`, `InsertConfig`), the stamp card by two
requests (`LinkSystem`, `SisfiCreate`, `UpsertConfig`).

## 4. What is checked

Each run of `PROJECT.json` is `tlc -config <cfg> <module>` in this directory.
Every property of a passing run has a mutant: a definition of the model changed
the way a bug in the code would be ("Faulty variant" in the modules), under
which the run fails.

| run | instance | what it shows |
|---|---|---|
| `earnburn_redeem` | 2 clients, 1 employee who is one of them, so that the other is who can be credited, 1 reward, 2 codes, 4 messages, 1 update by the admin | stock, row locks, burns and redemptions while redemptions overlap and the stock changes; every message is finished, so no deadlock of rows and no transaction left open |
| `earnburn_credit` | 2 clients, 2 employees, one of them a client too, so that both clients can be credited and one of them by either employee; 2 codes, 1 receipt, 4 messages | identities, load codes, receipts, corrections, redemptions, confirmations and lazy expirations: the ledger replays to the balance; a load code credits once for each issue; a receipt sent by both employees at once, or for both clients, credits once; of two employees who confirm one redemption at once the first is the one it keeps; every transaction is one step of `PointsContract` |
| `pushcard_stamp` | 1 client, cards of 1 and 2 slots with and without expiry, 4 messages, 1 config update | one open card, a one-way lifecycle, a full card is completed when the handlers are done |
| `pushcard_redeem` | 2 clients, 2 codes, 4 messages, 1 failing handler, `ListLimit` 2 | codes belong to completed cards of their client and hand out one reward for each issue |
| `conversation` | 2 businesses of one name, 3 commands (a flow with a photo, one begun from a list, one without steps), 4 messages, 1 overlap, 1 disturbance | commands are complete, whatever overlaps and fails; in an orderly conversation each is executed once, in its session and role |
| `cashback` | 1 client, 1 code, 2 photos of one ticket, 3 messages, 1 update of the configuration, 2 days | ledger and balance, one credit per ticket, the cap of the period but for overlapping credits, expirations but for overlapping ones |
| `cashback_cap` | 1 client, 2 credits | violation: overlapping credits exceed the cap of the period |
| `identity` | 2 programs with 2 clients each, 3 codes, 4 draws, 1 failing call | an old code works after an overlap or a failure only; a request takes another's code only if the code was drawn again |
| `password_reset` | 2 admins, one of them registered in mixed case, 2 tokens, limits of 2, a clock of 2, 1 failure | used and older links are dead, a link works twice for overlapping requests only, the limiters hold |
| `accounts` | 2 admins, businesses, slugs and Google accounts, 2 attempts at a slug, 1 failure | Google links and hosted domains, but for links changed under a login; registrations that end halfway |
| `flags` | 1 flag, 1 customer, 2 updates, 1 failure | cache and table, answers, partial updates, and that a stale entry goes |
| `programs` | a points program and a stamp card, 2 tabs or clients of the API, 4 requests, 1 failure | offered programs have their configuration, edits survive, a program that is off is switched on only when asked, or by a row written back |

All runs have two handlers (`Procs`, `Tabs`). Two are enough for every race found
here, since each is between two statements of one handler and something another
does in between, which one handler at a time can do any number of times. The
bounds (`Max...`) are on messages, updates by the admin, failures and time; four
messages are what it takes to credit, redeem and confirm twice at once, and to
leave a second handler a message to race with in each shorter story. Limits are set to 2 and costs,
slots and stocks to 1, 2 and 3 so that each is met, missed by one and exceeded
within the bound on messages. Codes, handlers and other interchangeable values
are reduced by symmetry where no liveness is checked. `Quiescent` keeps a
behaviour that has used up its bounds from counting as a deadlock, so a deadlock
is a handler that cannot go on.

Fairness: `EarnBurn.FairSpec` asks weak fairness of the steps of each handler that
has a message, because the Go scheduler runs every goroutine and Postgres grants a
row lock that is free. `FeatureFlags.FairSpec` asks the same of each call, and that
Redis empties an entry whose TTL has run out. Nothing is assumed of messages
arriving, of clocks or of failures.

Some invariants of the modules are not in a run, because they support the others
rather than say something of the program: the `TypeOK` of the modules after
`Pushcard`, `FlowsAreInStep` of `Conversation`, `HeldRowsAreCurrent` and
`RedemptionsAreAccounted` of `Cashback`, `TrackedCodeWasDrawnForIt` of `IdentityCodes`,
`LiveHitsAreRemembered` of `PasswordReset`. TLC finds each of them to hold on the
same instances when it is added to the cfg.

### What the documents say and the code does not do

`cashback_cap` is a run and a finding in `PROJECT.json`: the comment of
`AddCashbackTx` says that concurrent requests cannot exceed the cap of a period.

The other disagreements are definitions at the end of their module, under a
heading of this name. Each quotes what it takes the sentence from; TLC refutes it
when it is added as an INVARIANT (or PROPERTY) to the cfg of a run of its module.

| definition | what happens |
|---|---|
| `EarnBurn.HandedOutOnce` | two employees confirm one redemption and both are told to hand it out |
| `EarnBurn.CorrectedToNewAmount` | a second correction of an entry is taken from the original amount |
| `EarnBurn.LapsedRedemptionIsResolved` | a redemption that lapses while pending is never resolved |
| `Pushcard.StampGoesToOpenCard` | a stamp goes to a card another handler has just completed |
| `Pushcard.UndoneCardIsReverted` | undoing the completing stamp leaves the card completed |
| `Pushcard.CardDeliveredOnce` | two codes of one card are both answered with the reward |
| `Conversation.RoleIsFound` | a new client who picks one of two businesses of one name from the list is not registered, and is turned away |
| `Cashback.FreshCashbackSurvives` | an expiration takes the whole old credit, spent or not, and so takes from newer ones |
| `IdentityCodes.OneIdentityCode` | two overlapping requests leave two identity codes that work |
| `PasswordReset.LinkIsUsedOnce` | two overlapping requests with one link both set a password |
| `FeatureFlags.UpdateShowsAtOnce` | a lookup that read before an update stores the old row after the invalidation |
| `FeatureFlags.PartialUpdateKeepsOtherFields` | two overlapping partial updates write each other's fields back |

The models show more of this kind, for which no sentence of the repository says
otherwise: lazy expiration of the points program never takes effect, since the
type CHECK refuses its entry (`InsertExpiration`); a correction that would leave a
negative balance is floored where the story rejects it (`LockBalance`); a client
may hold two unused load codes (`RequestLoadCode`); a card can expire between the
check of an undo and its DELETE (`GetCard`, `DeleteStamp`); a request for an identity
code deletes a code that was consumed, lapsed or overwritten and has been drawn for
somebody else since, because its tracker still names it (`DeleteOld`;
`IdentityCodes.RequestKeepsOtherCodes` says otherwise and is refuted); a completed card gets no
code while the next one is being filled (`ReadCount`), or when more than `ListLimit`
cards were completed after it (`ListCards`). Of the code that is not modelled:
`earnburn/api.go:130` asks only that `points_cost` is not zero, which
`ConfigAssumption` of `EarnBurn` strengthens to a positive one.

## 5. What is proved

`EarnBurnProofs` proves, for all values of the constants that satisfy the
assumptions of `EarnBurn` (positive costs and ratio, finite `Codes`, distinct
null values):

* `TypeCorrect`: `Spec => []TypeOK`. `TypeOK` alone is not inductive: that a
  balance stays a natural number depends on what a handler carries. `TypeInv`
  adds `RowsOK` (ledger entries have the sign of their type) and `JobsOK` (at each
  `pc`, which fields of the job are set, and the range of the amount).
* `RowLocksCorrect`: `Spec => []HeldRowsAreCurrent`. Inductive together with
  `TypeInv`; it is the reason no update is lost, and what every other fact about
  balances and stock stands on.
* `StockCorrect`: `Spec => []StockIsAccounted`, from the row locks and the
  cardinality of the set of redemptions, which grows by one code at each burn.
* `ConfirmationCorrect`: `Spec => ConfirmationIsFinal`, an action property.

The second half of the module goes on to the ledger. It first reduces the steps
to the three that post an entry, `PostsEarn`, `PostsAdjustment` and `PostsBurn`
(`PostStep`, `CommitStep`), so that the proofs look at those and not at all actions:

* `ReplayCorrect`: `Spec => []BalanceReplaysLedger`, from the row locks. It holds
  client by client (`ReplaysFor`): a new entry comes after the client's last one,
  whose `after` is the balance the new one was computed from.
* `BurnsCorrect`: `Spec => []BurnsMatchRedemptions`, inductive once burn entries are
  known to carry a code.
* `ReceiptCorrect`: `Spec => []ReceiptCreditedOnce`. The index is asked only by
  credits, so `ReceiptsCarried` says that nobody else carries a receipt.
* `LoadCodeCorrect`: `Spec => []LoadCodeCreditsOnce`, from `CountInv`: a code that
  waits in Redis, the handlers that consumed it (`Takers`) and the credits given for
  it are together no more than its issues.
* `RefinementCorrect`: `Spec => ImplementsContract`. The initial states map to the
  contract's (`ContractInit`), and every step to one of its operations or to a
  stutter (`ContractStep`). What is needed besides the row locks is `PaidInv`: when a
  redemption is inserted, the balance covers it.

`PushcardProofs` proves every safety property of `Pushcard` that the passing runs
check, for any number of clients, employees, codes and handlers, any list limit
and any bounds:

* `TypeCorrect`: `Spec => []TypeOK`. `TypeInv` adds `RowsOK` (stamps, codes and
  deliveries refer to cards that exist) and `JobsOK` (which fields of the job a
  handler at each `pc` has set). Every action is shown to keep it and, in the same
  lemma, to satisfy `CardsMove`: the cards move along the lifecycle, or one is
  opened for a client who has none. The rest of the proofs looks at `CardsMove`
  instead of the actions.
* `LifecycleCorrect`: `Spec => LifecycleIsOneWay`, from `CardsMove`.
* `OneOpenCardCorrect`: `Spec => []OneOpenCard`. The inductive form is
  `SoleOpenCard` (any two open cards of a client are the same one); it holds because
  only the unique index lets a card become open.
* `CodesCorrect`, `DeliveredCorrect`: from `CodeInv`, which also says that the
  card a handler holds while it stores or confirms a code is a completed or redeemed
  card of its client. Such a card stays so by `CardsMove`.
* `FullCardCorrect`: `Spec => []FullCardIsCompleted`, from `FullInv`: while no handler
  has failed and the slots are the same, a card that is open with all its stamps is
  held by a handler that has stamped it and has yet to count, or is about to
  complete it (`Counting`). A handler counts after its own stamp, undoing a stamp
  only lowers the count, and a card that was just opened has none.
* `CodeDeliversOnceCorrect`: from `CountInv`. A code that waits in Redis, the handlers
  that consumed it (`Takers`) and the rewards handed out for it are together no
  more than its issues. `Quiet` names what the steps that touch none of these have
  in common.

`IdentityCodesProofs` proves both properties of its run and the invariant behind
them, for any number of programs, clients, codes, handlers, draws and failures. Codes
are drawn with replacement, as in the code:

* `TypeCorrect`: `Spec => []TypeOK`, with `JobsOK` (what a request has set where it is).
* `TrackerCorrect` and `RedrawnCodesCorrect`, from `OwnInv`: the code a tracker names,
  and the codes a request holds, were drawn for its client and program. It is kept
  because what was drawn stays drawn (`DrawsGrow`). It does not say that such a code
  is still that client's: `RequestKeepsOtherCodes`, which does, is refuted (section 4).
* `OldCodesCorrect`, from `AloneInv`: for a client no request of whom overlapped or
  failed, which codes may work at each step of the one request (`KnowsCodes`) and
  between requests. A step of somebody else keeps it by `AloneStays`, a step of the
  request by `AloneMoves`. A request draws only when its client has no tracker, so a
  tracker outlives the code it names (`h \notin renewed`) and does not go before it.

`FeatureFlagsProofs` proves every safety property of its run, for any number of
flags, customers, calls, updates and failures, from one invariant, `Inv`. What it
adds to the properties is `HeldInv`: a row that a lookup or an update holds is the
table's until a write of another update makes it old (`RowOK`), and while a lookup
is quiet nothing can make the cache of its flag stale (`QuietOK`): no update is
about to delete the entry and no call holds an old row, because an update must
write before it can, and the write ends the quiet.

* `TypeCorrect`: `Spec => []TypeOK`, with `JobsOK`.
* `CacheCorrect`: `Spec => []CacheIsCurrent`. A lookup whose row is not old stores
  the row of the table (`RowOK`).
* `FieldsCorrect`: `Spec => []FieldsAreAsAsked`. Its inductive form, `FieldsInv`, also
  says it of a flag that has no row.
* `AnswersCorrect`: `Spec => []QuietAnswerIsRight`, from `QuietOK` and, for the answers
  that come from the cache, `CacheIsCurrent`.

`ConversationProofs` proves every property of its run, for any number of businesses,
commands, handlers, messages and failures, any commands and any inbox of the shapes
the assumptions of `Conversation` ask for. `TypeInv` holds whatever overlaps, lapses
or fails: with `JobsOK`, what a handler has set at each step, it has `FlowsOK`, that
a flow, stored or held, is at one of the steps of its command and has the keys of
the steps before it, which needs an induction over the steps that `preset` skips.

* `TypeCorrect`, `FlowsCorrect` and `DispatchCorrect` follow from `TypeInv`: no
  interleaving takes a flow beyond its steps or dispatches it incomplete.
* `SessionCorrect`, `OnceCorrect` and `LeftCorrect` are about orderly conversations and
  come from `OrderlyInv`: as long as no call has failed and no messages have
  overlapped, one handler at most is busy, and `Held` says what its job has to do
  with Redis and with the history, step by step (`HeldSession`, `HeldFlow`, and
  `Kept`, which also holds when no handler is busy). A TTL may run out and an admin
  may change the rows between any two of its calls; both keep `Held`.

`CashbackProofs` proves every property of the passing run of `Cashback`, for any
number of clients, employees, rewards, codes, photos and handlers, any rates and
limits the validation lets through, and any bounds. `TypeInv` has the types and what
a handler holds at each step; from it `NextWorks` reduces the steps to a few kinds
(`Works`: a handler rests, takes or keeps the lock of a balance, sums, selects,
deducts, or posts entries when it commits), and the rest looks at those.

* `TypeCorrect`: `Spec => []TypeOK`: no balance is ever below zero.
* `RowLocksCorrect`: `Spec => []HeldRowsAreCurrent`, inductive with `TypeInv`.
* `ReplayCorrect`: `Spec => []BalanceReplaysLedger`. A transaction may post several
  expirations at once, each computed from the one before, so what is posted is a
  chain from the balance held to the balance written; `ReplaysFor` speaks of
  neighbours among a client's entries and is extended by such a chain.
* `TicketCorrect`: `Spec => []TicketCreditedOnce`, from what `ComputeFingerprint`
  forgets: two photos of a ticket have one fingerprint.
* `ExpirationCorrect`: `Spec => ExpiredTwiceOnlyByOverlap`, from `ExpireInv`: what a
  transaction expires had not been expired in the ledger its SELECT saw.
* `PeriodCapCorrect`: `Spec => PeriodCapHolds`, from `CapInv`: a credit on its way and
  what its SELECT summed are within the cap. The sum of a set of entries is a
  function over the subsets of the ledger; that it is what it should be for every
  finite set (`AmountOf`) is proved by a minimal counterexample, with the theorems
  on well-founded orderings that take no operator.
* `RedemptionsCorrect`: `Spec => []RedemptionsAreAccounted`, which is in no run, from
  `RedeemInv`: the row of a reserved unit is held until the transaction ends, so the
  count it will write is the next one (`HeldRewards`); a reward has as many
  redemptions as its count, within its stock (`StockInv`); a redemption has one burn
  entry of its client and amount, and a code without redemption has none
  (`BurnInv`). That redemptions are finitely many is part of the invariant, so
  nothing is assumed of how many codes there are.

The first half of `AdminProofs` proves every invariant of the run of `Accounts`, for
any number of admins, businesses, e-mail addresses, Google accounts, requests and failing statements.
`TypeInv` adds to the types what a request has set at each step, in particular that
whoever is about to create an admin has a business that exists.

* `TypeCorrect`: `Spec => []TypeOK`.
* `DomainCorrect` and `SignInCorrect`, from `LinkInv`: no two admins have one Google
  account, which is what the UNIQUE column is for (`SubsApart`), and a login that
  has found or linked its admin is right about the account, unless somebody
  unlinked it or linked another one meanwhile (`LoginsHold`). Both properties leave
  out the admins whose link was so changed (`crossed`): there, in the code as in the
  model, `RefreshProfile` may write a hosted domain after `UnlinkGoogle` removed it.
* `BusinessesCorrect`: `BusinessesHaveAdmins` is inductive with the types: a request
  that ends before its last step leaves its business among those given up, and no
  request holds the business of another.

The second half of `AdminProofs` proves every property of the run of `Programs`, for
any number of systems, tabs, requests and failures and any set of names, limits
and ratios; the module extends both, so `Programs` names its specification
`ProgramsSpec` and its variables `stage` and `call` rather than `pc` and `job`. The
inductive invariant is `PanelInv`:

* `PanelType`: the types, and what a request holds at each step (`TabFits`).
* `WholeOrHalf`: a system has its link and its configuration, or neither, or it is
  among `half`, with the link only.
* `ThereInv`: a request updates, and a page shows, what exists. A page showed it as
  active.
* `HeldInv`: the row of a link that a transaction read for update is as it read it, and
  it is the only one to hold it; so the columns its second statement writes are
  those the first one left.
* `FreshInv`: what a tab that is not outdated shows, or has read, is what the rows
  hold.
* `AgreeInv`: the rows hold what was asked for, unless the system is among
  `overlapped`. It is not inductive without the three before it: a form sends back
  the fields nobody edited, which is right only while they are the current ones.

Every action is one of four kinds (`PanelStep`: a request starts, goes on without
writing, takes a row, or writes), and each part is kept by each kind.

* `PanelTypeCorrect`: `ProgramsSpec => []ProgramsTypeOK`.
* `OfferedCorrect`: `ProgramsSpec => []OfferedProgramsAnswer`, from `WholeOrHalf`.
* `ProgramFieldsCorrect`: `ProgramsSpec => []FieldsAreAsAsked`, from `AgreeInv`.
* `ReactivationCorrect`: `ProgramsSpec => ReactivatedOnlyWhenAsked`, from `ThereInv`,
  `HeldInv` and `FreshInv`: an update gives the row it holds the value asked for, and
  the forms of the panel ask at most to switch off.

`PasswordResetProofs` proves what resets do to links, for any number of admins,
links, requests and failures, and whatever the limiters let through; and, of the
limiters, what they let through. `TypeInv` says
that a link, mailed, held or used, was created and stays its admin's (`LinksMove`
is what a step may do to the links), and what a transaction knows:

* `EarlierLinksCorrect`: `Spec => []EarlierLinksAreDead`. What the transaction found
  and does not mark is used when it commits, since links are never unused again.
* `OverlapCorrect`: `Spec => []UsedTwiceOnlyByOverlap`, from `HolderInv`: a link that
  has set a password is used, so nobody takes it any more, and a link no two
  requests have held has one holder at most, for whom it has set none.
* `BurstCorrect` and `LiveHitsCorrect`, from `LimitersInv`: what a limiter still
  remembers of the window that ends now is what it allowed in it (`Remembers`), and
  no two allowed calls are counted as one (`Numbered`: hits of one time are
  numbered from 0, and leave the window together). So the count `Allow` compares
  with its limit is the number of allowed calls, whatever was pruned or swept, for
  every limit, window and period of the sweep. `LiveHitsAreRemembered` is in no run.

What stays model-checked only is liveness (`EveryMessageFinishes` of `EarnBurn`,
`StaleEntryGoes` of `FeatureFlags`), because `ENABLED` and fairness are out of reach of
the prover.

## 6. What is not modelled

* *Collaborators and clients* are rows inserted and replaced by one statement each;
  what other modules read of them is a set (`clients`, `staff`). The variants of a
  phone number are rewriting of strings.
* *The onboarding wizard* keeps one row per business, written by one statement whose
  GREATEST keeps the step from going back. There is no interleaving to check.
* *The receipt processor* is a call to a model that reads a photo. What it returns
  is any extract (`Receipts`), and that it may fail is in the handlers.
* *Routing, JSON, the authentication middleware, the admin panel and the landing
  pages* keep no state that two handlers share. What the program pages of the panel
  hold between loading and saving is in `Programs`.
* *WhatsApp, e-mail, storage and Google* are clients of external services; the
  models that call them take their failures as nondeterministic, and a Google
  token as already verified.
* Within modelled parts: the password login, which changes nothing; listings,
  metrics and feedback, which nothing modelled reads; `limit_per_client`, which is
  stored and read by no code; the load codes of the cashback program, which are line
  by line those of the points program (`EarnBurn`).
