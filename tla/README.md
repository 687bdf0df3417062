# Verification of Pregão

Pregão is an order management service: a gRPC server that quotes prices, places market orders at
a broker (Binance) for tenants, and settles the fills it hears of through the ledger (Livro) or
the portfolio system (Ativos). This directory holds TLA+ models of its core, the TLC
configurations that check them, and TLAPS proofs.

## 1. The system

| Part | State | Operations | Talks to |
|---|---|---|---|
| `service.ExecuteTrade` | none of its own; one goroutine per call, on any replica | reserve a row, get and decrypt credentials, place the order, record the answer, settle an immediate fill, release the reservation | PostgreSQL, vault, Binance, fill processor |
| `db.OrdersRepository` | table `broker_orders`, unique by `trade_intent_id` and by `(tenant_id, idempotency_key)` where the key is not empty | ReserveOrder, ConfirmOrder, ReleaseOrder, three lookups, UpdateOrderFill; each is one statement | PostgreSQL |
| `webhook.Server` | none | one HTTP handler per execution report | fill processor |
| `worker.fillProcessor` | none: it reads the row, settles, writes the row back | ProcessFill | PostgreSQL, Ativos or Livro |
| `service.GetQuotes` | none | cache, broker, stale fallback | Redis, Binance |
| `cache.redisQuotesCache` | two keys per symbol, 5 s and 24 h | GetQuotes, SetQuotes, GetStaleQuotes | Redis |
| `binance.Client` | none | GetBookTickers, PlaceMarketOrder, GetAccountBalances, ValidateSymbols, step sizes | Binance |
| `vault.Client` | plaintext buffers that are zeroed | Decrypt, DecryptCredentials, Zero | OpenBao |
| `db.CredentialsRepository` | table `broker_credentials` | GetCredentials, SaveCredentials (called by no flow of the server) | PostgreSQL |
| `service.SyncBrokerBalances` | none | compares the broker's fiat balance with the ledger's | vault, Binance, Livro |
| `service.ValidateTickers` | none | passes one reply of the broker on | Binance |
| `livro`, `ativos` clients | none | CaptureHold, Credit, GetBalance, GetOrCreateBrokerAccount; SyncBrokerExecution | gRPC |
| `main` | the two servers, the repositories (nil in degraded mode), the shutdown timer | load, connect, migrate, listen, drain, stop | signals, Kubernetes |

What is hard about it. There are no locks: concurrent calls meet only in the database, in Redis
and at the broker, and between two statements of one call anything may happen. Every remote
answer may be lost after its effect. A pod may die with a reservation in the table. A webhook may
arrive before the order it is about is recorded, twice, or out of order. The fill processor reads,
calls another system and writes, without a transaction. Quote calls overwrite each other's cache
entries. An audit reads two balances that move, at different moments, and plaintext credentials must
be wiped on every path, though no single place does it. A shutdown races with requests, a timer and the end of the grace period.
`PROJECT.json` lists these hazards with the line where each one bites.

What makes each part correct:
* ExecuteTrade: conflicting calls never hold the reservation together; at most one order of an
  intent or key is acknowledged; an answer names a real order; every call ends unless Ativos or Livro
  keeps it waiting; a reservation is recorded or released.
* Fills: the row, the settlement and the average price agree with what the broker reported,
  whatever attempt failed half-way; a hold is released only by the completing fill; a complete row
  stays as it is.
* Quotes: the age behind a price is bounded; timestamps are the second of the broker's
  answer; a failing broker is answered from the cache; no symbol is dropped silently.
* Audit: a report is true of a broker balance and a later ledger balance; plaintext
  credentials are wiped (with one exception, section 3).
* Server: accepted RPCs are drained, webhooks have the shutdown timeout, the process ends once its
  RPCs have.

## 2. Modules

| Module | Models |
|---|---|
| `OrdersRepo` | `internal/db/orders_repo.go` and the schema: one operator per statement, from table to table |
| `ExecuteTrade` | `ExecuteTrade`, `reserveOrder`, `releaseReservation`, `PlaceMarketOrder`: one action per statement, remote call or wait |
| `IdempotencyGate` | the abstract promise: take, record, give back, leave, tell |
| `Webhook` | what the handler makes of an execution report |
| `Decimals` | the rounding of `decimal.Div` and `StringFixed`, and `TruncateToStepSize` |
| `FillProcessor` | `ProcessFill` for one order, called by webhook handlers and by ExecuteTrade |
| `Settlement` | the abstract promise of the fill processor: execute, settle the next fill, book what was settled |
| `QuotesCache` | `internal/cache/redis.go`: the two keys, their expiry and the functions on them |
| `GetQuotes` | `GetQuotes` over the cache and `GetBookTickers`, with a clock |
| `Reconcile` | `SyncBrokerBalances` with `GetCredentials`, `DecryptCredentials`, `GetAccountBalances`, `GetOrCreateBrokerAccount` and `GetBalance` |
| `Server` | `main`, `config.Load` and `internal/db/db.go`: the life of a pod |
| `MCExecuteTrade`, `MCFillProcessor`, `MCGetQuotes`, `MCReconcile` | instances for TLC (`Server` needs none) |
| `ExecuteTradeProofs`, `GateProofs`, `FillProcessorProofs`, `GetQuotesProofs`, `ReconcileProofs`, `ServerProofs` | theorems |
| `ArithmeticProofs` | what `Decimals` computes, and sums over finite sets |

**ExecuteTrade.** `orders` is the table, keyed by the uuid that each call draws; since every call
draws a fresh one, row ids, call ids and the orders placed at the broker share one set `Ids`.
`pc[r]` is the place of call `r`; `canceled[r]` its request context; `expired[r]` the
`reservationWait` deadline; `wire[r]` what the broker made of its order; `answer[r]` the gRPC code
and order it returned. The input checks are one choice between `Arrive` and `RejectInvalid`.
Statements on the request context (`Reserve`, the lookups, `GetCredentials`) may fail when the
context is done or the database is down, and a failed insert may have committed. `Confirm` and
`Release` run detached, as in the code, and fail only with the database. `ReplyLost` covers the
HTTP timeout, a broken connection, an unreadable body and a canceled context: `PlaceMarketOrder`
returns the same kind of error for all of them, whatever the broker did. The broker accepts an
order at any time after it was sent, also after the sender gave up, and rejects a client order id
(the trade intent) only while another order with that id is open. `WebhookFill` and `Settle` write
a fill status to the row; what they do to the quantities is in `FillProcessor`. `faults`, fixed in
`Init`, says which of database errors, disconnects, crashes and lost replies a behaviour may have.

**FillProcessor.** One order is enough because rows, settlement keys and holds of different orders
never meet. `reports` is what the broker reported, `pending` what the webhook sender still has to
deliver; a report leaves `pending` when it is answered with anything but 500. `row`, read into
`seen[w]` by worker `w`, is written back from `seen[w]` and `job[w]`. Ativos and Livro are external:
they apply an idempotency key once (a repeated key is answered with success) and their answer may be lost
after the effect. Ativos is sent the exact value, Livro an amount with four decimals (`Amount`).
`total` is the target cut to one of the step sizes; the broker may cancel what is not executed.
Quantities have at most the eight digits of their columns. Prices are integers in the last digit that
`decimal.Div` keeps, and `Digit` of them make up the last digit of `average_fill_price`, a
`NUMERIC(28, 4)`: every price that is written, the first as well, is rounded to it (`Stored`), a mean
after `Div` has rounded it already. Values are integers of which `Unit` make up 0.0001. `channel` says how fills are reported: `webhook` (in order, answers seen),
`shuffled` (one after the other, in any order), `repeat` (after the row was written the
acknowledgement may be lost and the report sent again), `reply` (a fill that precedes the reply to
the placement is reported there alone), `both`.

**GetQuotes.** A price is represented by the time `seen` at which the broker quoted it. `SetQuotes`
runs its pipeline command by command (`SetNext`), because a Redis pipeline is not a transaction.
Every remote request is over `StepTime` after it began (the HTTP client's and the Redis client's
timeouts), so the clock does not pass that point (`Tick`). When `SetQuotes` returns an error, commands
that were sent may still run for up to `Linger` or never (`SetNext`, `DropCommands`). A timestamp is
`now \div Second`, as `time.Now().Unix()` cuts it to whole seconds. The code keys the tickers by the
symbols in the broker's answer; that these are among the symbols asked for is assumed of the broker. `redisFaults`, fixed in `Init`, says
whether Redis may fail; the broker may always fail. A Redis value that does not decode is left out: only
`SetQuotes` writes those keys.

**Reconcile.** Every remote call of `SyncBrokerBalances` is one action, and `BrokerMoves` and
`LedgerMoves` may happen between any two of them. `creds[r]` is what the buffers that call `r` decoded
plaintexts into hold: nothing, an empty plaintext (which the broker client refuses before its deferred
`Zero`) or a plaintext. Three places wipe, and each is modelled where it is: the loop in
`DecryptCredentials` when the secret fails after the key (`DecryptSecret`), the `Zero` that
`GetAccountBalances` defers, and the `Zero` that the handler defers once decryption succeeded (the refused
credentials of `GetAccountBalances`, and `Report`). `batch` is the buffer of a batch answer of which one
half decodes and the other does not; nothing wipes it. The response bodies and the copy of the key that
goes into a header are strings the code cannot wipe, and are not tracked. `span[r]` is a history
variable: the broker's cash at the moments up to the read of it, the audited balance at the moments
from then on. `InitializeAccount` may create the account and lose its answer, and an existing account
may be answered or refused; `LookupAccount` then looks for it. `faults` holds "livro" (its calls may
fail), "garbled" (balances that do not parse are skipped) and "base64" (such a half-decoded batch).

**Server.** `phase` is where `main` is. The HTTP port opens in a goroutine (`ListenAndServe`), which may
fail or come after the gRPC port, although a comment of the deployment calls the gRPC port the last
thing to open. A database that cannot be reached leaves `repos` FALSE: RPCs that use a repository
then panic and take the process with them, webhooks panic inside `net/http`, which recovers.
`Terminate` starts the timer of `shutdownCtx` and closes the gRPC port; `GracefulStop` and `Shutdown`
are the moments these calls return. A reflection stream (`reflection.Register`) is an RPC that uses no
repository, one of the `Reads`. `Kill` is the SIGKILL at the end of the grace period (30 s in the
deployment, longer than the 5 s of `shutdownCtx`).

Definitions whose comment begins with "Fault:" are wrong variants of a definition, kept beside it;
each one breaks the property named with it under "mutants" in `PROJECT.json`, which shows that the
property depends on that line of the code.

## 3. What is checked

| Run | Configuration | Result |
|---|---|---|
| `execute_trade_gate` | 2 calls over 3 requests (same intent, same key, no key), every fault or lost replies alone, with fairness; 351,592 states | all eleven properties hold: `ExclusiveDispatch`, `OneAcknowledgedOrder`, `SecondOrderIsReported`, `AnswerIsReal`, `FailureRecordsNothing`, `NoStrandedReservation`, `ImplementsGate`, `RecordedOrdersStay`, `EveryCallEnds`, `ReservationSettles`, `TypeOK` |
| `execute_trade_lost_reply` | 2 calls, replies get lost | `OnePlacement` is violated |
| `execute_trade_disconnect` | 2 calls, callers disconnect | `NoStrandedReservation` is violated |
| `fills_in_order` | 1 handler, quantity up to 4 in up to 4 reports at two prices, two step sizes, all routes, four channels, cancellations; 1.8 million states | all ten properties hold |
| `fills_filled` | 1 handler, fills reported in the reply | `FilledMeansComplete` is violated |
| `fills_reply_and_webhook` | fills reported in the reply and by webhook | `NoDoubleCount` is violated |
| `fills_concurrent` | 2 handlers, reports at once and in any order | `NoLostFill` is violated |
| `fills_canceled` | 1 handler, in order | `CancellationVoidsHold` is violated |
| `quotes` | 2 calls, 2 symbols, Redis works or fails, clock up to 8; 1.4 million states | all six properties hold |
| `reconcile_audit` | 2 calls, for a user or the clearing account, Livro connected or not, without faults and with all three; 1.0 million states | `ReportIsWitnessed`, `CredentialsWiped` hold |
| `reconcile_livro_down` | 1 call, Livro fails | `InSyncMeansEqual` is violated |
| `server_life` | 2 trades, 1 read, 2 webhooks, any number of restarts, with fairness | `RpcsAreDrained`, `HooksHaveTheTimeout`, `StopsEventually` hold |

**The seven violations** disagree with what the repository says of itself.
1. *Lost reply* (`service.go:291`). Every error of `PlaceMarketOrder` leads to the deferred release,
   also a timeout after the broker accepted the order; the retry then places a second one. The
   guide promises exactly one placement. `SecondOrderIsReported` is what does hold: behind every
   second order some caller was answered `Unavailable`, and crashes, database errors or polling
   alone never cause one.
2. *Disconnect* (`service.go:350`). The insert runs on the request context and the release is
   deferred only after it: a disconnect while it commits strands a `PENDING` row.
3. *Reply and webhook* (`service.go:321`). A fill that is in the reply and also comes by webhook
   is added twice.
4. *Concurrent fills* (`fill_processor.go:64`). Two fills processed at once are computed from the
   same row, and one is overwritten.
5. *FILLED with nothing filled* (`service.go:331`). `ConfirmOrder` stores the `FILLED` of the reply with a
   `filled_quantity` of 0, to let `ProcessFill` add it; when `ProcessFill` fails, the error is only
   logged. The row then says `FILLED`, which the guide (`:107`) calls 100% completed with the final hold
   captured, although nothing is booked, nothing settled and nobody tries again. That a `FILLED` row
   changes again is against the guide's state diagram too (`:97`, "FILLED --> [*]"): it happens here when
   `ProcessFill` succeeds, and with shuffled reports of a truncated order, which go from `FILLED` back to
   `PARTIAL` after the rest of the hold was released. `CompleteIsFinal` is what does hold: a row that
   shows the whole quantity never changes again.
6. *Cancellation* (`handler.go:91`). The report of an order canceled before any fill is ignored: the
   row stays `SUBMITTED` and no call voids the hold, which the guide says is voided in full.
7. *Livro down* (`service.go:451`). A ledger balance that could not be read counts as zero, so an
   empty broker account is reported in sync with whatever the ledger holds.

Two more disagreements need no run. Timestamps are in seconds (`service.go:136`), where the guide has
"Epoch milliseconds" (`:227`) and reads them with `time.UnixMilli` (`:306`); `TimestampIsHonest` is stated
in the code's seconds. And a batch of which one plaintext decodes and the other does not leaves the
decoded one in memory (`vault/client.go:209-217`), where the guide (`:68`) has credentials wiped without
exception; `CredentialsWiped` excepts exactly that buffer.

What the fill properties do not claim: with `shuffled` reports and a settlement whose row was not
written, the next fill of the order settles under another cumulative quantity, so
`SettlementMatchesRow` is stated for senders that keep the order; the same happens when the fill of the
reply and a webhook overlap. No line of the repository promises that order. `ReleasedWhenComplete`,
`SettledValueIsExact`, the second half of `OrderIsTruncated` and `ImplementsSettlement` are stated for
webhooks in order. Once a row was written, `FilledIsAnswered` and `AverageIsVWAP` count on its
acknowledgement; a write that is acknowledged as an error is in the channel `repeat`. A quantity with
more digits than the division of `TruncateToStepSize` keeps (16) may be rounded up to the next step;
`StepsAssumption` leaves it out. In the audit the adjustment is stated with the code's own rounding to
four digits.

**Bounds.** Two calls show every pairwise race of the gate; a third, which could take over a released
reservation while another one polls, is covered by the theorems, which hold for any number of calls.
One key and two intents, one of them also without the key, give conflicts by intent and
by key alone. The instances have one tenant: the theorems cover keys shared by tenants. Four reports
allow an ignored or malformed report, a partial fill, a further one and the completing one, or a
cancellation in their place. `Target` 4 with step sizes 1 and 3 gives an order that is cut to the
step size and one that is not; `Scale` 10 makes the division of 4 by 3 inexact; `Unit` 3 makes the
amounts of Livro inexact; prices 1 and 50 with `Digit` 2 make the column round a first price and a mean. `MaxFilled` caps what repeated webhooks can add up. In the quotes run the clock goes up to 8, past both bounds of `AgeIsBounded` (6 for a price
without the flag, 7 for a flagged one), and the stale key lives long enough for a price served from it
without the flag to be out of bounds; two ticks are a second.
The audit's two holdings and two balances give equal and different cash, with a second asset that
must not count; its two calls race for the clearing account. Two webhooks and three RPCs let one
request panic, drain or be cut off next to others of both kinds. `CHECK_DEADLOCK FALSE` is used for
the fills alone: the model rests when every report was delivered.

**Fairness.** `FairSpec` of `ExecuteTrade` assumes that a handler that can take a step takes one, except
inside `ProcessFill`, and that time passes (`Expire`). What justifies it are the Go scheduler, the
timeouts of the HTTP clients for vault and broker, the 5 s of the detached writes, and a database
connection that answers or breaks. The step that ends a wait for a silent broker is `ReplyLost`, so the
fault sets of the run contain "reply". Nothing is assumed of callers, the broker, webhooks, Ativos or Livro:
`ProcessFill` calls the last two on the request context, without a deadline, and a call there may wait
as long as its caller does (`MayHang`). `EveryCallEnds` therefore says that a call ends or waits there;
`ReservationSettles` needs no exception, because the row is recorded before. In `Server`, `main` goes on and the
timer fires, and nothing else is assumed: RPCs may hang in Livro or Ativos, reflection streams stay
open, webhook senders hold their connections. `GracefulStop` waits for RPCs without a bound (`shutdownCtx`
is for the HTTP server alone), so `StopsEventually` begins where no RPC is running; a pod whose RPC
hangs is ended by the SIGKILL after 30 s, which is not assumed to come. A handler that
holds a database connection delays the deferred `pool.Close`; it reads the request before it takes
one, so a slow sender does not.

## 4. What is proved

The theorems hold for every value of the constants, from the named assumptions of the modules: null
values are distinct from values, requests, reply statuses, balances and fault sets have their types,
times to live and step times are numbers, a second has at least one tick, prices and the target are positive, and a step size is below
twice the precision of the division.

`ExecuteTradeProofs` and `GateProofs`, for any set of calls, requests, intents, tenants and keys and
any faults:

* `TypeCorrect`, and with the inductive invariant `IInv`: `DispatchIsExclusive`, `AcknowledgedOnce`,
  `AnswersAreReal`, `FailuresRecordNothing`, `SecondOrdersAreReported`, `RecordedOrdersAreKept`;
* `ReservationsAreAttended`: while callers do not disconnect, `NoStrandedReservation` holds; and
  `PlacedOnceIfAnswered`: while no reply is lost and no caller disconnects, `OnePlacement` holds,
  whatever crashes and database errors there are. The two violations show that these
  conditions are needed;
* `Refinement`: ExecuteTrade implements `IdempotencyGate`, where a row that is `PENDING` maps to
  "held", any other row to "recorded", and no row to "new" or "over" by the place of the call.

None of these properties is inductive. `IInv` adds what the code relies on without saying it: a row
carries the request of the call that inserted it (`OwnRow`), so the unique constraints on rows are
constraints on calls (`Unique`); a call past the insert has its row, and nobody else can settle it
(`Holds`); a recorded row names the order of its own call and that order was accepted (`RowState`);
a call that never reserved sent nothing (`Fresh`); what each place knows about the order (`Knows`);
an order without a row was answered `Unavailable` (`Reported`); and an OK is backed by a row or by
another call's recorded order (`Backed`). Preservation is split by kind of step: local steps,
lookups, the insert, the settling writes, and the surroundings, with one frame lemma for all the
calls a step does not touch.

`FillProcessorProofs`, for any handlers, prices, targets, step sizes and numbers of reports, and with
any attempts that fail half-way: `TypeCorrect` and, for webhooks that are not
sent at once (`~Unordered`; `fills_concurrent` shows that it is needed):

* `FilledQuantityIsAnswered` and `RunningAverageIsVWAP`, in whatever order the webhooks come;
* `SettlementFollowsRow`, also when webhooks are repeated after their row was written;
* `SettledCashIsExact`, `ReleaseCompletes`, `OrdersAreTruncated` for fills in order;
* `NothingIsCountedTwice` and `CompleteRowIsFinal`, provided that no fill is reported in the reply and by webhook too (`"both"`
  is not among the channels; `fills_reply_and_webhook` shows that it is needed);
* `SettlementRefinement`: for fills in order and a downstream that settles, the fill processor
  implements `Settlement`, where `broker.qty` is what was executed, `ledger.qty` what was settled and
  `row.filled` what was booked. The keys, the retries and the lost answers are steps that leave these alone.

The argument is a chain of inductive invariants, each using the ones before it. `StatusInv`: a `PENDING` row
shows nothing. `BrokerInv`: the reported fills
follow each other without a gap, each within what was executed, and exactly the one that completes the
order says `FILLED`. `TurnInv`: at most one handler is at work, with the event of a report the sender
still has (the oldest one, in order), and the row it read is the row it is about to replace; this is what stands
in for the lock the code does not take. `OrderInv`: the fills up to `row.filled` are answered, those after
it outstanding, so what is added to the row that was read is the cumulative quantity of the report, and
`FILLED` is computed only from the last one. `LedgerInv`: ledger and row agree (`Even`), or the
ledger has the oldest outstanding fill as well, under the very key its next attempt will use (`Ahead`);
the key is therefore new exactly when the fill is not settled. `ReleaseInv` and `ValueInv` add
the hold and the cash: each new key allows for one more rounding. `RowInv` needs no order: the row and
the outstanding fills make up what was executed, and the average is off by half of the last digit of `Div` and of the column per report that
is not outstanding (a sharper bound than the property's, without which a write would use up the slack
of a fill that is still to come). `CountInv`, for a handler and ExecuteTrade at work together: neither
the row nor any row that somebody read holds part of what is still to be booked. With `PositiveInv` (whoever
is past the checks of `ProcessFill` adds something) a complete row leaves nothing to write. TLC checked each
invariant before it was proved.

The sums of the outstanding fills are folds over a set. `ArithmeticProofs` proves what happens to one
when an element joins or leaves (`SumAdd`, `SumRemove`), by induction on the size of the set in the form
of a least counterexample (`NatSet`), and the facts about rounding: `RoundedDivError`,
`MeanStep` (one more rounded mean adds at most half a unit), `MultipleError` (and its column half a digit), and `TruncateIsFloor`: although
`TruncateToStepSize` divides with rounding before it takes the floor, it returns a multiple of the step
that is not above the quantity and short of it by less than a step.

`GetQuotesProofs`, for any calls, symbols and times to live: `TypeCorrect`, `AgesAreBounded`,
`TimestampsAreHonest`, `NothingIsForgotten`, `StaleKeysOutliveFresh`, `FailuresDegradeToCache`. The
invariant bounds the age of every cached entry by what is left of its expiry, the age of the quotes
each call carries by the step it is in, or by `Linger` after an error, and says, of a working Redis, that a stale key expires after
the fresh key beside it unless some pipeline is between its two commands.

`ReconcileProofs`, for any calls, holdings and balances: `TypeCorrect`, `ReportsAreWitnessed`,
`CredentialsAreWiped`. The invariant says per call that what it has read, and what it is about to
read, is in its `span`, that a call that looks the account up finds it unless Livro fails, and that
the buffers it was handed are set only between the decryption and the signed request, whichever of
the three wipings ends that. Steps of other calls are
handled by one frame lemma.

`ServerProofs`, for any requests and restarts: `TypeCorrect`, `RpcsAreAlwaysDrained`,
`HooksAlwaysHaveTheTimeout`. The invariant ties the servers' states to the phase: no RPC runs once
GracefulStop returned or before the port opened.

Only model-checked: the liveness properties (`EveryCallEnds`, `ReservationSettles`,
`StopsEventually`), because fairness and ENABLED are outside what TLAPS proves. Every other property of
a passing run is a theorem.

## 5. What is not modelled

Request signing, number formatting, logging and the values of the configuration; `ValidateTickers`
and `ValidateSymbols`, which keep no state and pass one reply on (as running RPCs they are among the
`Reads` of `Server`); the broker enumeration and the wire types, since there is one provider; the
operator scripts; `SaveCredentials`, which the server never calls; `GetStaleQuote`, a read nothing
calls; the generic webhook payload, which reaches `ProcessFill` without conversion; a fill report whose last
quantity or price is missing (the operators `lastQty` and `lastPrice` have the fallbacks, with the rounding of
the division; the broker modelled here never sends one); quantities that overflow `NUMERIC(28, 8)`; a database that loses committed rows; repair by hand
of stuck `PENDING` rows.

## 6. Plan

Done: `OrdersRepo`, `ExecuteTrade`, `IdempotencyGate` with proofs and refinement; `Webhook`,
`Decimals`, `FillProcessor` with shuffled, repeated and canceled reports, step sizes and rounding, with
proofs and its refinement of `Settlement`;
`QuotesCache`, `GetQuotes` with proofs; `Reconcile` with proofs; `Server` with proofs.

Left, in order of importance:

1. Fills: what still relates ledger and row when the reply's fill and a webhook overlap (`reply`), where
   one write may replace the other; find the relation with TLC, then prove it.
2. `GetQuotes` as a refinement of a cache that answers with bounded age.
3. `OrderLifecycle`: `ExecuteTrade` composed with `FillProcessor`, with the quantities of the row.
