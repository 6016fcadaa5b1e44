# Dune Awakening Shop: a TLA+ model of the shop service

The program (Go, about 3 700 lines in `cmd/` and `internal/`) sells in-game
items of a Dune Awakening server through a Discord bot. Players link a Discord
user to a game account, earn or buy currency, and spend it on items and kits
that a delivery engine grants in the game. State lives in a PostgreSQL schema,
`dune_shop`; several goroutines of one process work on it at once.

## Inventory

| component | state | operations | hard behaviour | what makes it correct |
|---|---|---|---|---|
| `internal/store` accounts, wallets, ledger | `linked_accounts`, `wallets`, `transactions` | LinkAccount, LinkByDiscord, Credit, Refund, Balance | concurrent credits and debits of one wallet, relinking | balance = sum of the ledger, never negative; no game account shared |
| `internal/store` purchases | the above, `catalog_items`, `kits`, `kit_items` | Purchase, PurchaseKit, SetDeliveryStatus | the last unit, the last coin, a commit whose answer is lost | stock and sales agree; one spend row per charge |
| `internal/store` catalogue | `catalog_items`, `kits`, `kit_items` | UpsertItem, SetItemEnabled, CreateKit, AddKitItem, SetKitEnabled | edits during a purchase | a purchase uses one consistent version of its offer |
| `internal/store` inventory | none (reads the game's tables) | BackpackSpaceByGameAccount, HasRoom | read long before it matters | nobody pays for what cannot be carried |
| `internal/store` migrations | `schema_migrations` | Migrate | two processes at once | each migration applied once |
| `internal/shop` | the locals of each `Buy` or `BuyKit` call | Buy, BuyKit | a chain of store and engine calls, any of which may fail or be cut off | paid and delivered, or paid and refunded, or not paid |
| `internal/delivery` | none | FLS, RMQ, Multi | lost answers, fallback after a grant | at most one grant per purchase |
| `internal/economy` | none | accrual tick, vote and payment webhooks | lookup then credit, retried webhooks | every reward credited to its owner, once |
| `internal/discord` | none | one handler per command | one goroutine per interaction | the answer tells what happened |
| `internal/web` | signed cookies | login, catalogue mutations, listings | expiry, stale pages | edits apply to what the admin saw |
| `cmd/dune-shop` | process | start, shutdown, seed, setup | shutdown while handlers run | no purchase is cut in half |
| `internal/config` | none | Load, applyEnv, validate | a restart with another configuration | what runs is what was validated |
| SPA, setup wizard | none | display, questions | none | not modelled |

Interaction: the bot calls the shop service, the shop calls the store and the
engine, the webhooks and the accrual worker call the store, the dashboard calls
the store. Every shared variable is a row of the database; the only local state
that outlives a call is the locals of a running `Buy` or `BuyKit`.

## Modules

| module | what it models |
|---|---|
| `Store` | the tables and the write operations of `internal/store`, one step per database transaction |
| `StoreTx` | the same operations statement by statement, with row locks, a connection pool, rollbacks and deadlocks; it implements `StoreSpec` |
| `Escrow` | the contract of the purchase flow about money, with no database in it |
| `Shop` | `Buy` and `BuyKit`, one action per call they make, on top of `Store`; it implements both `Store` and `Escrow` |
| `Grants` | what a delivery promises its caller |
| `Delivery` | the two engines, `Multi`, and what they send; it implements `Grants` |
| `Economy` | the accrual worker and the webhooks over `Store`, with providers, relinks, failing calls and a stop |
| `Migrate` | `Store.Migrate`, run by several processes on one database |
| `Seed` | the seed command on top of `Migrate`, beside servers that start and admins that add entries |
| `Browse` | the listings of items and kits over `Store`, and purchases of what they showed |
| `Lifecycle` | `main`: the start of the parts, the signal, the deferred calls, the pool, the tasks of the parts |
| `WebSession` | the dashboard's tokens over restarts with another configuration |
| `MCShop`, `MCSeed` | definitions of constants for TLC |
| `Store_proofs` | the store: types, ledger, stock, accounts |
| `Shop_proofs` | the flow: types, that it implements the store and the escrow, what becomes of a charge, that money is conserved |
| `StoreTx_proofs` | the transactions: that they implement the store, and what follows |
| `Delivery_proofs` | the engines: double grants, and that they implement `Grants` |
| `Economy_proofs` | payments and ticks |
| `Seed_proofs` | `Migrate` and `Seed`: the schema, and what runs of the seed command enter |
| `Browse_proofs` | listings: buyers get what was shown |
| `Server_proofs` | `Lifecycle` and `WebSession`: store calls at shutdown, tasks taken on, sessions |

### Store

`link`, `wallets` and `balance` are the tables of accounts and wallets, `txns`
is the ledger, `shelf` holds items and kits together: the columns the operations
decide on are the same, a kit only delivers more lines and is never updated by
a statement other than the toggle, the stock decrement and the growth of its
lines. A row of `linked_accounts` is identified by its discord user, a row of
`transactions` by its position. Each transaction is one step, which `StoreTx`
justifies. `written` is history.
The constraints of the schema are guards: `UNIQUE` in `LinkAccount`, the range
of the `BIGINT` balance in `Credit`. `CHECK (balance >= 0)` is not a guard: that
no purchase needs it is part of `StoreTypeOK`.

`StoreSpec` lets anyone call anything in any order. It is what the store promises
without help from its callers.

### Shop

A session is one `/buy` or `/buykit` interaction. `pc` names the call it makes
next, `job` holds its locals, `result` what `Buy` or `BuyKit` returns. `Answer` is
what the user is told of it: the switch of `handleBuy` and `handleBuyKit`, which
has no case for `ErrNoSpace`, so that a full backpack is answered like any
unexpected error. The order for an item is link, space, purchase,
deliver, markDone, balance; for a kit the space check comes after the purchase,
as in the code, and a rejection there goes through markFailed and refund.
A call of the store may fail (`DBMayFail`) before its effect or after it:
`ChargedUnknown` is a commit whose answer was lost, the second disjuncts of
`MarkFailed`, `GiveRefund` and `MarkDone` are the errors the code drops or
returns. `Deliver` takes its behaviour from `Outcomes`, which `MCShop` takes from the
engines. `Crash` stops the process; the database keeps its state, running
sessions are lost, and nothing resumes them, since the code keeps no record of them
but the pending row. A normal shutdown is the same: `main` does not wait.
A read of the backpack that fails is ignored, as in the code, and does not count
as a failed call (`hit`).
`mode` is the process: running, down, or stalled. `Exhaust` makes it stalled: a kit
purchase waits for its second connection and the others are held by calls that wait
too, so that no store call goes on; what `StoreTx` shows of connections is one step
here. A delivery may still return. `Relieve` ends it when one of the calls was a web
request whose client hung up; nothing makes it happen, since the calls of the bot run
under the background context.
`TopUp` stands for the credits of the accrual worker, the webhooks and
`/grant`; `Background` for `/link` and the catalogue edits.
`free` counts the slots of each backpack, in the game's own tables; the player may
change it at any time. A delivered line takes one slot if there is one.
`trace` and `paidIn` are history variables: no action reads them.

### Escrow

A user's purse, and an order per session: none, held, fulfilled or returned. The
refinement maps an order to the spend row of its session, `returned` once a refund
row exists, `fulfilled` once the row is marked done, `held` before. Liveness is not
part of the contract: the process may stop and nothing resumes.

### StoreTx

The variables of `Store` are the committed tables. `Txs` are goroutines that make one
call after the other: `pc` is the statement a call runs next, `pending` what it
read under its locks and will write, `locks` the row locks (exclusive), `shares`
the `KEY SHARE` locks a ledger row takes on its account, `conns` the free
connections. `WaitsFor` says for each statement whose end it has to wait for; a
statement runs when that set is empty. `KitItems` needs a second connection while the
transaction holds the first, because `kitItems` queries the pool. A circle of
waits is broken by the database (`Victim`), any call may be cut off (`Abort`),
and both roll back. `Commit` and the calls of a single statement (`Single`)
change the committed tables, and `Serialisable` says that each such change is
a step of `StoreSpec`: this is what makes the atomic steps of `Store`, and with
them `Shop`, `Economy` and `Browse`, faithful.

The locks and unique indexes are PostgreSQL's, modelled from what the statements
of `internal/store` make it do.

### Delivery and Grants

A `Deliver` call goes through the engines of `delivery.mode` in their order. `try`
is the position it is at, `heard` what each engine answered, `wire` what became of
what it sent, `grants` how often goods reached the game. What was sent may take effect at
any time after, also when the call was answered or the process stopped.
FLS answers nil only for a request that was carried out, RMQ for a message that was
published, whoever receives it. `Grants` is the contract: one answer, at most one
grant per engine, and `granted` only after a grant.

`Shop` takes the behaviour of one call from `Outcomes`; in `shop_faults` it is
`AnyOutcome`, each answer with and without a grant. That one call may grant twice
is left to `Delivery`: the purchase flow sees only the answer.

### Economy

`pc` says which call the worker or a request makes next, `game` and `acct` are its
locals. The lookup (`LinkByGameAccount`) and the credit are two steps; users relink in
between (`Relink`). Each store call may fail before or after its effect. `todo`
and `online` count the rows of the tick's query per game account, since the query may name one
more than once. The provider's side is `order`, `client`, `Send`, `Hear`,
`HangUp`: it repeats a payment until it hears that it was credited. `held`,
`origin`, `clean` are history.

### Migrate and Seed

`Migrate` has one action per statement of `Store.Migrate` and `applyMigration`.
`recorded` are the rows of `schema_migrations`, `effects` counts commits of each
version's SQL. `Check` is outside the transaction, so two processes may both find
a version missing; `RunSql` then waits for the other one's DDL (`Contended`) and collides, or
`InsertVersion` meets the primary key. Either way the process exits. A database may be new or
made by an older version.

`Seed` extends it: the process `seed` starts with a file (`Run`), migrates, and
when it is through (`Seeding`) reads the names that are there in two queries and
inserts the others one by one. A list that cannot be read leaves its skip set
empty (`ListNames`), an insert that fails is reported and passed over. A
crash of `seed` is its interruption. `AdminAdd` needs a server that runs.

### Browse

`seen` is what a listing has read: the rows in one query, then the lines of each
kit in one more (`ReadLines`). `Show` answers; on Discord a text longer than
`Room` lines is not accepted, and the code drops that error, so that the
asker gets `nothing`. `deals` records what each purchase took and gave and the
listings its buyer had got.

### Lifecycle

`main` steps through `Order`; `deferred` is the stack of its deferred calls. Parts
start (`Spawn`, `Listen`), take on tasks (`Arrive`), and end (`Watch` on the
context, `ClosePart` by a deferred call). A task makes store calls on pool
connections. `CloseStore` waits for the connections that are out, as pgxpool's
`Close` does; nothing waits for a task between two calls.

### WebSession

Its operators are `SessionInit`, `SessionNext` and `SessionSpec`, so that it can
stand beside `Lifecycle` in one module of proofs. A token is a record of user, expiry, key and (history) the time it was issued.
Time goes in half seconds so that the rounding of `Unix()` shows. `Restart`
loads another file and environment. Names in `Barred` contain the separator `|`:
`verify` splits at it, so their tokens never verify.

## Runs

| run | module, bounds | distinct states | shows |
|---|---|---|---|
| `store_tx` | `StoreTx`: 2 users, 1 game account, 1 kit of up to 2 lines with stock 1, 2 goroutines, 2 connections, no call after 3 ledger rows | 166 407 | every interleaving of the statements changes the tables as some atomic step would, and keeps `StoreTypeOK`, `LedgerReconciles`, `StockAccounted`, `AccountsSound`; every circle of waits has a link in it; every call ends unless kit purchases exhaust the pool |
| `shop_items` | `Shop`: 2 sessions, 2 users, 1 game account, 1 item with prices 1 and 2, stock -1, 0, 1 or unlimited, backpack of 1, failing calls, stops; symmetric sessions | 381 290 | refunds are exact though the price changes under way, sessions settle and the answers say so, stock and sales agree over refunds and overwritten stock numbers |
| `shop_answers` | `Shop`: 2 sessions, 1 user, 1 item, 1 kit of up to 1 line, backpack of 1, deliveries that fail, stops, an exhausted pool | 221 342 | every purchase is answered, and every one given up is refunded, unless the process stops, the engine does not return or the pool is exhausted |
| `shop_faults` | `Shop`: 2 sessions, 1 user, 1 kit of up to 2 lines, 1 credit from outside, balance column of 3, any outcome of the engine, failing calls, stops; the sessions are symmetric, which is sound because no liveness is checked | 419 736 | money is conserved, the flow implements the escrow, done means every line was confirmed, pending rows have an owner, a rejected kit is refunded |
| `delivery` | `Delivery`: 2 calls, mode `both`, any set of configured engines | 4 430 | twice only after a lost answer, and the promise of `Grants` |
| `economy` | `Economy`: 2 users, 2 game accounts, 1 payment, 2 ticks and requests in all, 2 listed rows, 1 stop | 766 556 | credits reach a holder, clean ticks pay everybody, payments repeat only when unsure, ticks and requests end |
| `seed` | `Seed` with `Migrate`: a server and the seed command, 2 versions, 2 stops, 2 runs, 1 addition, 2 items and a kit | 386 007 | each version takes effect once and in order whoever races, runs neither repeat nor lose an entry, the server starts in the end |
| `browse` | `Browse`: 1 user, 1 listing, 1 item with prices 1 and 2, 2 kits of up to 1 line, 2 ledger rows | 874 981 | buyers pay the price shown and get the lines shown unless the offer was written since |
| `lifecycle` | `Lifecycle`: 3 tasks, 2 connections, any set of parts | 400 194 | nothing serves before the migration, no store call is cut off by a signal, a signal ends the process |
| `web_session` | `WebSession`: 2 names, one with a bar, 2 secrets, a session of 2 s, 3.5 s, 2 restarts | 615 452 | a session lasts its time and less than a second longer |
| `shop_all_or_nothing` | `Shop`: as `shop_faults`, without failures | | violated: a kit may be partly granted and refunded |
| `delivery_twice` | `Delivery`: 1 call, mode `both` | | violated: a purchase may be granted twice |

Why the bounds are enough to be interesting: two sessions, or two goroutines, are the
smallest number that races for the last unit, the last coin, the last slot and the
same lock, and that deadlocks; two connections are what one kit purchase needs, and what two of
them exhaust; two prices make repricing visible; a kit of two lines can be delivered in
part; a backpack of one slot in `shop_items` and `shop_answers`, which the
player fills and empties, turns purchases down before and after the charge; stock numbers
of zero and below are in `shop_items`, while `store_tx` races for the one unit left;
`MaxBalance = 3` in `shop_faults` lets a top-up during the delivery fill
the column so that the refund no longer fits; in `economy` two requests are one
payment and its repetition, and two ticks are a tick and one after a stop; two versions
are the least that can be applied out of order.

The bounds belong to the models and not to the code: `MaxLines` (lines of a kit),
`EarnBound` and `MaxRows` (rows of the ledger), `MaxPaidIn` (the escrow's deposits),
`MaxBalance` (the code's is the range of a bigint), `Capacity` (slots of a backpack),
`MaxWork` (ticks and requests), `MaxListed` (rows of a query), `MaxCrashes`,
`MaxRestarts`, `MaxRuns`, `MaxAdds`, `MaxTime`, `Room` (lines of a message), and
the sets of actors. Deadlock is not checked in any of the runs: once every session, call or listing has
ended and the bounds are reached the system may stop, and so may a
process on a signal; that calls do not wait for each other for ever is `EveryCallEnds`.

### Fairness

* `Shop`: weak fairness for the steps of a session that need only the database: a
  goroutine that can run is run, and a database call that can get a connection
  returns, with an error if need be. One that cannot waits, for ever if the pool stays
  exhausted: these steps need `mode = "running"`, `Relieve` has no fairness, and
  `Answered` and `AbortIsRefunded` name the stalled process as an exception. Without a
  kit on sale there is no `Exhaust`, and no exception. `Deliver` gets none: no engine sets a timeout and the bot passes the
  background context, so the call may never return. `Crash`, `Restart`, the
  player and the users get none.
* `StoreTx`: strong fairness for the steps of each goroutine. A lock and a
  connection are given in the order of the requests, so that a statement that can
  run again and again is run. `Abort` gets none.
* `Delivery`: none; an engine may wait for ever.
* `Economy`: weak fairness for the worker within a tick and for the steps of a
  request. Whether the ticker fires, a provider repeats, or anybody relinks is open.
  This assumes that the pool is not exhausted: kit purchases are not in the module,
  and `WorkEnds` does not hold while they hold all connections.
* `Seed`: weak fairness for migrating, and for a server that failed to be started
  again (`install.sh:130`, `docker-compose.yml:20`). Nobody has to run the command.
* `Browse` and `WebSession`: none, they make no liveness claim.
* `Lifecycle`: weak fairness for `main` and for the return of a store call.

### What the violated runs show

* `KitAllOrNothing`: `shop.go:116-117` and `README.md:46` say all-or-nothing. The
  money is; the goods are not. When the second line fails, the first has been granted
  and the full price comes back.
* `NeverGrantedTwice`: `delivery/delivery.go:55-57` says that the fallback never
  grants a purchase twice. It does when the first engine granted and its answer was lost;
  `TwiceOnlyAfterLostAnswer` shows that this is the only way.

Where else the code does not do what it says, seen in the models though no
run is about it:

* `shop.go:16` says that the bot maps the shop's errors to user messages.
  `handlers.go:190-208` and `262-280` have no case for `ErrNoSpace`: the user reads
  "Something went wrong" (`bot.go:74-77`), for a kit after it was charged and refunded
  (`Answer` of `Shop`). `SettledExactly` shows that, when no store call failed, a full
  backpack is the only thing answered this way, and `NoSpaceIsClean` that the
  rejection itself is clean.
* `seed.go:20-22` says that existing names are skipped. A list that cannot be read is
  taken for an empty one (`seed.go:59,67`), and every name is entered again: the
  factor `1 + blind` of `NeverTwiceAlone`.
* `discord/handlers.go:204` and `276` say "you were refunded" on
  `ErrDeliveryFailed`, which `shop.go:103-105` returns whether or not the refund
  took effect (the failing disjunct of `GiveRefund`).
* `shop.go:84-85` says that the player never pays for an item that cannot be
  delivered; the check and the charge are two calls, and the slot may be gone by the
  second.
* `README.md:69` and `commands.go:65` say that `/additem` adds or updates; it never
  sends an id, so it always adds (`AdminAdd`).
* A vote is "currency per confirmed vote" (`config.example.yaml:40`); requests
  carry no id, so one repeated after a lost answer is credited twice
  (`TwiceOnlyUnsure` says when).
* "Graceful shutdown" (`README.md:105`, `docs/ARCHITECTURE.md:38`): an interaction between two
  of its store calls is cut off, since `main` waits for calls in progress
  and not for handlers (`Exit` of `Lifecycle`).
* An `admin_user` with a `|` in it can log in and is never recognised after
  (`auth.go:55`, `Barred`).
* A catalogue too long for one message is not shown and nothing is said
  (`discord/bot.go:95`, the answer `nothing` of `Browse`).

## Proofs

Checked by TLAPS for every value of the constants that satisfies the assumptions
of the modules. They say that
identifiers are distinct and that prices, amounts and bounds are natural numbers;
three of them say more:

* `TxAssumption`: the pool has a connection, and a kit can have more than one line
  (`MaxLines > 1`; the code has no bound at all, the one of the model must not be
  reached by an item, which always is one line).
* `SeedAssumption`: the names of items and of kits are told apart, as the tables and
  the two skip sets of `seed.go` do; a file is a sequence of names, and there is a file.
* `EconomyAssumption`: the reward of a tick is above zero (`economy.go:37` runs no
  worker for another). Amounts of requests may be zero, as a vote's may
  (`webhooks.go:57`).

What an invariant needs beyond the property was checked by TLC on the runs before it
was proved.

### The store

* `StoreTypeCorrect`: `StoreTypeOK` is inductive by itself. The interesting part is
  `balance \in [Users -> 0..MaxBalance]`, which rests on the guard of `Purchase`.
* `LedgerCorrect`: `LedgerReconciles`, with `StoreTypeOK`. `RunningBalance` is a
  recursive function, about which little can be proved directly, so the invariant is
  `LedgerInv`: some function runs over the rows of the ledger as its definition
  says, and every one that does ends at the balance. Appending a row extends
  the one and restricts the other, and `RunningBalance` is one of them.
* `StockCorrect`: `StockAccounted`, with `StoreTypeOK`; lemmas say how `Sold` changes
  when a row is appended or its delivery is set.
* `AccountsCorrect`: `AccountsSound`, which is inductive with `StoreTypeOK`.

`TxImplementsStore` takes these from atomic operations to statements. Its invariant
`TxInv` says what a transaction knows at each statement: past its
`SELECT ... FOR UPDATE` a purchase holds the row of its product and what it read
there is what is committed (`HoldsProduct`), past its `UPDATE` of the wallet a
credit or a purchase holds that row and its `RETURNING balance` is the committed
one plus its own change (`HoldsWallet`), and a link past the unique index is
alone with its game account (`AloneWithAccount`). A statement of another
transaction keeps this, because what it would change is locked, or because, as
for a new line of a kit, the foreign key makes it wait. A commit then is
the store operation of its call, and every other statement a stutter. `ReadCorrect`
is a part of the invariant; `TxTypeCorrect` counts the connections that are out.
`TxLedgerCorrect`, `TxStockCorrect`, `TxAccountsCorrect` and `TxColumnsCorrect`
follow from the refinement in one step each.

`OnlyLinksCorrect` is about the order of the locks. `HoldersKnown` is the converse of
what `TxInv` says: who holds a product is a purchase at one of four statements, who
holds a wallet is about to write its ledger row or to commit, who holds an account
is a link. In a circle without a link nobody is at its ledger row, since it
would wait for a link; so nobody waits for a wallet, and nobody for a product. Links
are the exception: two of them that swap game accounts, or one of
them and a credit or a purchase of the same user, may have to be broken up.

### The purchase flow

* `ShopTypeCorrect` and `ShopImplementsStore` share the invariant `ShopInv`: beyond
  the types, a session past its lookup knows a game account, and one past its
  charge holds a price that an admin once set, so that its refund is a credit
  the store allows. A theorem of the store then holds in the flow:
  `ShopLedgerCorrect` and `ShopStockCorrect` follow in one step.
* `RefundCorrect`, `DoneCorrect`, `PendingCorrect`, `SettledCorrect` and
  `FinalCorrect` share the invariant `SettleInv`. None of the properties is
  inductive: that a refund is exact, say, depends on what the session knew when it
  started to give up. `AllSettled` says, for each label of `pc`, what is known of
  the session there: before the charge nothing was taken; while it ships, its
  row is the one that charged it, for the price it remembers, and is pending; on
  the way to the refund it has given nothing back yet; an answered session is in
  one of three situations, and unless a store call failed its result says in
  which; what the handlers make of the result is a case distinction at the end. `Distinct` and `Owned` say that a spend row belongs to one session.
  A step of one session keeps what is known of the others (`Kept`): it appends
  a row, or sets the delivery of a row that is not theirs, and that is where
  `Distinct` is needed. `FinalCorrect` shows that a settled row stays as it is
  although the `UPDATE` has no guard: only the owner of a row sets it, and only
  from a label where it is pending.
* `NoSpaceCorrect`: `NoSpaceIsClean`, with `CleanInv`: nothing reaches the game
  before the deliveries start, and no backpack is found too full after that.
* `EscrowCorrect`: `ImplementsEscrow`. A top-up is a deposit, a committed charge a
  hold whether its session learns of it or not, marking a row done fulfils, a refund
  returns, and every other step, marking a row failed included, leaves the
  escrow's variables alone. That a refund returns an order that is held, and
  the amount that was held, is `SettleInv`.
* `MoneyCorrect`: `MoneyConserved`. Its invariant `MoneyInv` says of each user that
  what was credited is the purse plus the sum of the orders that are kept; a step
  of the escrow moves one amount from one side to the other (`MoneyStep`, which
  takes the step from the proof of `EscrowCorrect`). A sum over a set of orders is a
  fold, whose value for every set only induction could give. The proof
  does without: `SumTable` says what it is for a function to give the sums of all subsets,
  and two such tables, or a table and the fold, agree on every finite subset, for
  otherwise there would be a smallest one on which they do not (`WFMin` on strict
  inclusion), and taking an element off it gives a smaller one.

### The engines

`DeliveryInv`: an engine that was left behind answered with an error, one the call
has not come to sent nothing, and `grants` counts the requests that were taken.
`TwiceCorrect`: two grants are two engines, so the first was left
behind after it granted. `PromiseCorrect`: a step of a call is one of `Grants` or
changes neither answer nor grants, and an `ok` of FLS is a request that was taken. This
is done for one and two engines together, with the types (`DeliveryTypeCorrect`): `EnginesOfMode` is all that is used of the mode.

### Payments and ticks

* `CreditedCorrect` and `TwiceUnsureCorrect` share `PayInv`. `Request` says what a
  request is worth at each of its labels: before its credit it has no row, after
  it one at most, and `ok` is answered with a row. `RowFine` says of each row
  who wrote it and that its account held the game account at a time of that
  request, which the history `held` keeps although the users relink. `SentInOrder`:
  the provider sends a payment again only after a request without a good answer;
  so of two rows the earlier one's request had none.
* `OncePerTickCorrect` and `CleanTickCorrect` share `TickInv`, a count per game
  account: paid in this tick, plus in hand, plus to come, is at most what the query
  listed, and exactly that while the tick is clean and somebody holds the
  account. The cardinalities are of sets of rows of the ledger; one lemma says how an
  appended row changes them.
* `EconomyLedgerCorrect` and `EconomyAccountsCorrect`: the promises of the store hold
  here too. Its steps are not all those of `StoreNext`, whose credits are of
  `Amounts` while the worker pays `Reward`, so the lemmas about a credit of any
  amount (`LedgerCredit`, `AccountsCredit`) are used.

### Migrations and the seed command

* `SchemaCorrect` and `OvertakenCorrect`: `SchemaInv` adds to `SchemaSound` that a
  process at a version has seen those before it recorded (`SeenBefore`), that two
  processes inside a transaction are at different versions since the SQL of
  one waits for the other (`OnePerVersion`), and so that what is about to be
  committed is not recorded (`AboutToCommit`). They are proved of
  `MigrateNext`; the steps of `Seed` are such steps or leave the schema alone, and
  the theorems are about `Seed`.
* `CleanRunCorrect`: what is in the skip set, and what a clean run has come past, is
  in the catalogue, which never loses a row.
* `NeverTwiceCorrect`: `CountInv` bounds the rows of each name by the copies in some
  file, chosen once per step, times one plus the runs that were blind; in a run that
  enters the name the bound is tighter by the copies it has yet to come to.

### Listings

`BoughtCorrect`: `BrowseInv` says of each listing, while it runs, that what it has
read is on the shelf (`SeenFine`): for a kit its price, which no operation writes, and
at most its lines, for an item its price unless it was written since. A purchase
compares with the shelf, so the deal agrees with all listings its buyer has;
`ShownAnswered` says that a listing that is in a deal does not change any more.

### The process

* `NoCutOffCorrect` and `TakesOnCorrect`: `LifeInv` says which calls `main` has deferred at
  each of its steps (one of five stacks), which parts can be at work at each, and
  that a part that is on still has its deferred close above that of the pool. The
  pool is closed only when no call runs.
* `LastsCorrect` and `EndsCorrect`: `SessionInv` keeps, for each token, the expiry
  that `issue` computed from the time; the rest is arithmetic about
  rounding half seconds down to seconds (`ExpiryBounds`).

### What is only model-checked

All invariants and action properties of the passing runs, and the refinements, are
proved. What is left to TLC is liveness, which is out of the prover's reach:
`EveryCallEnds`, `Answered`, `AbortIsRefunded`, `WorkEnds`, `EveryoneStarts`,
`SignalEnds`; and the violated runs, whose point is a counterexample. `AnyOutcome`
and the other constants of the MC modules are instances of what the theorems
quantify over.

## Plan

Every module of the plan is written, and every safety property that holds is proved. What
could follow:

1. That the engines of `Delivery` give `Shop` no outcome that
   `Outcomes` lacks, as a theorem that joins the two modules.
2. What circles through a link look like: with no two users swapping game accounts,
   a link and a credit or a purchase of the same user.
3. That no circle goes through the pool unless a kit is bought.

## Not modelled

* The single-page application: it only calls the API, whose operations are modelled.
* The setup wizard: it asks questions on a terminal and writes one file, with nothing
  else running.
* Parsing a YAML file. The settings other parts depend on are modelled where
  they act: the secret and its override in `WebSession`, the delivery mode in
  `Delivery`, the enabled parts in `Lifecycle`.
* The statistics, accounts and ledger pages: one read-only statement each.
* Display texts, names, categories and quantities; installers and CI.
* Two runs of the seed command at once: it is run by hand, one at a time.
* Logging out, which only tells the browser to drop its cookie; the token stays valid
  until it expires.
* Game accounts without a character are in `Shop` (`Spawned`) and in none of its
  runs: their purchases pass the space check, as with room. `ON DELETE CASCADE` never acts, because no
  operation deletes a row.
