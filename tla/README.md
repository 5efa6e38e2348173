# m402 in TLA+

TLA+ models of m402, the TLC runs that check them on small instances, and TLAPS proofs of
what matters most for every instance. m402 sells HTTP resources for credit on a Midnight
contract: a buyer deposits NIGHT for shielded credit, pays a service's price into the vault,
which records a receipt (a hash of a secret and the service), and shows the secret to a
gateway, which checks the receipt on the chain, consumes it and calls the service.

## 1. Inventory

| Component | Code | State it keeps | Operations | Modules |
|---|---|---|---|---|
| Vault contract | `contracts/src/m402Vault.compact`, its compiled form in `managed/` | prices, owners, receipts, merchant balances, mint counter; NIGHT and coins | `registerService`, `deposit`, `pay`, `redeem`, `withdraw` | `VaultLedger`, `VaultKernel` |
| Vault transactions | `contracts/src/client.ts`, generated contract | calls that are proved but not yet in a block | prove and submit, include, drop | `VaultTx` |
| Gateway, paid path | `gateway/src/routes.ts`, `verify.ts`, `consumed.ts` | consumed receipts (SQLite), services, requests in progress | request, probe, verify, confirm, time out, dispatch | `Gateway` |
| Gateway, registration | `routes.ts`, `ownership.ts`, `registry.ts` | services (SQLite) | `POST /services` | `Market` |
| Health probe | `gateway/src/health.ts` | a cached answer per origin | probe | `Upstream` |
| Dispatch and relay | `gateway/src/dispatch.ts` | the relayer's USDC | forward, pay an external service | `Upstream` |
| Agent operation lock | `agent/src/state.ts` | a lock file | acquire, take over, release | `OperationLock` |
| Agent call | `agent/src/commands/call.ts`, `http.ts`, `state.ts` | payment records in the state file | pay, resume, claim | `AgentCall` |
| Agent redeem | `agent/src/commands/redeem.ts`, `state.ts` | redeem records in the state file | redeem | `AgentRedeem` |
| Agent deposit, init | `agent/src/commands/*`, `config.ts` | the private state's password | set up, fund, deposit | `WalletStart` |
| Agent shell | `agent/src/commands/services.ts`, `index.ts` | none | list services | `Market` (prices) |
| Wallet | `contracts/src/lib/wallet.ts`, `client.ts` | the SDK's wallet, a sync cache of three files | restore, synchronise, save, balance | `WalletStart`, `VaultKernel` |
| Web app | `web/src` | React state, the wallet extension, a private state in memory | pay and claim, publish, withdraw | `WebPurchase`, `Market` |
| Shared | `shared/src/index.ts` | none | price conversion | `Market` |
| Scripts, start-up | `deploy-vault.ts`, `inspect-vault.ts`, `gateway/src/index.ts`, ... | none | | not modelled |

How they interact. Agent and web app build transactions from the ledger state an *indexer*
shows and send them to a *node*; between the two the ledger moves on. The gateway never
talks to the buyer's wallet: it subscribes to the indexer, which lags, and learns of a
payment only from the ledger. Agent and gateway meet over HTTP, where a request can fail
on either side. Commands of one agent share its state file and wallet through the lock.

What is hard about it, and what makes each component correct:

* *Vault.* NIGHT held equals NIGHT owed; a merchant's books equal its receipts; nobody else's
  registration can change what an id means. Concurrent calls carry stale reads.
* *Gateway.* A payment opens the service once, and only a payment does. Concurrent requests
  with one secret, late indexer messages, a timer, crashes between consuming and answering.
* *Lock.* One wallet operation at a time, after kills at any point too.
* *Upstream.* Nobody pays for an origin that is long gone, and the relayer cannot be drained past
  its cap. Overlapping probes, timers, restarts, external services that ask for anything.
* *Market.* What is listed, shown and called done is what is on the chain, although screen, table,
  indexer and chain know of a service at different times, and the table by more than one name.
* *Browser purchases.* A delivery needs a payment; a payment may be lost, in known ways. Purchases
  of one tab share a private state, the screen changes under them, the tab may close.
* *Wallet start.* No wallet is used that came from a torn file, or that is behind what was saved of it
  before; a kill never damages cache or password.
* *State file.* The secret of paid money is never lost; an unknown outcome never becomes a
  second payment; a record never claims more than happened. Errors that hide a success, kills.

`PROJECT.json` lists the hazards one by one with their lines and the properties for them.

## 2. Modules

| Module | Role |
|---|---|
| `Totals` | sums of amounts over a finite set, without recursion |
| `VaultLedger` | the vault with atomic circuits on amounts: the abstract specification of payments |
| `VaultTx` | circuits split into proof and inclusion; implements `VaultLedger` (proved) |
| `VaultKernel` | circuits on single coins, with claimed effects and balancing; implements `VaultLedger` (proved) |
| `Gateway` | concurrent requests at the gateway |
| `Upstream` | the health probe and the two dispatchers behind it |
| `Market` | publishing: screen, chain, indexer, `POST /services`, `m402 services` |
| `OperationLock` | the lock file |
| `AgentCall` | `m402 call` and the payment records |
| `AgentRedeem` | `m402 redeem` and the redeem records |
| `WalletStart` | what every command does before it can act, and `init` |
| `WebPurchase` | buying in the browser |
| `MC*` | constants' symmetry and small definitions for TLC; no behaviour |
| `TotalsProofs` | the laws of `Totals`, on which both vault proofs rest |
| `VaultProofs` (`VaultLedger`, `VaultTx`), `KernelProofs` (`VaultKernel`), `GatewayProofs` (`Gateway`, `Upstream`), `AgentProofs` (`OperationLock`, `WalletStart`, `AgentRedeem`), `AgentCallProofs`, `MarketProofs`, `PurchaseProofs` (`WebPurchase`) | proofs |

How they compose. `VaultTx` and `VaultKernel` refine `VaultLedger` in two directions, the time
between proving and inclusion and the coins behind an amount; the other modules use of the vault
only what `VaultLedger` promises: a receipt lands at most once, and what has landed stays
(`LedgerGrows`). Each of `AgentCall`, `WebPurchase`, `Gateway` and `Market` has its own part of the
ledger as a set of receipts or registrations, and the views of it that lag.

Operators that only exist to show that a property can fail (a dropped guard, a swapped
order) stand before the definition they vary and are marked *Mutant* in its comment.

### VaultLedger
One action per circuit with the circuit's `assert`s as guards and its ledger writes as primed
variables. Hashes are injective, so an id, a receipt or a nonce is the tuple of what it
hashes. `reserve` is the contract's NIGHT, `night` and `credit` what wallets hold: the
platform's coin selection and change are a subtraction. A coin handed to `pay` or `redeem`
may have any value and either the vault's colour or a foreign one, which anyone can mint.
`paidOut` is a history variable.

### VaultTx
`submit` in `client.ts` proves a call against the state it read. The generated contract
(`managed/m402Vault/contract/index.js`) turns each ledger access into an operation whose result
is part of the proof, so a transaction is a set of asserted reads and a set of writes. `Prove*`
builds it against the present ledger (its guards are the asserts), `Include*` applies it to a
later ledger where its reads still hold, `Drop` discards it otherwise or at any time. `Include*`
does not look at the circuit's asserts, which is the point: that they hold when the writes
are applied is what the refinement shows.

### VaultKernel
The circuits as `managed/m402Vault/contract/index.js` runs them. A call collects *effects* through
the standard library's helpers (`mintShieldedToken`, `receiveShielded`, `sendShielded`, NIGHT in and
out), each of which claims an output or a nullifier. `Included` is the node's side, modelled from what
the generated code hands to it: claimed outputs must be there, nullifiers must be new, and the
caller's wallet adds a minimal set of its own coins and takes the change. Equal outputs are one, so
a nonce that repeats would lose a coin. The refinement mapping takes a wallet's credit to the worth
of its unspent coins. `deposit` mints to the contract and sends on within one call.

### Gateway
`Slots` are the requests in progress. `Starts`/`UnknownService`/`Unpaid`/`Probed`/`Verify` are the
branches of `handleService`; `Verify` does what `verifyReceipt` does before its first suspension
(the consumed check and the candidates for wrong-service); `Confirm`, `WrongService` and
`Timeout` are the three ways `finish` is reached. An indexer report is any ledger state since
the request subscribed or before (`history`): reports may be stale, repeated or missing.
`Crash` ends all requests; the SQLite tables stay. A `markConsumed` that throws does so in
an observer and takes the process down, which `Crash` covers.

### Upstream
The clock is explicit: `Tick` is disabled while a timer is due, so that `AbortSignal.timeout` fires on
time. `probeOrigin` answers from the cache or starts a probe; the origin sees the `HEAD` request
(`HeadAnswered`) at another time than the gateway gets the answer (`ProbeEnded`), and other probes of the
origin run meanwhile. `lastUp` is a history variable: when the origin last answered.
`dispatchRelay` .. `Relayed` is the relayed call: `PaymentRequired` signs one of the offers that
`maxPaymentPolicy` leaves and the client has a key for; the library (external, modelled from
`createRelayDispatcher`) retries once. `Restart` empties the cache and cuts requests off.

### Market
`handlePublish` .. `Watched` is the browser's side of a publication, with the account its closure
caught; `Land` and `Index` are chain and indexer. A click that has to connect first always fails,
since its closure has no address. `posts` are the requests at the gateway: each click's and one of
anybody's with any body (`PostElse`); `Check` looks the owner up in the indexed state, `insert` comes
later. `Answer` is the screen's retry ladder, which a 409 ends as a success. `m402 services`
reads the table and the chain independently (`fetchGatewayServices`, `readVaultState`). A request's
body writes the id in one of several `Spellings`: the ownership check decodes it (`Buffer.from` takes
either case of a digit and ignores what follows the last pair), the table is keyed by the string, and
`m402 services` looks for the string that the chain's id is written as (`Canonical`).
Prices are in units of 0.00001 USD, with the rounding of `shared/src/index.ts`.

### OperationLock
One step per system call of `withOperationLock`: `open` with `wx`, `readFile`, the liveness
check, `rm`, the second `open`, the write of the pid, the action, the final `rm`. Processes
are killed anywhere, and pids are reused. `Overlap` says whether a command may start while
another is still acquiring; with it the takeover of a stale lock races.

### AgentCall
State: the payment records, the chain (mempool, receipts, rejected), the gateway's consumed
receipts, and where the running command is. `Start` is the lookup of a payment to resume,
`Prepare` .. `Confirmed`/`Failed` is `payFor` with its callbacks, `Granted` .. `PrintResource`
is `claimResource` and what follows. `Throw` is any other error (with the catch clause),
`Crash` a kill. Writing the state file is one step, since `saveState` writes a temporary file
and renames it. Commands do not overlap (that is `OperationLock`'s business). A request at the
gateway ends with the command that made it: an abandoned request that is granted later gives
the same states as one granted just before the command ends.

### AgentRedeem
As `AgentCall`, for one record per redeem and without a gateway. One state file serves all the vaults
of a network (`--vault`), and `Unresolved` looks at the records of the command's own vault only.

### WalletStart
`StartCommand` takes the password an operator sets or the stored one; `init --new` generates one
if there is neither (`ensurePrivateStatePassword`). `build` restores the wallet from the cache or, if
that throws, builds it from its seed. A torn file may throw or restore at any position; then the part is
`faulty`. `Report` and `Apply` are what a sub-wallet hears of the highest index and what it applies:
`Complete` compares a part with its own last report (`isStrictlyComplete`), not with the chain. Each
part is saved through a temporary file, and the private state is opened with the command's password
(`Saved`). Writes to a file follow the file, not its name: a writer whose temporary file was renamed by
another command writes into the renamed one (`Renamed`). Overlapping commands are possible because
`init` does not take the operation lock; `overlapped` records that they were. What a command does once
its context is there is `Conclude`: the models of its own are `AgentCall` and `AgentRedeem`, and that of
`init`, waiting for NIGHT and registering it, changes nothing that is kept here. All commands are those
of one mnemonic, since the cache's files are named for it.

### WebPurchase
`Navigate` and `Loaded` are the routes and the loading of a screen, which keeps its state from one
service to the next; `connect`/`disconnect` the wallet context. `Click` is the pay button with what
its closure caught, `payForService` puts a secret into the private state of the connection, `submit`
is the later moment when the witness reads it, `Finalized` the replacement of the private state by
what the circuit left. `ClaimGranted`, `ClaimPending` and `ClaimRefused` are the gateway's answers
and `claimService`'s reactions. After a grant the answer is the service's own, which the gateway passes
on as it is: a resource, an error, or a 402 of its own, which `claimService` retries like any other. `Close` is a closed or reloaded tab, `LandClosed` a transaction that
lands after it.

## 3. Runs

| Run | Instance | Question and answer |
|---|---|---|
| `transactions` | `VaultTx`: 2 wallets with a call in flight each, 2 secrets, 2 deposits, `Uint<64>` capped at 3 | calls proved against an old ledger take effect as circuits (`AtomicCircuits`), the books stay exact (`Backed`, `RevenueAccounted`), ids bind (`RegistrationBinds`, `LedgerGrows`), nonces are fresh (`NoncesFresh`), and of two current payments to a merchant only one lands (`OneOfTwoPaymentsFails`) |
| `kernel` | `VaultKernel`: 2 wallets, 2 deposits, 2 secrets | circuits on coins implement circuits on amounts (`ImplementsLedger`); no credit is made, lost or stranded (`CreditConserved`, `NothingStranded`), and the NIGHT follows the coins (`HandedOver`) |
| `gateway` | 2 concurrent requests, 1 secret, 2 services, fairness | access for paid receipts only (`ConsumedIsGranted`), a bounded number of times (`GrantsBounded`), no unfounded wrong-service (`WrongServiceSound`), an answer to everyone (`EveryRequestAnswered`) |
| `gateway_race` | the same | *violated*: `RedeemsOnce` |
| `upstream` | 2 requests at a time, 1 origin, 2 relays (one on a chain that is not wired up), lifetime 3, timeouts 2 and 3, clock up to 5 | `HealthyRecently`, `RelayerLossBounded` |
| `market` | 1 click, 2 accounts, 3 prices, 1 retry, 2 spellings, one request of anybody's at a time, fairness | `RowsAreRegistered`, `VerifiedPricesTrue`, `PublishedIsListed`, `ShownAsEntered`, `EveryPublishEnds` |
| `lock` | 4 processes, no overlap | `MutualExclusion`, `LockProtected` |
| `lock_race` | 3 processes, overlap | *violated*: `MutualExclusion` |
| `call` | 2 services, 2 payments, 1 retry, `--fresh` at will, fairness | `SecretDurable`, `PaysOnce`, `StatusTruthful`, `EveryPaymentRedeemed` |
| `redeem` | 4 redeems, 2 vaults | `OneInFlight`, `SettledTruthfully` |
| `wallet` | 2 commands, a cache of 2 parts, a chain of 1 event, 1 password of an operator's | `SoundWhenUsed`, `AloneIsSafe` |
| `purchase` | 2 clicks, 2 services, 2 connections | `DeliveriesPaid`, `RetriesAreVain`, `LossExplained` |

A module's type invariant is checked along with them (`TxTypeOK`, `TypeOK`, `LockTypeOK`) or proved
(`Upstream`, `Market`, `WebPurchase`, `WalletStart`, `VaultKernel`). The violated properties are statements of the repository's documentation;
section 6 explains them.

**Bounds.** `MaxMints` bounds deposits, `Secrets` payments, `Ids` redeems, `Runs` and `Clicks` what is
clicked, `MaxRetries` the retry ladders (six steps in the code), `MaxUint64` the width of amounts, which
is small so that the limit is reached, `MaxTime` the clock, `MaxCalls` relayed calls, `MaxTip` the chain's
growth, `MaxConnects` wallet connections. Two wallets and two secrets are the smallest instance with a
conflict; two requests show that the bound on grants is tight; four processes are one killed owner, one
that takes over, one inside and one bystander; two clicks are a purchase and the one that disturbs it; two
parts are a cache of which one may be old; a clock of 5 lets a probe start, take its timeout, outlive
another's entry and be read again; two vaults and two spellings are one that a check looks at and one that
it does not. The prices of `market` are one that rounds to nothing, one that is displayed as nothing, and
one that is displayed a little off. `wallet` follows commands that overlap until one of them ends
(`WhileBothRun`), since nothing is claimed after an overlap; the theorems have no such bound. Where a theorem exists the bounds do not matter.
Deadlock checking is off where a behaviour can use a bound up.

**Fairness.** Gateway: weak fairness of the steps of a request, none for payments, registrations,
indexer reports or crashes; the timer (`Timeout`) and the platform's fetch timeouts justify it.
`EveryRequestAnswered` includes answering by dying, since a crash closes the connection.
`call`: a command proceeds, transactions become final, the user starts a plain call for each
service again and again (strong, as calls for other services come in between), and an indexer that
is asked again and again for a receipt on the ledger shows it at some point. Errors and kills may go
on forever. A transaction that never becomes final keeps `watchForTxData` waiting; that is excluded.
Once the user says `--fresh` nothing is promised any more. `market`: the browser sends what it is about to
send, and the gateway answers each of its requests; the indexer may lag forever.

## 4. What is proved

All for arbitrary finite sets of wallets, services, secrets, requests, clicks and processes, and for every
value of the timers, caps and retries.

*Vault.* `LedgerInv` (types, `Backed`, `NightConserved`, `RevenueAccounted`, and that ids bind owner
and price) is inductive; the sums over changing functions rest on the laws of `Totals` in
`TotalsProofs`. `Freshness`: all nonces so far have a smaller counter than the next deposit's
(`MintedBefore`). `Refinement` shows that `VaultTx` implements `VaultLedger`: the reads a transaction
asserts, together with what its proof checked and the fact that registrations never change, give back
the circuit's guards at inclusion. `TxSolvency` and `TxFreshness` carry solvency
and fresh nonces over. `PaymentsConflict` is the reason
one of two concurrent payments to a merchant fails. It speaks of two payments that could both be included
now: a payment that is stale now can become current again if the balance returns to the value it read,
which is harmless and covered by the refinement.

*Coins.* `KernelInv` is inductive. Every output is a minted coin that its own deposit has spent, the
coin sent on from it, or a fresh one; a minted or sent coin's nonce counts deposits and a fresh one's counts
outputs (`CoinsOK`), so no output a circuit or a wallet makes is there already, and the worth of what is
added is the worth of its parts. A wallet may balance a call with any of its coins: whichever they are, they
and the change differ by what the call lacks (`CoinIssued`, `Handing`), and nothing else about the choice
matters. `Conservation`, `Unstranded` and `HandedOverAlways` follow. `Implementation` shows each circuit to
be the circuit of `VaultLedger` on worths: the caller's credit covers what the call takes because the coins
that balance it are worth no less, and nobody else's coins change. `VaultLedger`'s theorems then hold of
the coins (`CoinSolvency`, `CoinNight`, `CoinRevenue`, `CoinBinding`, `CoinFreshness`, `CoinImmutability`),
through an instance of `VaultProofs` whose assumptions follow from `VaultKernel`'s.

*Gateway.* `GrantsPaid` and `RedemptionsBounded`: the invariant counts the grants of a receipt together
with the requests that wait for it, so the check-then-consume race can never exceed the number of
concurrent requests. Nothing in the gateway makes requests wait for each other, so there is no theorem
for one at a time.

*Upstream.* `HealthIsRecent`: a running probe is younger than its timeout, because time stands still while
a timer is due; a healthy probe saw its origin no earlier than it started; a healthy entry expires at most
one lifetime after its origin was seen (`ProbeInv`). It needs `ProbeTimeout <= Ttl`, which the code's
constants satisfy. `LossIsBounded`: on each chain, what is signed plus the cap for every call that has not
paid yet stays within the cap times the calls (`LossInv`); the restart only gives up calls.

*Market.* What a request in progress was told by the ownership check stays true until it is inserted, since
registrations are forever, and a click's own request is for its own id as the chain writes it; an id in
one spelling has one row (`MarketInv`). `ListedIsRegistered`,
`ShownPricesTrue`, `DoneIsListed` follow. `PricesShownAsEntered` is arithmetic on the two roundings, for
every price.

*Purchases.* The invariant says what each fact is evidence of: a receipt, of a purchase that paid it
(`Bought`); a delivery, of a row consumed under the purchase's own secret (`Consumes`), which ends the
purchase or leaves it with retries that are refused (`Claims`); a 402, of a receipt of that secret for
another service, or that the service has been called (`Misplaced`).
`DeliveriesArePaid` maps each delivered purchase to a payment with its secret, which is an injection.
`RetriesNeverHelp` and `LossesAreExplained` combine `Bought` and `Misplaced`.

*Lock.* Under `~Overlap` there is a single acquirer, and everyone past reading the file has read the
owner's pid (`LockProtected`); exclusion follows.

*Call.* All records older than one made without `--fresh` are settled; settled records are not written
again; what they record cannot be undone. `NeverPaysTwice`, `SecretsDurable`, `StatusesTruthful`.

*Redeem.* Of the records of a vault all but the newest are settled, so only its transaction can be in
flight there (`SettledMeansFinal`, `OneRedeemInFlight`).

*Wallet start.* Nothing is claimed once commands have overlapped: two writers of one temporary file can
leave a torn one. Before that at most one is alive, what a temporary file holds follows from the step its
writer is at, no state file is torn and so no wallet faulty, and the password a command read is the stored
one or an operator's. Completeness alone would allow a wallet that is behind: it is measured against
what the sub-wallet was last told, which may be older than what an earlier command saved, and a wallet
built from its seed starts at nothing. The invariant adds why that does not happen: a saved position is no
later than the chain, a report is of the chain as it is, and so no earlier than the file (`AloneInv` in
`StartInv`). `SoundWallets` and `AloneSafety` follow.

Assumptions: those named in the modules (finite sets, timers are numbers, `NoSecret` is no secret, ...),
injective hashes, and for the lock theorems the one in their statement.

**Only model-checked:** the liveness properties (`EveryRequestAnswered`, `EveryPaymentRedeemed`,
`EveryPublishEnds`), which are out of the prover's reach. Every other property that a passing run
checks is the statement of a theorem. TLC checked the inductive invariants on the runs' instances before
they were proved.
Nothing here is written with recursive operators.

## 5. Not modelled

* *Withdrawing in the browser* (`WithdrawScreen.tsx`): one call of `withdraw` behind the submission that
  `WebPurchase` has, with nothing to claim. One thing seen in reading it is in section 6.
* *Scripts* (`deploy-vault.ts`, `inspect-vault.ts`, ...) and *gateway start-up*: run once, wire the parts
  together, keep no state another step could disturb. Deployment is the models' initial state.
* *Presentation*: web components, the list and landing pages, CLI output, argument parsing, exit codes.
* *HTTP details*: the URL a request is forwarded to, header filters, bodies; the schema of `POST /services`
  is the set of well-formed bodies.
* *Keys*: the mnemonic file, prompts, key derivation, endpoints and providers; `init`'s wait for funds.
* *Proofs, hashes and commitments as such*: hashes are injective terms. DUST fees and segments: a
  transaction succeeds or fails as a whole.
* *Agent's checks before it writes anything*: the vault's address, the dry run, the deployment.

## 6. Findings

Shown by a violated run, each against a sentence of the repository:

* `gateway_race`: two concurrent requests with one secret are both served, because `verify.ts:55`
  ignores what `markConsumed` returns ("one receipt redeems once", `gateway/README.md:65`). How far it
  can go is `GrantsBounded`.
* `lock_race`: taking over a stale lock can remove another command's fresh lock (`state.ts:196`; "a
  local lock serializes wallet operations", `agent/README.md:139`).

Seen in the models, without a run of their own:

* `claimed` is recorded before the body is read and printed; what ends the process in between makes the
  next plain call pay again (`call.ts:213`; compare `agent/README.md:136`).
* A redeem that fails before its submission leaves a record that blocks all later ones at its vault
  (`redeem.ts:71`; "resolve the named cause, then retry", `agent/README.md:113`). That record is what
  `OneInFlight` rests on, which says nothing of redeems at two vaults.
* A kill between creating the lock file and writing the pid leaves an empty file that every later
  command takes for an active operation (`state.ts:191`, `Stale`).
* A pending payment is resumed without a look at the chain and called confirmed when the retries run
  out; if its transaction failed unwatched, every plain call ends so (`call.ts:137`, `http.ts:174`).
* A receipt consumed by a claim whose answer was lost leaves its record open, and every plain call is
  refused with it, although the message asks for a new payment (`call.ts:138`, `http.ts:86`).
* A receipt is consumed before the service is called. That payment and delivery are not atomic is a
  documented weakness (`docs/design.md`, section 8); the agent tells its user all the same that the
  resource was delivered (`http.ts:85`).
* The comment at `witnesses.ts:79` says `pay` accepts an overpaying coin; it asserts equality, as
  `docs/design.md` says, and `Backed` needs it to.
* The browser retries a claim on 402, "until the gateway's indexer subscription observes the receipt"
  (`web/src/lib/gateway.ts:69`), but the gateway says 402 of receipts it will never let through and 503 of
  those it has not seen yet, on which the browser gives up. `RetriesAreVain` is proved.
* In the web app a second purchase over the same connection replaces the pending secret of the first
  (`chain/circuits.ts:78`), and a click between two services pays for the one and claims the other
  (`ServiceScreen.tsx:43`). A payment is also lost to its tab when that is closed or reloaded, when any
  error ends the purchase (a 503 of a gateway whose indexer is behind among them), and when the service, once
  called, answers something else than the resource; if that is a 402, the purchase retries against its own
  consumed receipt and gives up. `LossExplained` says that this list is complete, and so that the message of
  giving up, that the gateway "has not observed the receipt yet", is never true of a payment in order.
* A first click on publish, which connects the wallet, always fails (`PublishScreen.tsx:61`), and one that
  is repeated after the gateway failed registers a second service with a new salt (`PublishScreen.tsx:64`).
* The gateway checks the decoded id and stores the string (`ownership.ts:22`), so one service of the chain
  may have several rows, with upper-case digits or something behind them, each with its own price and
  description; its receipts open all of them. `m402 services` shows all but the canonical one with a warning.
* Two `init --new` that overlap can leave a private state that the stored password does not open, and so
  can one with an operator's password followed by one without (`config.ts:117`); `AloneIsSafe` says
  that it takes one or the other.
* A torn state file may restore as a wallet that is not (`wallet.ts:342`). Only an overlap, or writing in
  place, can produce one; `SoundWhenUsed` says so.
* Displaying is not the "exact inverse" of entering a price (`serviceDisplay.ts`): 1 STAR is shown as 0.
  `ShownAsEntered` has the error's bound.
* `WithdrawScreen.tsx:57` reloads without cancelling an earlier load, so the older answer may win.

## 7. Plan

Done: the vault, its transactions and its coins; the gateway's paths and what is behind them; the market;
the agent's lock, call, redeem and start; purchases in the browser; and a theorem for every safety
property the runs check.

What would come next: buyer, gateway and vault in one module that implements an abstract purchase (paid,
then delivered as often as `GrantsBounded` allows), with the indexer's lag shared between them.
