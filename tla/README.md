# Stellar Connect Anchor SDK: a TLA+ model with machine-checked proofs

This directory models the parts of the SDK (`src/`, Go) where money and
identity depend on the order of events: the transfer manager with its state
machine and hooks, SEP-10 web authentication, the observer that streams payments
and the matching of payments to transfers, the HTTP client with its circuit
breaker, the wallet's login and polling, the stellar.toml that ties wallet and
anchor together, and the two example anchors. The models are checked by TLC on
small instances and their main safety properties are proved by TLAPS for all
instances. `PROJECT.json` lists runs, mutants, the map from definitions to source
lines, findings, hazards and theorems.

The repository has no Go tests, so the reference is the code itself, with the
comments and `README.md` beside it.

## The system

| Part | State it keeps | Operations | Talks to |
|---|---|---|---|
| State machine, `anchor/fsm.go` | a constant table | `ValidateTransition` | called by the manager |
| Transfer manager, `anchor/transfer.go` | token map, one mutex per transfer | `InitiateDeposit`, `InitiateWithdrawal`, `CompleteInteractive`, `Peek`/`Consume`/`VerifyInteractiveToken`, four `Notify*`, `Deny`, `Cancel`, `GetStatus` | store, hooks |
| Hooks, `anchor/hooks.go` | handlers by event, an RWMutex | `On`, `Trigger` | calls the host's handlers |
| Transfer store, `store/memory/transfer.go` | ID → record, an RWMutex | `Save`, `FindByID`, `FindByAccount`, `Update`, `List` | called by the manager |
| Authentication, `anchor/auth.go` | none of its own | `CreateChallenge`, `VerifyChallenge`, `RequireAuth` | nonce store, JWT issuer, account fetcher, signer |
| Nonce store, `store/memory/nonce.go` | nonce → expiry, consumed | `Add`, `Consume` | called by authentication |
| JWT, `anchor/jwt.go` | a secret | `Issue`, `Verify` | called by authentication |
| Observer, `observer/horizon.go`, `observer.go` | cursor, running flag, handlers | `OnPayment`, `Start`, `Stop` | Horizon stream, cursor saver, handlers |
| Matching, `observer/match.go` | none | `AutoMatchPayments` | observer → `NotifyPaymentReceived` |
| HTTP client, `core/net/client.go` | circuit breaker | `Get`, `Post`: retries, backoff | the network |
| stellar.toml, `core/toml` | a cache with TTL | `Resolve`, publishing | HTTP client |
| Wallet client, `sdk` | session | `Login`, `Deposit`, `Withdraw`, `Poll`, `WaitForCompletion` | an anchor, over the HTTP client |
| `core/crypto`, `core/account`, `signers`, `errors` | none | random nonces, one Horizon request, signatures, error values | leaf packages |
| Example anchors, `examples/` | metadata of transfers | SEP-6/24 pages and endpoints, webhooks | everything above |

What is hard in it, and what correctness means for each part:

* **Transfer manager.** Every HTTP request, webhook and stream callback is a
  goroutine, so any two methods may run at once on one transfer. Correct means:
  a transfer moves only along the table, in atomic steps; of two racing or
  repeated notifications one wins; what completed stays completed, with its
  references; handlers hear of the moves in order; an interactive token works
  once; no failure leaves a transfer locked. Failures are a store that returns
  an error at any call, a handler that panics, and a restart.
* **Hooks.** Handlers run while the per-transfer mutex and the registry's read
  lock are held, and may call the manager. Correct means that no registration is lost
  and that every call returns, for handlers that keep what order the locks need.
* **Store.** `FindByID` returns the pointer to the live record. Correct means
  that readers see states of the lifecycle, in order.
* **Authentication, nonces, JWTs.** Challenges are verified concurrently, late,
  twice, after a restart. Correct means: one challenge, at most one JWT; none
  accepted after its time bounds; only for signers who together reach the
  threshold; a JWT lives as long as configured, in whole seconds.
* **Observer and matching.** A payment should reach its transfer exactly once
  across reconnects, restarts and failing handlers, and end its wait.
* **HTTP client.** A retry may repeat a request that did take effect; the
  breaker should open, let requests through and close, and a call end in time.
* **stellar.toml.** Concurrent misses may answer out of order; a file must be read as
  the publisher meant it and not be stale for long.
* **Wallet client.** `Login` should yield a session only for a challenge of its own
  and survive what it can of lost answers; what a wallet is told of its transfer must
  be true, and polling should end when the transfer does.
* **Etherfuse example.** Pages and webhooks share a record they replace without a lock,
  and Etherfuse's answers and webhooks are lost, repeated and reordered. Correct means:
  one order per transfer, no transfer ahead of its order, no customer without both
  order and link.

`PROJECT.json` lists the hazards one by one, each at its line.

## Modules

```
TransferFSM             the table, the kinds, modes and statuses
 ├─ TransferLifecycle   abstract: one record per transfer, atomic legal moves
 ├─ TransferManager     the manager and the store; implements TransferLifecycle
 │   ├─ MCTransferManager, TransferManager_proofs
 │   └─ StatusReader    + a client that polls GetStatus
 │       └─ WalletTransfer   + the wallet's TransferProcess and the basic example anchor
 │           └─ MCWalletTransfer, WalletTransfer_proofs
 └─ EtherfuseOrders     the Etherfuse example, over the abstract manager
     └─ MCEtherfuseOrders, EtherfuseOrders_proofs
HookRegistry            the registry's lock, the transfers' mutexes, handlers that call back
 └─ MCHookRegistry, HookRegistry_proofs
OneTimeChallenge        abstract: the life of one challenge
WebAuth                 authentication over the nonce store and the JWT issuer;
 │                      implements OneTimeChallenge
 └─ MCWebAuth, WebAuth_proofs
PaymentObserver         the Horizon observer over a ledger that grows
 └─ PaymentMatching     (with TransferFSM) AutoMatchPayments over it
     └─ MCPaymentMatching, PaymentMatching_proofs (of both)
HttpClient              the retrying client and its circuit breaker
 └─ MCHttpClient, HttpClient_proofs
StellarToml             what the parser makes of what the publisher renders
TomlResolver            the resolver's cache
 └─ WalletLogin         (both, and an instance of OneTimeChallenge) sdk.Client.Login
     └─ MCWalletLogin, WalletLogin_proofs (of all)
```

### TransferManager

State: `transfers` is the store's map (`Absent` for no entry), `tokenToID` the
IDs whose token is in the token map, `locked` the IDs whose mutex is held,
`call` what each goroutine is doing. `events` records what the host's handlers
were told and `crashes` counts restarts; neither exists in the code.

A method call is a record that advances through `pc`; one action is the code
between two points where another goroutine can act:

| pc | Code of the action that leaves it |
|---|---|
| `save` | `store.Save` in `Initiate*` |
| `load` | `CompleteInteractive`'s read, outside the mutex (transfer.go:240-251) |
| `lock` | `lockForTransfer(id).Lock()` (363-365, 387-389) |
| `check` | `FindByID` and `ValidateTransition` (367-373, 391-397) |
| `write` | `store.Update`, the status (memory/transfer.go:88) |
| `details` | `store.Update`, the other fields; the store's lock is held from `write` |
| `own` | the reload and the method's own hook (378-380) |
| `changed` | the `transfer:status_changed` hook, `return nil`, the deferred `Unlock` (381-383, 411-413) |
| `announce` | the `deposit:initiated` / `withdrawal:initiated` hook, outside the mutex |
| `token`, `find` | the token map, then `FindByID` (257-288) |

A call that returns an error goes to `idle`; one that returns nil stays `ok`
until its goroutine calls again, so that properties can speak of what a caller
has been told.

Abstracted: amounts, messages, metadata, URLs and times, except whether
`CompletedAt` is set. Random IDs and tokens are fresh values, and nobody names
one that was not given out (`Nameable`), apart from `NoId`. `VerifyInteractiveToken`
is `ConsumeInteractiveToken`. The statuses `failed` and `expired` are in the table,
but no method of the manager asks for them. The handlers are external code that
returns or panics; what handlers that call back do to the locks is `HookRegistry`.
A store other than the one in memory appears as `Fault`:
`"store"` lets any of its calls fail, `"crash"` restarts the process over a
persistent store whose updates are all or nothing.

### HookRegistry

A goroutine is a stack of calls (`stack`), as a handler may call the manager while
the call that triggered it is still open. `readers` and `writer` are the RWMutex:
`Announce` is `Lock` from the moment it keeps readers out, `Drained` its return.
`locked` are the transfers' mutexes. `Does` is what the host's handlers do: return,
panic (the deferred unlocks run, net/http recovers) or call a method for another
transfer. With `ChainsLast` the host registers the handlers that call the manager
after all others, when no other registration is under way.

`LocksHaveOwners` compares the two locks with the calls on the stacks, a call being named by its
goroutine and its depth. `WaitsFor` is the wait-for relation of goroutines that is read from the
stacks: `NobodyWaitsInVain` says that whoever is `Blocked` has somebody to wait for, and
that every group of blocked goroutines has one that waits for none of the group, so the
relation has no circle.

`Does` and `ChainsLast` say what the code needs and does not ask for. Without the
latter `EveryCallerReturns` does not hold: the goroutines wait for each other. Handlers that call for their
own transfer, that call across transfers in both directions, or that register
others (`Lock` under the goroutine's own `RLock`), block for certain and
are left out.

### StatusReader

Adds one client that polls `GetStatus`: it finds the pointer under the store's
read lock, then reads the status, then the rest, without a lock. `last` keeps the
previous answer. By the Go memory model such a read may return an older value;
the model returns the current one, so what it finds wrong is wrong on every
build, and what it finds right assumes word-sized reads of current values.

### WalletTransfer

`StatusReader` with the process around it. `wallet` is the SDK's `TransferProcess`:
`initiateTransfer` asks the example anchor to open a transfer, `WaitForCompletion` is
the loop `poll`, `served`, `sleep` over the reader's `GetStatus`, and its answer
goes through `mapStatusToSEP24`. Either request may go unanswered (`http.DefaultClient`
does not repeat). The interactive page is `OpenForm` (GET peeks, POST consumes the
token) and `FinishPost`, the rest of the POST handler: a goroutine whose token was
consumed must go on to `CompleteInteractive` and does nothing else first. `HostCall` is
any other method by the bank, the operator or the observer. The manager's own
actions are used as they are; the theorem `WalletUsesManager` says that the whole is a
behaviour of `TransferManager!Spec`.

### WebAuth

State: `now`, the clock, in ticks finer than a second; `nonces`, the store's map;
`challenges` and `jwts`, what clients hold; `call`, the goroutines; `drawn`, which
makes random nonces unique. `CreateChallenge` is `AddNonce`, `BuildChallenge`,
`SignChallenge`: two readings of the clock with time in between, as in
auth.go:93-99. `VerifyChallenge` is `Present`, `Consume` (with the cleanup of all
expired entries), `CheckSignatures`, `Issue`. A challenge is named by its nonce;
`Foreign` is any transaction whose nonce this server never stored. A signature is a key and
the hint it came with. The hint is no part of what is signed, and auth.go:308-337 compares
hints with each other and keys with the signers, but never a hint with a key; so the two
are independent in the model, which covers a key under several hints and keys that share one.
The signatures and the answer of `FetchSigners` are chosen when they are checked, from sets that
include duplicates, strangers, missing server signatures and weight 0.
`RequireAuth` changes no state: it is the operator `Verify`. The HMAC issuer cannot
fail on the claims it is given, so `Issue` always succeeds.

### PaymentObserver

State: `ledger` is the network, a sequence of accounts and `Other`; a payment is
named by its place in it, which doubles as its paging token. `handlers`, `cursor`,
`stopped` (the closed channel), `backoff` and `cancelled` (the context) are the
code's; `saved` is what the cursor saver has persisted, `pos` how far the Horizon
client has passed operations on, `pc` where `Start` is. `joined`, `heard` and
`owed` are history.

| pc | Code of the action that leaves it |
|---|---|
| `check` | the first select and the reading of the cursor (horizon.go:124-144) |
| `stream` | the callback's beginning (145-157), or the stream's end (174-178) |
| `handle` | one handler of `processEvent` (300-319), then the cursor (159-162) |
| `save` | the cursor saver (164-172), which may fail |
| `ended` | the second select (180-187) |
| `wait` | the backoff's select and doubling (192-207) |

`OnPayment`, `Stop` and `Cancel` come at any of these points. A callback runs the
handlers registered when it begins, as the code copies the slice. The
Horizon client is external: from its cursor on it passes on every operation in
order, and it returns an error, or nil when its context is cancelled. A handler's error
changes nothing in the code, nor does it here. A process that restarts begins at the
saved cursor and registers its handlers anew.

### PaymentMatching

`PaymentObserver` whose `Matcher` handler is the closure `AutoMatchPayments` registers,
in one step with the handling of the payment (`HandleAndMatch`). Of the manager it
keeps kind, status and Stellar hash, and a method is one step, which
`ManagerImplementsLifecycle` allows. `HostMove` are the host's other calls. The transfers
and the saved cursor survive a restart, the memory of handlers does not.
`AutoMatchPayments` takes any `Observer`: `MemoKept` tells one that fills in
`PaymentEvent.Memo` from `HorizonObserver`, which does not.

### HttpClient

State: `failures`, `state` and `sinceFail` (the age of `lastFailTime`) are the
breaker; `call` is what each goroutine does in `do`: `loop` is the loop's head with the
check of the context (client.go:150-168), `sent` an attempt under way, `sleep` the
backoff. `left` is the time an attempt or a sleep still has; `Tick` waits for nobody but for code
that takes no time. `healthy` is the network and the server together: an attempt
is answered below 500 only when it is on, and fails only when it is off or the
context is cancelled. `recent`, `duration` and `verdict` are history. `Power[n]` is
`1 << n` as a chain of doublings, for exponents that do not overflow; a count of 63
retries is not modelled.

### StellarToml and TomlResolver

`StellarToml` is pure: `Render` gives the publisher's lines, `Parse` runs the parser's
loop over lines, and `ReadsAsWritten` compares them with `Kept`, what the wallet is
to see. Both are recursive functions of the number of currencies or lines. `Publishable` are the
files an anchor may publish: values without quotes, line breaks or outer white space,
in a file shorter than the resolver's limit.

`TomlResolver` is one domain's cache entry: `Ask`, then `Hit`, or `Miss`, the
anchor's answer (`ServeFile`) and `Store`, each without a lock from one to the next,
while `Publish` replaces the file. `gone` is history: how long ago a file was last
the published one.

### WalletLogin

Any number of wallets' goroutines log in over one resolver. A request is an element of
`requests` from when it is sent until the anchor is done with it; `AttemptFails` gives
up on it (no answer in time, or a lost one) while it may still be served, up to `MaxLate` of
them at once, and net.Client tries again until `MaxRetries`. The anchor is
`OneTimeChallenge`, which `WebAuth` implements: a POST first takes the challenge
(`Accept`), then grants or voids it. Whether the anchor supports web authentication is what
the parser makes of its file (`Supported`). `Refuse` is the 400 for a challenge that is no
longer open, which is what a retry gets after its first attempt went through. A 200
whose token cannot be decoded (sdk/auth.go:162-168) ends the login in an error though its challenge
is granted.

### EtherfuseOrders

The pages of `interactive.go`, the endpoints that open a transfer, and
`processOrderEvent` of `webhooks.go`. `work` is the goroutines, `transfers` the
store with its metadata, `tokens` the interactive tokens, `orders`, `events` and `kyc` the
world of Etherfuse. `mergeMetadata` is two steps, `ReadMetadata` and
`WriteMetadata`, because nothing is locked in between; placing an order is `create`,
`consume`, the merge and `complete`. A request to Etherfuse may fail before or after it took
effect, and any webhook sent stays in `events`, to be delivered at any time and any number of
times. `Old` are orders of transfers lost in a restart of the memory store.
The customer posts what a page has shown him (`forms`), in any number of tabs. The handlers
do not check that: handlePostQuote and handlePostOrder ask for a token and not for the verification, so
`NoOrderBeforeApproval` says nothing of a request made without the pages.

### Abstract specifications

`TransferLifecycle` says what a host may rely on: a transfer is created once in
the right status and then changes only by atomic legal moves that write status,
references and completion together. The refinement mapping `Shown` counts an
update from its first write, because the store's lock hides the middle from
everybody who asks the store (`StatusReader` shows who does not).

`OneTimeChallenge` gives each challenge the stages unissued, open, presented,
granted and void; `StageOf` computes the stage from the nonce store, the calls
and the JWTs. `Void` covers refusal, expiry and restart, which may hit several
challenges at once.

## Runs

Each takes at most two minutes or so with two workers.

| Run | Instance | Shows |
|---|---|---|
| ManagerMoves | 2 goroutines, 1 transfer, 2 references, all transition methods, both kinds and modes | 165,099 states: `NoMoveAcceptedTwice`, `CompletionIsFinal`, `HandlersUpToDate`, `NoOrphanDeposit`, refinement of `TransferLifecycle` |
| ManagerFaults | 2 goroutines, 1 transfer, tokens, failing store, panics, 1 crash, fair scheduler | 117,038 states: `NoOrphanLock`, `TokenGrantedOnce`, `EveryCallReturns` |
| HookCalls | 2 goroutines, 2 transfers, 3 handlers: one panics, one moves the other transfer | 99,379 states: `LocksHaveOwners`, `NobodyWaitsInVain`, `RegistrationsKept`, `EveryCallerReturns` |
| AuthChallenges | 2 goroutines, 2 nonces, 2 ticks a second, timeout and expiry of 3 ticks, clock to 6, 1 restart | 970,702 states: `ChallengeGrantsOnce`, `NoLateAcceptance`, `QuorumOfSigners`, `TokenLifetime`, refinement of `OneTimeChallenge` |
| PaymentMatches | 2 handlers, 1 transfer, 3 kinds of payment and others, 2 operations, 2 broken streams, 1 restart | 1,696,095 states: `ExactlyOnce`, `PaidBeforeDisbursed`, `PersistedIsOffered`, `OnePaymentCounts`, `PaymentEndsWait`, `CancelEndsStart` |
| ClientRequests | 2 goroutines, 2 retries, timeout 2, backoff 1, limit of 2 failures, reset after 3 ticks | 397,508 states: `OpenAfterFailures`, `RequestInTime`, `BreakerCloses` |
| WalletPolls | 2 goroutines, 1 deposit, 1 wallet | 458,927 states: `AnswersFollowLifecycle`, `FinalStatusIsTrue`, `NoDeadLink`, `SubmittedFormCompletes`, `CompletionEndsWait` |
| WalletLogin | 2 logins, 2 challenges, 2 files, TTL 2, a fetch of 1 tick, 1 retry, 1 late request | 1,957,556 states: `StaleAtMost`, `ResolvedIsMeant`, `OutcomesAreEarned` |
| EtherfuseOrders | 2 goroutines, 1 transfer, 3 order IDs, one of them from before a restart | 1,381,293 states: `TransferFollowsOrder`, `LinkLivesUntilOrder`, `OneOrderPerTransfer`, `NoOrderBeforeApproval`, `PromptHasOrder`, `OrderEndsForm` |
| HorizonNeverMatches, WaitNeverEnds, EtherfuseLostUpdate | as the runs above, or smaller | violations: the findings below |

The type invariants are no properties of runs: `Spec => []TypeOK` is a theorem for every
component with a proof module.

Why the bounds are enough. Transfers do not interact except through the tokens'
map, which only its keys index, so one transfer shows every race on a record and a
token. Two goroutines reach
every race of two calls; a third waiting at a mutex adds nothing to what two
holders could do wrong, and the theorems are for any number. Two references tell the
winner's from the loser's. A transfer makes at most four moves, so `events` is
bounded without a cap. HookCalls needs two transfers, as a handler calls from one to
the other, and three handlers, two to be registered at once and one after them.

In AuthChallenges a timeout of one and a half seconds
makes the cut to seconds matter at every phase, and the clock reaches past the
expiry of both a nonce and a JWT. A client sends up to two signatures, under one hint or two, of its
master key, a cosigner or a stranger: enough for one key to come twice and for two keys to
share a hint, and two of weight 1 are what the highest threshold needs. In PaymentMatches two operations let a
payment come before or after another that filters or the conversion skip, come
twice, or two name one transfer, with the stream broken and the process restarted in between;
a second broken stream doubles the backoff up to its limit, and the handler beside the
matcher may register late or not at all. The payments name the transfer, name nothing, or
go to another account. The observer's properties are theorems for any ledger. In ClientRequests two retries
make the backoff double once, two failures from different goroutines open the
breaker, and it reopens, closes and is passed by late failures in between.

In WalletPolls two goroutines submit one form twice, or race the form with the host, while
the wallet polls; deposits only, because the SDK's `Withdraw` never reaches the anchor
(see below) and the two kinds do not share a status before the form. In WalletLogin a TTL of
two ticks and a fetch of one make hits and misses of either wallet overlap, with both files
published in turn; one retry and one late request let an answer be lost and its request
still be served. Files are compared for every list of up to three of the three sorts of
currency, one more than the limit of two. In EtherfuseOrders one transfer meets webhooks of its
own order, of the order a duplicate would have had, and of a transfer that is no more.

The `Next` of each passing run is covered by the passing runs together.
Deadlock is checked everywhere: callers can always begin another call, and where
the model's bounds stop one action another remains.

Fairness. `FairSpec` of the manager asks that a goroutine that can take a step inside a method
takes it (the Go scheduler runs every runnable goroutine; I/O in the store and
handlers are taken to return), and that one waiting for a mutex that is released
again and again gets it (`sync.Mutex` hands the lock to the longest waiter after
1 ms in starvation mode): weak fairness of `Advance`, strong fairness of `Lock`.
`HookRegistry` asks the same, and strong fairness for both locks of the RWMutex: a
writer keeps later readers out, and its `Unlock` lets the waiting readers in
before the next writer. Starting a call, faults and crashes are not fair.

In `PaymentMatching` the steps of
`Start` are weakly fair: handlers and savers return, timers fire, and the Horizon
client passes on what the ledger holds; and the program registers the matcher and calls
`Start` again after each restart, as the basic example's `main` does. Payments, broken streams,
`Stop`, cancellation and the host's moves are not; `MaxFailures` says that streams break finitely
often, without which no payment need ever arrive. `WalletFairSpec` adds to the manager's
that a request handler that has begun goes on, that the wallet's timer fires and that a poll is
answered or fails. In `EtherfuseOrders` a handler that has begun goes on.

In `HttpClient` the steps of a call are
weakly fair and time passes (strong fairness of `Tick`: callers that are refused at once
could otherwise stop the clock). `BreakerCloses` states as its premise what it
needs of the outside: a server that is well in the end, cancellations that
cease, and somebody who goes on calling.

Every property of a passing run has a mutant: an operator beside the definition
it replaces, marked `MUTANT`, with a plausible bug, under which TLC finds the
property violated.

## Findings

Places where code and documents disagree, each shown by a run.

* `HorizonNeverMatches`: `HorizonObserver` never fills in `PaymentEvent.Memo`
  (horizon.go:222-286), and `AutoMatchPayments` skips payments without one
  (match.go:59-64): with the observer the repository has, no withdrawal is ever matched, against
  match.go:11-12 and observer.go:54-55.
* `WaitNeverEnds`: both examples show failed, denied and cancelled transfers as `error`
  (basic-anchor/sep24.go:57-67), which the SDK's `isTerminal` does not know
  (sdk/transfer.go:136): `WaitForCompletion` polls them until its context ends,
  against sdk/transfer.go:109-111.
* `EtherfuseLostUpdate`: of two `mergeMetadata` at once the later write drops the keys of
  the other (webhooks.go:312-327), the order ID among them, without which no webhook
  finds the transfer.
Known, without a run:

* Web authentication. Duplicates among a challenge's signatures are told by their hints
  (auth.go:314-321), which are not signed and which nothing compares with the keys that verify
  (auth.go:324-336). A key whose signature comes under two hints is counted twice, so signers
  below the medium threshold can be taken to reach it, against stellarconnect.go:212-213. For
  keys that come under one hint each, `QuorumOfSigners` is checked and proved; without its
  premise `OneHintEach` the same run finds it violated. The other way round, two signers that
  share a hint are refused as a duplicate (auth.go:319). Remembering the signers that matched
  instead of the hints would make both right.
* Manager. `Deny` and `Cancel` are refused in non-terminal statuses such as `interactive`
  (fsm.go:28-33); README.md:517 says any state can be denied or cancelled. The
  `Notify*` methods do not look at the kind (transfer.go:295-320); README.md:219-222
  gives each to deposits or to withdrawals. `NotifyPaymentSent` and
  `NotifyDisbursementSent` name `transfer:status_changed` as their own hook, so its handlers
  run twice for one completion (transfer.go:307, 319, 380-381); README.md:293 has one event per
  transition. `GetStatus` may answer `completed` without a completion time
  (transfer.go:343-348 against memory/transfer.go:88-114).
  With a crash or a store error between `Save` and the transition, an api-mode deposit
  stays in `initiating` (transfer.go:168-177), from where only `Deny` moves it:
  `NoOrphanDeposit` is checked without faults. A store error after the form's token was
  consumed leaves the link dead: `NoDeadLink` is checked, and proved, without them.
* Hooks. `On` blocks for ever, and a handler with it, when it waits for the registry's lock
  while a handler calls the manager for another transfer: the inner `Trigger` waits behind
  the waiting writer, the writer for the outer one (hooks.go:50 and 63); hooks.go:29 calls the registry
  thread-safe for concurrent registration and triggering. `HookCalls` with `ChainsLast = FALSE`
  shows it.
* Observer. With the default cursor, a stream that breaks before its first
  payment is reopened at a later "now" (horizon.go:134-144) and skips what came in
  between; horizon.go:41 speaks of historical payments only. `Stop` returns while handlers
  run and more may follow (horizon.go:212-217 against observer.go:93), and does not end
  `Start` while its stream is open (horizon.go:144 against 101). The matcher logs a refused or
  failed notification and reports success, so the payment is not offered again; it looks at neither
  amount nor kind. `WithMinAmount` compares amounts as strings (observer.go:116), which is
  right only for as many digits before the point, not for "the same precision" as its comment has it.
* SDK. `Withdraw` posts to `/transactions/withdrawal/interactive` (sdk/auth.go:201, 240), which
  the examples route as `/withdraw/` (basic-anchor/main.go:155): it always gets 404. The first poll
  reports a change from `interactive` to `incomplete` that is none. A retry of `Login`'s POST finds its
  challenge spent and is answered 400. `Session.ExpiresAt` is a day from now
  whatever the JWT says. An older answer may overwrite a newer one in the toml cache, with a fresh
  timestamp; `StaleAtMost` bounds by how much.
* stellar.toml. At the limit of currencies the parser leaves the last one open and appends
  it once more; keys of other tables are read as top-level ones; `desc` and `is_asset_anchored`
  are written and not read.
* Etherfuse example. A refund or failure after the funding is dropped, as `Cancel` is illegal from
  `pending_stellar`; webhooks that come before the order's ID is stored, and a completion that
  comes before its funding, are answered 200 and lost; when the answer to an order is lost and the
  repeat is refused as a duplicate, the transfer stays interactive.

## Proofs

The proof modules hold no assumption beyond the named ones
of their components, which say what the constants are: any sets of goroutines, transfers,
references, nonces, signers and handlers, any subset of methods and faults, any
clock resolution and timeouts, any number of payments, broken streams and restarts.

**Transfer manager.** The basic invariant is `TypeOK`, `MutexOK` (of the calls in
the critical section no two are on one transfer, and each holds its mutex) and
`CallsOK` (what a call knows at each step). None is inductive alone: that the move
checked is still legal at `write` needs `MutexOK`, and `Save` needs that no other call
saves the same ID. On it rest:

* `MovesAreExclusive`: every edge of the table raises `Stage`, a natural number,
  so a status once left does not return. The strengthening says that a transfer
  accepted by a call is at that call's stage or later and that accepted moves
  are pairwise different.
* `CompletionsLast`: a call that completed a transfer pins its record; `write` is
  impossible from `completed`, and `details` of another call is excluded by the mutex.
* `LocksAreReleased`: `locked` equals the image of the calls in the critical
  section; every action changes both sides alike.
* `TokensAreOneTime`: a token leaves the map in the step that grants it and never
  returns, because `Fresh` IDs are not named by any call.
* `DepositsMoveOn`, for a store that does not fail and a process that does not crash:
  the `InitiateDeposit` that saved an `initiating` transfer still asks for
  `pending_external`, a legal edge, so its check is refused only when somebody has
  already moved the transfer; and by `Stage` nobody moves it back.
* `ManagerImplementsLifecycle`: `Save` is `Create`, `WriteStatus` is `Move` and all
  else stutters. It needs `StampOK` (only completed transfers are stamped).
  `ShownOf` restates the mapping with explicit arguments, as a CHOOSE over primed
  and unprimed calls must be compared.
* `HandlersKnow`, for a process without faults (a handler that panics stops those after
  it): `HandlersUpToDate` is inductive with the basic invariant and that a transfer that does not
  exist has no events. A call that moves a transfer keeps its mutex until it has told the
  handlers, so its event comes after all others and is the last one heard.

**Hooks**, for handlers that return, panic or call the manager, for whatever transfer. The basic invariant is `TypeOK`, `NestingOK` (below
the top of a stack there are only calls whose handler the next one was called by) and
`RegistrationOK`.

* `NoRegistrationLost`: a registration past `Lock` has the registry alone, so the list it has
  looked up is still the one in the map when it stores the extended one.
* `NoLockIsLeft`: `LocksHaveOwners` is inductive with the finiteness of the set of readers. Each
  step changes the frame at one place of one stack, adds one or takes one off; a panic takes
  all of a goroutine's, and gives back as many read locks as it has frames in a Trigger (a bijection).
  A goroutine that calls for a transfer whose mutex it holds stays in `lock` and owns nothing
  twice.
* `NoDeadlock` proves `NobodyWaitsInVain` under what the code needs of its host: `ChainsLast`,
  and a ranking of the transfers in natural numbers with handlers calling the manager only for lower ones
  (`Downward`; the chain of the run, from t1 to t2, has one). The invariant `OrderOK` says
  that nobody registers once a handler that calls the manager is in the map, that such a
  registration is alone, that calls nest only after it (`ChainsOK`, from `RunsOK`: a Trigger runs
  registered handlers), and that nested calls are for transfers of ever lower ranks (`Descends`).
  So a registration that waits for readers waits for Triggers that are not nested and go on
  (`ReaderRuns`), and of goroutines that all wait for mutexes the one that waits for the
  lowest waits for nobody of them: an owner that waits itself waits for a lower one
  (`OwnersWaitLower`).

**Web authentication.**

* `ChallengesAreOneTime`: a nonce in use by a call or paid out in a JWT is spent (its
  entry marked or gone, and never drawn again) and belongs to that call or JWT alone.
* `NothingAcceptedLate`: a stored nonce's expiry, in seconds, does not exceed the
  time bounds of any challenge or call that carries it, because the bounds are
  computed from a later reading of the clock.
* `TokensLast`: `exp` is the cut of issue time plus lifetime, and cutting is monotone.
* `QuorumSigned`: the code adds up the weights of the signatures, the property those of the
  keys that signed. As hints are different and, by `OneHintEach`, a key comes under only one, no key
  comes twice and the sums are the same (`SumOfKeys`), whatever the order in which they are taken
  (`AnyFirst`). Without `OneHintEach` they may differ, as the known list says; that all are signers,
  and at least one, is proved without it. The theorem needs `SignersAssumption`: finitely many
  signatures, weights and thresholds that are natural numbers.
* `AuthImplementsOneTime`: each action moves one nonce's stage, except `Tick`,
  `Consume`'s cleanup and `Crash`, which void sets of them.

**Observer.**

* `SavedCursorIsSafe`: saved is at most cursor, cursor is behind the payment at hand,
  and what is owed is that payment, to handlers still to come. It holds for
  any first cursor, "now" included, and any handlers; the run checks its counterpart over
  restarts, for the matcher (`PersistedIsOffered`).
* `PaymentsReachHandlersOnce`, for an observer that starts at a position (from "now"
  it does not hold, see Findings): `ExactlyOnce` is not inductive. A reconnect moves
  the stream back to the cursor, so one needs that no payment lies between
  the two (`NothingBehind`); a handler that registered there must not have been
  passed by (`NothingAhead`); and the handlers of a callback are distinct and
  registered before its payment came (`HandlersOK`).

**HTTP client.** `BreakerFollowsVerdicts`: the count is the length of the run of
failures at the front of the history, and open means that it has reached the
limit; only `RecordSuccess` and `RecordFailure` touch either. `RequestsEndInTime`: a call at
attempt *a* has taken at most `Spent(a)`, the attempts and backoffs before it, plus what has
passed of the one at hand (`InTime`); `Tick` cannot pass a call that is due. The powers of
two in the backoff double, are positive and grow: `PowerFacts`, by induction on the exponent.

**Matching.** `MatchingObserves`: the composition is an observer, so the observer's
invariants hold in it. `MatchInv` adds that the payment at hand is in the ledger and
that a withdrawal that counts as paid has the hash of a payment that names it (`PaidOK`); a
withdrawal enters `pending_stellar` only by the matcher. `PaymentsCountOnce` needs that a
withdrawal with a hash is past the status from which one is accepted. `CursorIsCovered` (for an
observer that begins at position 0: it does not know what came before its first
process) carries `CoverInv`: the matcher is registered before `Start`, has dealt with all it has heard, and
with what came before it registered, as the saved cursor covered it.

**Wallet and anchor.** `WalletUsesManager` maps every step of the composition to one of
the manager or a stutter, so the manager's invariants are available. `SeenInv` says that what
a `GetStatus` has read, and the answer before it, are statuses from which the transfer came
to where it is; `Later` is closed under moves (`LaterIsClosed`: five moves reach everything), so it
survives them. `AnswersInOrder` and `FinalAnswersHold` follow. `LinksLast`, for a store that returns no errors,
needs `LinkInv`: who carries an interactive transfer (its token, or a request that has consumed it
and not yet completed it), and that tokens exist before their transfers are saved.

**Etherfuse.** One invariant, `SafetyInv`: orders have the deterministic ID of their
transfer (`OrdersOK`), a transfer's status and metadata are covered by events of its order
(`TransfersOK`), so is what each goroutine is about to write (`WorkOK`: metadata read earlier,
moves decided earlier), and nobody is past the first form before an approval (`ApprovalOK`).

**Login.** `LoginUsesResolver` and `LoginKeepsChallenges` are the two refinements. `ResolverInv` bounds the
age of a file in flight by the time of its fetch. `LoginInv` says that a live request
is its login's only one, challenges of different logins differ, and until
an attempt was lost nobody but the login itself can spend its challenge (`UnspentOK`).

**Files.** `FilesAreRead`: the parser reads every publishable file as `Kept` says. A rendered
file is a block of top-level keys and one block for each currency (`HasAt` places a block in
the file). The invariant of the parser's loop, `HasRead`, holds between blocks: the currencies read,
with the open one counted in, are the kept part of those rendered, and the keys at the top
are those of the file. `ResolvesWhatIsMeant` follows, as a resolver only stores what it has parsed.
The values of the recursive functions come from `Recursion` (a function that satisfies the equation
exists, so the one chosen does) and `StaysIn` (it stays in its set).

Where an induction is needed, over powers, sums, currencies or lines, the proofs take a set of
counterexamples and its least element: the library's induction theorems take an operator,
which the provers cannot instantiate, but that the natural numbers are well-founded is a
statement about sets.

Only model-checked is liveness, which is out of the prover's reach (it needs ENABLED):
`EveryCallReturns`, `EveryCallerReturns`, `PaymentEndsWait`, `CancelEndsStart`, `BreakerCloses`,
`SubmittedFormCompletes`, `CompletionEndsWait`, `OrderEndsForm`. Every other property of a
passing run is a theorem.

## Plan and what is not modelled

All the components with state of their own are modelled. What would come next, most important
first:

1. Theorems that `PaymentMatching` and `EtherfuseOrders` move transfers only as
   `TransferLifecycle` does, with its records cut down to the fields they keep.
2. The SEP-6 endpoints of the basic example: they open transfers in api mode, where the manager's
   `NoOrphanDeposit` is the property that matters.
3. The customer and KYC webhooks of the Etherfuse example, should they come to do more than log.

Modules that are proved about use no RECURSIVE operators, take their sizes as
constants with named assumptions, and have one action per operation.

Not modelled: `core/crypto`, `core/account`, `signers` and `errors` are stateless; the other models
take nonces, IDs, tokens and signatures as unique values. In the examples, configuration,
the info, list and more-info pages (they only read), the check of webhook signatures and the decoding of the
burn transaction are left out. XDR, JSON, HTML and URL formatting are left out of every model, as are
amounts, assets and rates, on which no step of a modelled part depends.
