# SpendSeal in TLA+

This directory specifies and verifies the core of SpendSeal: the negotiated,
passkey-approved, single-use purchase, the sealed purchase of a browser shopping task
with the extension that carries it out, and the parts of the server these rest on
(tokens, members, catalogue, row locks). The modules are read next to the source
they translate; `PROJECT.json` maps each definition to its lines.

    tlc -config MCDeals.cfg MCDeals          # model-check one instance
    tlapm DealsProofs.tla                    # check the proofs

## 1. The system

A buyer's agent (ChatGPT, over MCP with OAuth) bargains with a deterministic
merchant agent over the price of one product. An accepted deal becomes a
PurchasePermit, which the buyer approves with a passkey. `prepareCheckout` then
revalidates everything, claims one payment order, and has it created at Razorpay
(or at a mock). The buyer's browser and Razorpay's webhook report the payment.
Everything is kept in PostgreSQL; the server is a stateless function that may run
many times at once.

The second way to buy is a shopping task: a browser extension searches a retailer's
site, the buyer confirms a product, the extension drives the site to its checkout page
and sends what it shows as evidence. The evidence is sealed in a browser purchase permit,
approved with a passkey on a page of SpendSeal, compared once more, and executed once.

| Component | State | Operations | Modelled in |
| --- | --- | --- | --- |
| Price negotiation (`deals.ts`, `negotiation.ts`) | `deal_sessions`, `deal_rounds`, `merchant_deal_policies` | start, counter, savePolicy, disablePolicy | `Negotiation`, `Deals` |
| PurchasePermits and approval (`deals.ts`, `store.ts`, `policy.ts`, `webauthn.ts`) | `intent_locks`, `approval_sessions`, `webauthn_challenges` | createPermit, createIntent, exchangeApprovalToken, approvalOptions, approve, prepareOrderClaim | `Deals` (negotiated), `Catalog` (catalogue purchases, challenges) |
| Checkout (`service.ts`, `store.ts`, `payments.ts`) | `payment_orders` | prepareCheckout, completeOrder, markReconciliation | `Checkout`, `Deals` |
| Payments and webhooks (`service.ts`, `app.ts`, `store.ts`) | `payment_orders`, `webhook_events` | verifyPayment, completeMockPayment, the webhook route, markPaid | `Checkout`, `Deals` |
| Payment configurations (`service.ts`, `store.ts`) | `merchant_payment_configurations` | configurePayments, rotateRazorpayWebhookSecret | `Checkout` |
| Catalogue (`store.ts`) | `products`, `product_revisions` | createProduct, updateProduct, getProduct | `Deals` (a sequence of revisions), `Catalog` (the current product) |
| Shopify (`shopify.ts`, `store.ts`) | `products`, Shopify's variant | products, syncShopifyProducts, productVariant, refreshShopifyProductForPolicy | `Catalog` |
| Memberships (`store.ts`, `app.ts`) | `merchant_memberships`, `merchant_invitations` | create, invite, accept, change a role | `Members` |
| Browser shopping tasks (`browser-agent.ts`, `shopping.ts`) | `shopping_tasks`, `browser_purchase_permits`, `browser_execution_attempts`, ... | 25 operations from task creation to execution report | `ShoppingTask`, `PurchaseSeal` |
| Browser extension (`service-worker.ts`, `content.ts`, `sidepanel.ts`) | `chrome.storage`, the handlers in progress, the tab | advance, approval window, revalidate, submit, finalize, operator commands | `Extension`, composed with `ShoppingTask` |
| Approval page (`ShoppingTaskPage.tsx`, `webauthn.ts`) | page, `webauthn_challenges` | load, options, approve, complete, cancel | `ShoppingTask` |
| OAuth (`oauth.ts`; the extension's `api`, `refresh`, `disconnect`) | codes, tokens, the stored pair | authorize, exchange, refresh, authenticate, revoke | `Tokens` |
| Audit chains (`store.ts`) | `audit_chain_heads`, `audit_events` | appendAudit | `RowLocks` (sequence, not hash) |
| Transactions (`db/client.ts`, the keys of the schema) | row locks | BEGIN, statements, COMMIT, ROLLBACK | `RowLocks` |
| API keys, rate limits, vault, config, routes, web pages, demo data, legacy `database.ts` | - | - | no: see section 9 |

How they interact: `prepareCheckout` reads the permit, the order, the product and
the active configuration in separate queries, then runs the claim as one
transaction, then calls the provider outside any transaction, then records the
answer in another one. A policy change writes deals and permits of every buyer. The
webhook and the buyer's browser write the order, the permit and the deal. These
meet only in the database; there is no shared memory and no queue. In the buyer's
browser the extension's worker runs its handlers concurrently: alarms, tab events,
the panel's buttons and timers each start one, and they meet in `chrome.storage`, in
the shop's page and at the server.

What each part must guarantee:

- negotiation: no price outside the limits of either party, convergence in three
  offers, one open deal per buyer, nothing open under an old policy; the three deals a day
  of the documentation, which starts that overlap can pass (section 6.1);
- permits: the terms approved are the terms agreed, refused is refused for good;
- checkout: one claim and one provider order per permit, no error swallowed, the
  configuration recorded is the one used;
- payments: paid only on a captured payment of that order, paid exactly once, and
  every captured payment recorded;
- tasks: one execution per task, of the evidence the passkey sealed, for the product and
  payment still chosen; nothing sealed for another product survives a change;
- extension: the shop is ordered to do only what was claimed, once; an execution
  reported as failed placed no order; a claim's grant and the wait for an approval are
  not lost between handlers; the operator's commands run in the order queued (that they
  submit nothing depends on the shop's labels, section 6.5);
- catalogue purchases: an order is within the terms approved, at a price Shopify had;
- OAuth: no second live branch of a token family, whatever overlaps; memberships and
  reuse of a token: an owner is left and the family revoked, except when calls overlap
  (sections 6.6 and 6.7); audit: one unbroken chain per scope; transactions: what one read of the
  policy still holds when it commits, and deadlocks only where they cost nothing.

What is hard: everything between two awaits of `prepareCheckout`, the webhook and
the browser; unconditional UPDATEs (`completeOrder`, `markReconciliation`,
`markPaid`); state checked in one transaction and used in another; a provider whose
answer is lost; deliveries repeated, early, or signed with a retired secret;
deadlines that are only looked at lazily; a worker that may be stopped between any two
awaits and whose handlers overlap; observations of a shop that are old when they are
stored; lock orders. `PROJECT.json` lists these hazards one by
one, with the line and the properties that cover each.

## 2. The modules

- **Negotiation** - the pricing rule as pure operators.
- **Deals** - the purchase at the grain of committed transactions: deals, policies,
  revisions, permits, approval, claim and order outcome. EXTENDS `Negotiation`.
- **Purchase** - the abstract specification of one approved permit: claimed once, its
  checkout opened or escalated, settled by one payment.
- **Checkout** - the same permit at the grain of a request's awaits, with the provider,
  the webhook, configuration changes and faults. It instantiates `Purchase` with
  `phase <- Phase[order.status]` and `payment <- order.payment`.
- **PurchaseSeal** - the abstract specification of a sealed browser purchase: evidence is
  offered, replaced or withdrawn, approved as it stands, executed once as approved.
- **ShoppingTask** - one task, transaction by transaction, with the approval page. It
  instantiates `PurchaseSeal`.
- **Extension** - the extension's service worker and the shop's page. It EXTENDS
  `ShoppingTask`: every call of the worker is an action of the server, joined with what
  the worker stores after the answer.
- **Tokens** - OAuth codes and token pairs, statement by statement, with the calls of
  the extension that refresh and revoke them.
- **Members** - roles, invitations and concurrent changes of role.
- **Catalog** - one product from Shopify or the merchant's form, and one catalogue
  permit with its approval, to the order.
- **RowLocks** - the transactions about one deal at the grain of their row locks.
- **MCPlatform** - `Tokens`, `Members`, `Catalog` and `RowLocks` in one run: they share no state, so a behaviour follows
  one of them (`component`), and the states add up instead of multiplying.
- **MCDeals**, **MCShoppingTask**, **MCExtension** - symmetry sets for TLC and the constraints of
  the runs (`ExploredDeals`, `ExploredTasks`, `Explored`), see section 3.
- **MCCheckout** - symmetry sets. The values of the constants are in the `.cfg` files.
- **NegotiationProofs**, **DealsProofs**, **BargainingProofs** (more of `Deals`),
  **CheckoutProofs**, **ShoppingTaskProofs**, **ExtensionProofs**, **RowLocksProofs**,
  **PlatformProofs** (`Tokens`, `Members`, `Catalog`, `MCPlatform`) - theorems and proofs,
  see section 7.

`Deals` and `Checkout` overlap on the order on purpose. `Deals` has the contents of
the claim (why it is refused) and takes each transaction as one step; `Checkout`
leaves the revalidation's outcome open and has the steps between the transactions.

### Deals and the code

| Variable | Table |
| --- | --- |
| `now` | the clock, in ticks of 5 minutes |
| `revisions` | `product_revisions`; the last is the row in `products` |
| `policies` | `merchant_deal_policies`, immutable, by version |
| `deals` | `deal_sessions` with their `deal_rounds` (`offers`) |
| `permits` | `intent_locks` rows of deals, with the open `approval_sessions` row (`session`) |
| `orders` | `payment_orders`; `atProvider` is "provider_order_id is not NULL", `claimant` that the request holding the order can still report an outcome |
| `starting` | the start a connection (`Starters`) is in: the buyer and what its checks have read |

Each action but one is one transaction, taken whole: `SavePolicy` includes
`invalidateOpenDeals`, `Counter` the whole of `submitOffer`. `start` is not one step. Its key
lookup, its sweep, its check for an open deal and its count of the last 24 hours (deals.ts:66-79)
are separate READ COMMITTED queries and lock nothing that another start of the buyer needs. So
`StartReads` is the checks and `Start` the rest to the COMMIT (80-93: product, policy, INSERT, first
offer); in between other starts, offers, policy changes and payments commit. `StartFails` is
the rollback. At `Start` the two unique indexes decide: (buyer, key), and
`deal_sessions_one_active_idx` (`NoOtherOpenDeal`), which is what keeps the second of two overlapping
starts from opening a second deal. The product is one read since the checks. The
policy is the latest, although it was read earlier: `submitOffer` reads it again once the
inserted row's foreign keys hold it. The rows a start has swept stay locked to its end (`Held`), and who
needs one waits.

A transaction that throws is rolled back by
`db/client.ts:48-61`, so it is no step (but `StartFails` ends a start), even where the code updated a status
before it threw (deals.ts:129, 185, 192). Why transactions may be taken as atomic is
what `RowLocks` checks, see below.

Abstractions: amounts are small numbers; the snapshot hash of a product is its
revision; `policy_id` is its version; the two refund checks of the claim never apply to
a negotiated permit, which is created with no refund terms (deals.ts:137); audit and
analytics rows are left out; product, merchant and currency are fixed.

### Checkout and the code

`requests` is where each `prepareCheckout` stands: `Begin` (service.ts:34-53),
`ReadConfig` (54-61), `Claim`/`DenyClaim`/`Replay` (62-74), `CreateProviderOrder`,
`ProviderAnswers`, `ProviderFails` (78, payments.ts:58-85), `CompleteOrder` (79),
`MarkReconciliation` (82). `CompleteOrder(r, FALSE)` is a commit whose acknowledgement
is lost: the code then runs its catch clause although the order is ready. `Crash` stops
a request anywhere. `webhooks` follows the handler of app.ts:28-38 through its
separate queries. `Pay` and `RegisterSecret` are external: Razorpay captures at most one
payment per order, sends an event for every attempt, and signs with the secret its
dashboard holds. Configurations are immutable once saved, so they are indexed by
version and the last one is active.

### ShoppingTask and the code

| Variable | Row or place |
| --- | --- |
| `now`, `live` | the clock; `users.browser_live_purchase_enabled` |
| `installs` | `browser_installations`: new, active, revoked for good |
| `task` | `shopping_tasks`; `permit` and `snapshot` are its `purchase_permit_id` and `checkout_snapshot_hash` |
| `reviewed`, `proposal` | the candidates that `shopping_selection_proposals` rows refer to; the pending row |
| `permit` | `browser_purchase_permits`, one row per task for its whole life (UNIQUE(task_id)); `confirmed` is "confirmed_at is not NULL" |
| `continuation` | the unconsumed `browser_approval_continuations` row |
| `page` | what the approval page shows and where it stands; `expiresAt` is that of its challenge |
| `passkey` | the snapshot hash in the last PASSKEY_VERIFIED event |
| `attempt` | `browser_execution_attempts`, at most one per task; `evidence` is the hash of FINAL_REVALIDATION_PASSED |
| `commands` | `browser_operator_commands` by sequence |

Every handler begins by locking the task row (`lockTask`), so each action is one
transaction, named as its handler; a handler that throws is no step. A refusal that
commits is one: `DenyExecution`, and the last branch of `ObserveCheckout`. The calls come
from two programs that the server does not trust to keep any order, so every handler is
enabled whenever its own checks pass; `Reports` are the statuses an extension sends.
The passkey approval is not one transaction: `OpenPage` loads the task and its permit,
`ShoppingApprovalOptions` reads them again and makes a challenge, `AnswerChallenge`
consumes it, and only then `Approve` locks the task. Everything else may happen between
these. The page keeps what it loaded (`page.shown`) until it is loaded again.

Abstractions: evidence is a product, a payment choice and a value of `Details` for
all the rest (seller, address, delivery, total); its hash is the evidence itself.
`evaluateBrowserCheckout` compares product, payment, expiries and, with a permit, the
whole evidence; its other checks (host, quantity, budget, recurrence, dates) are one
boolean input, `sound`. The candidates are not kept; a candidate over budget may be
refused or not. One buyer, one task. The deployment's kill switch acts as `live` does.
The server sets neither "checkout_observed" nor "expired", which some of its checks
name; they are left out. The approval window that the extension opens for a continuation
is `page.own`.

### Extension and the code

| Variable | Place |
| --- | --- |
| `flow` | `flow.phase` in storage, as far as a handler tests it |
| `grant` | storage holds an `executionGrant` |
| `handler` | each handler in progress: the await it stands at, the evidence it read from the page, the status it is about to report |
| `window` | whose approval window is the newest |
| `operator` | by number, the command an alarm's `pollOperator` has in hand and how the page answered |
| `tab`, `orders` | the page, and the orders the shop has taken |

A handler's step is one call of the server with the storage writes that follow, or one
message to the page: `Search`, `BuyNow`, `Configure`, `Observe`, `Inspect`, `Claim`, `Click`,
`StoreGrant`, `Finalize`, ... are the stretches between the awaits of service-worker.ts.
`advance` guards itself with `running`, but it *returns* the promises of `openApproval`,
`revalidate` and `finalize` without awaiting them, so `finally` runs first: `Guarded` names the
places where the flag is still held, and everything after them overlaps freely.
`AnswerLost` is commandTab's second attempt (305), `WorkerStops` clears what is in progress
and keeps storage, `CallFails` ends a handler at any await, `Refused` is an answer other than
2xx. `Click` clicks what the page shows by then; `ClickFinal` leaves open what the shop
makes of it. `FinalLabels` and `BlockedLabels` are the two regular expressions of content.ts.
Abstracted: how content.ts and adapters.ts find products, prices and controls is a choice
among the answers they can give (`CheckoutAnswers`, `PageEvidence`, `PaymentAnswers`); the
three retries are "again or give up"; phases that no code compares are `"other"`.
`PollOperator` claims the oldest queued command; nothing keeps two alarms from having one each in
hand. `OperatorActs(k)` is the page's answer, "completed", "blocked" or "failed" (which a click may
precede: the answer is lost, not the click), `OperatorReports(k)` the report to the server,
refused when the task's lock says so. A report made at a place "tell" or "late_tell" is one whose call saves no
phase in the worker (`PhaseOf`): "user_action_required" of an inspection (service-worker.ts:112) and
`SelectionConfirmed` (166).

### Tokens, Members and Catalog and the code

`Tokens`: `pairs` are the rows of `oauth_tokens` in the order issued, an access and a refresh
token each; `call` is a call of the extension with the rows its UPDATE will revoke. A refresh
is two steps, `LockToken` (SELECT ... FOR UPDATE, oauth.ts:76) and `IssueTokens` (79-86), and holds
its row in between; a revocation is `Revoke` (the rows the UPDATE sees) and `RevokeFamily` (it
waits for rows that are locked). `stored` is what the extension keeps; the answer of a
refresh overwrites it whatever it holds by then (service-worker.ts:304).

`Members`: `RequestChange` is the role check of the route (app.ts, before the transaction),
`LockTarget` the lock of the target's row and the count of the owners committed so far
(store.ts:332-339), `UpdateMembershipRole` the COMMIT. `AcceptInvitation` is one step that waits for
the locked row and replaces whatever role the user has.

`Catalog`: `shop` is the history of the variant at Shopify, an observation is an index into
it, `product.mirrors` the observation the product shows. `SyncFetch` and `ProductVariant` are the
requests to Shopify, `SyncShopifyProducts` and `RefreshShopifyProductForPolicy` the transactions that
store them. `ReadProduct` and `CreateIntent` are the two queries that create a permit
(service.ts:20-22), with the product of the first. `ApprovalOptions`, `Approve`, `CompleteApproval` are the three steps of a passkey approval
in each tab. `Allowed` is `evaluatePurchasePermit` without the refund terms. Each order
remembers which observation its own request made and whether another one was under way,
which only the property reads.

### RowLocks and the code

Each transaction of deals.ts and store.ts that concerns one deal is the sequence of its
locking statements (`StartStatements`, ...): SELECT ... FOR UPDATE is mode "update", an UPDATE
"change", and an INSERT takes "key" on every row its foreign keys name (PostgreSQL's FOR KEY
SHARE). A transaction holds its locks to its end, reads what is committed when the
statement runs, and its changes show at `Commit`. `chain` has the sequence numbers that
appendAudit writes from the head it locked.

This is what justifies the whole transactions of `Deals`, and a start as one step against a
policy change; two starts lock nothing of each other, and `Deals` has them overlap. `submitOffer`, `createPermit` and the
claim lock the deal row that a policy change must update. `start` reads the latest policy
and inserts its deal later: a policy change in between sees no deal to invalidate. What
makes the two wait for each other are the foreign keys of the inserted deal: `savePolicy`
locks the product row FOR UPDATE, `disablePolicy` the latest policy row, and both conflict
with the insert's FOR KEY SHARE; `start` reads the policy once more for its first offer
(`PolicyReadHolds`; without `Keys` it fails). Deadlocks are reachable: a policy change locks deal then permit,
an approval, a claim or a payment permit then deal; `savePolicy` and `disablePolicy` lock the product
and the policy in opposite orders. `DeadlocksNeedPolicyChange` says that no others are, and
that whoever is deadlocked is so without `completeOrder`, which records the provider's
order, and without transactions that hold nothing yet. A `completeOrder` may wait behind a
deadlock and others, from four connections on, may wait behind it; but who waits for it
then holds nothing, so the deadlock is among the rest.

Left out: the UNIQUE(scope, sequence) key of `audit_events`, a second guard of the chain; the
variant of `markPaid` that the mock provider reaches without a deal; a second deal. The
order's row is merged with its permit's: `completeOrder`, `markReconciliation` and `markPaid` update the order
first (store.ts:477, 490, 503), when they hold nothing yet, so a wait for it is in no cycle that
a wait for the permit is not in.

## 3. The runs

| Run | Instance | Shows |
| --- | --- | --- |
| `deals` | 1 buyer, 3 deals, 2 connections starting deals, 2 prices, clock 0..2, limit 1 in a window of 2; 3 policies and 3 revisions in part (278 470 states) | limits of both parties, nothing open under an old policy, one open deal per buyer, the overrun of the session limit, rows agree, `ClaimOnlyOnLiveDeal`, `RefusedIsFinal`, the inductive invariant, bargaining converges |
| `session_limit` | 1 buyer, 4 deals, 2 connections, limit 3, 4 policies, the clock stands | **violation**, see section 6 |
| `policy_voids` | 1 deal, 3 policies, 3 revisions | **violation**, see section 6 |
| `checkout` | 2 requests, 2 payments, 2 adapters, 2 configurations, 1 fault, fair (207 980) | single use, paid means captured, configuration recorded, no silent orphan, payment id kept, captured is recorded, implements `Purchase` |
| `webhook_lost` | 1 request, 1 payment, 1 fault, fair | **violation**, see section 6 |
| `seal` | 1 product with 2 kinds of evidence, clock 0..1, report "navigating"; and 2 products, 1 approval window, 1 command, nothing expires (890 244) | the seal invariant, executes what was sealed, one attempt, implements `PurchaseSeal` |
| `seal_shown` | 1 product, 2 kinds of evidence | **violation**, see section 6 |
| `extension` | 2 handlers, 1 fault or expiry, 2 commands, 2 labels (556 010) | ordered once and as claimed, failed means no order, the grant is held, the window is not waited for in vain, the operator keeps its order |
| `operator_order` | 1 handler, the label "confirm order" | **violation**, see section 6 |
| `platform` | 2 calls and 3 token pairs; 2 users and 2 role changes; 1 sync, 2 requests, 2 prices; 2 transactions (1 748 443 together) | no second live branch of a token family, orders within the mandate, unbroken chains, current policies, deadlocks only with a policy change |
| `reuse_escapes`, `last_owner` | as `platform` | **violations**, see section 6 |

The runs of `Deals`, `Checkout`, `Extension` and MCPlatform set CHECK_DEADLOCK FALSE: purchases
end, clocks, versions, token pairs and chains are bounded, so the system may really stop.
A buyer can always switch live purchases on or off, so those of `ShoppingTask` need not.

### Why the bounds are enough

- Offers 6, 8, 9 against minimum 6, prices 8 and 10 and ceiling 8 reach accepted, countered
  and rejected in each round, an offer above the ceiling but below the price, and the
  minimum itself. The price can fall to 8 after the policy, and up again.
- Durations are the code's in ticks of 5 minutes (deal 10 min = 2, approval session
  5 min = 1, key window 10 min = 2). Clock 0..2 lets a session lapse before its permit
  and a deal lapse before its claim.
- Two overlapping starts are the pair that races, and two deals suffice to start over after
  a dead one. `OverrunBounded` is at its edge with a limit of 1: two connections may make it 2,
  and a third deal would break it. `RecentDealsOf` counts the way the code does, the property
  counts back from each deal. For the documented limit of 3 see `session_limit`.
- Three policies and revisions are what it takes to leave a permit's version and come back to its price.
  They need not meet with three deals: `ExploredDeals` has overlapping starts and a third
  deal while nobody has a permit and the catalogue is as it was, a third version
  while there is one deal, and two deals with one change of policy or catalogue through all the rest. Larger
  instances were checked once: two deals with two versions of both (730 410 states).
- Two requests and two payments are the pairs that race; a third adds no new pair. Two
  configurations give one change at any point. One fault is enough for each hazard; what
  two faults do together is not explored. A rotation of the webhook secret that is
  overtaken by another change (`RotateWebhookSecret` appends the keys of a version read
  earlier) needs a third version: it is covered by the proofs only, for any number.
- `seal`, one product (`OneProduct`): two kinds of evidence are what a second observation, a stale page and a changed
  checkout need. The task outlives the permit (2 ticks against 1) and the clock makes one
  tick, so proposals, permits, challenges and grants lapse between any two steps and a lapsed
  permit is not hidden by a lapsed task; a clock of two ticks (3.7 million states) was
  checked once and `SealedIsExecuted` covers the task's expiry for every clock. The one report
  "navigating" takes a task out of any status into one that can be observed and
  sealed again, the most harm a report can do: "checkout_configuring" and
  "payment_action_required" allow the same steps, "payment_choice_required",
  "user_action_required", "failed" and "searching" fewer (those the worker sends are in `extension`).
- `seal`, two products (`TwoProducts`): to seal one after the other was reviewed, up to the
  first execution; time and changed evidence are left to the first half. The continuation
  adds the approval window that is closed under the buyer. The operator is followed until a
  permit exists; its commands touch nothing else, and `extension` has them at every stage.
  `SwitchInPlay`: the dashboard's switch changes before the task is created and while it waits for
  its claim, where it is read; at any time it was checked once (1 779 308 states).
- `extension`: two handlers are the pairs that race; they are symmetric. The states are
  those of the whole task times the worker's, so the run keeps apart what does not
  interact: `BuyerAttends` leaves the dashboard's switch and stray approval pages to
  `seal` and disconnects the extension only under a command it works on (`seal` revokes it
  anywhere); `LateTrouble` puts the one fault or tick after an attempt exists, where a lost
  call costs something; `OperatorApart` lets commands be queued, claimed and performed
  while no handler is between two awaits; `TwoInPlay` has a task that only prepares, and the
  configuration of a cash order, go through one handler, for they differ from a live task
  and a paid order at the claim and in one call (without it: 1 029 338 states, checked once). Nothing else is left out: `WindowBehindPhase` and `GrantIsHeld`
  excuse faults, so for them the run explores every interleaving of these without one. Labels "place order" and
  "pay now" are on both lists; `operator_order` has one that is not. The second installation of
  the operator (browser-agent.ts:508, 316) is in `GrantValid` and in the proofs for any number.
- `platform`: two calls that refresh, reuse or revoke and a third pair are enough for a branch,
  a revived family and a pair that escapes (`reuse_escapes`); two changes of role for each
  to take the other's owner away (`last_owner`); one sync and two requests for three observations under way, two
  states of the variant to tell them apart; two transactions for every pair of lock orders.
  Three transactions, symmetric, with shorter chains were checked once and hold too; cycles
  of three need two of the pairs that already deadlock.

## 4. Fairness and liveness

`FairSpec` of `Checkout` assumes weak fairness of `PrepareCheckout(r)`, the steps of a
request after its first (Node runs a request to its end; the provider's call has a
10-second timeout, payments.ts:73), and of `HandleWebhook(p)` (Razorpay delivers until it
gets a 200 and the handler runs to its end). It does not assume that the buyer starts,
pays or returns to the checkout page, that the merchant does anything, or that faults
happen or stop. Under it a claimed order leaves 'creating' unless something failed (the
fairness of `Purchase`, through `ImplementsPurchase`), and a payment captured under the active
secret is recorded (`CapturedIsRecordedCalmly`), again unless something failed. A captured
payment signed with a retired secret is excused: README.md:285 says so of the repository.

With a crash neither holds: the code has no recovery for an order left 'creating'
(only an operator can find it), and `webhook_lost` shows the payment. The other modules
state safety only: nothing obliges a buyer, a merchant or a browser to go on.

## 5. Refinement

`ImplementsPurchase` says that all requests, callbacks and webhooks together behave like
`Purchase`: creating maps to claimed, ready to payable, reconciliation_required to
escalated, paid to settled. It is checked with the fairness of `Purchase`, with both
adapters, a change of configuration and a fault. The code does not promise the clean
one-shot purchase in all of these: with a lost acknowledgement an order goes from ready to
reconciliation_required and from there, or even from paid, on (the unconditional updates
of store.ts:475-514); under the mock adapter it may be paid while it is 'creating'. `Purchase`
says so in one action: once it is `upset` (something failed, or the payment is a mock),
`Disturbed` may move a claimed purchase between payable, settled and escalated, but never
back to open and never to another payment. As long as it is not, the purchase takes its
three steps in order and does not stay claimed.

`SealSpec` says that a shopping task is a `PurchaseSeal`: *offered* is the task's snapshot
while it is pending_approval or approved, *approved* the same while it is approved, and
*executed* the evidence of the attempt. An observation offers, `Approve` approves,
`ClaimExecution` executes; reviews, restarts, reports and refusals withdraw; the rest
stutters. It states safety only: nothing obliges a buyer to approve.

## 6. Where the code and its documents disagree

1. `session_limit`: README.md:27 (and 85) allows a buyer no more than three sessions of a product in 24
   hours. The count (deals.ts:78) and the INSERT (86) are separate statements with no lock between two
   starts of one buyer. A start that counted two waits; another one commits the third deal, a
   policy change invalidates it, so the index of open deals no longer objects, and the first
   start inserts a fourth. `OverrunBounded` is what does hold: the starts that overlap, one for each
   other connection, are all that pass the limit.
2. `policy_voids`: README.md:84 says a policy change invalidates every unfinished deal
   *and negotiated permit* of the older authority. deals.ts:224 denies a permit only
   while it is pending_confirmation or confirmed. One claimed just before stays
   executing or checkout_ready, its deal reads 'invalidated', and when the payment
   arrives the deal becomes 'paid'. `InvalidationVoidsUnclaimed` is what does hold.
3. `webhook_lost`: app.ts:34 commits the event id before the event is processed. If the
   handler fails before markPaid, the redelivery is answered as a duplicate and the
   captured payment is not recorded unless the buyer's browser reports it;
   docs/demo-script.md:174 tells the presenter to wait for the webhook.
4. `seal_shown`: the button says "Approve exact Purchase Seal" (ShoppingTaskPage.tsx:163),
   but the challenge names the task only and `approve` confirms what the permit holds by
   then. An observation accepted while the task is pending_approval replaces the permit's
   evidence under an open page, and the passkey approves what the buyer did not see. What
   does hold is `ExecutesWhatWasSealed`: what is executed is what the permit held then.
5. `operator_order`: README.md:328 says the operator "cannot approve or submit". content.ts:234
   refuses a click on a control whose label is on a list, but that list lacks "confirm
   order", "continue to payment" and "add to credit balance", which content.ts:205-207 looks for
   as the final control. On a shop with such a label a queued click places the order, with
   no claim and no passkey. With a label that both lists know the click is refused.
6. `reuse_escapes`: README.md:347 says that reuse of a refresh token revokes the whole family. The
   revocation is one UPDATE, of the rows it sees when it begins (oauth.ts:78). A refresh
   with the family's newest token that is between its own statements holds the row it
   consumes, so the UPDATE waits, but the pair it then inserts (oauth.ts:96-101) is not among
   the rows revoked and stays valid. `RotationReplaces` is what does hold.
7. `last_owner`: app.ts:70 refuses a change of role with "A merchant must retain at least one
   owner." The transaction locks only the row of its target and counts the owners of the
   moment (store.ts:337). Two owners who demote each other both count two; or the other
   owner accepts an invitation to a lesser role (store.ts:325) after the count. No run states a
   weaker form: what is left is the check itself.

Found by reading, without a run: after a product was reviewed, `saveCandidates` cannot delete the
old candidates, to which the proposal still refers (browser-agent.ts:144, migration
0007:27). "Choose another product" sends the task to that search (service-worker.ts:131), and no
recommended matches can be saved for it again. `ShoppingTask` has it as a guard of `SaveCandidates`.

## 7. What is proved

`tlapm` checks these for every number of buyers and deals, every set of prices, offers
and ceilings, and unbounded clocks and versions, from the four ASSUMEs of `Deals`
(amounts are positive naturals, durations are naturals, NoBuyer is not a buyer, there are
finitely many connections):

| Theorem | Says |
| --- | --- |
| `ThresholdBounds`, `AcceptedIsAboveMinimum` | the pricing rule respects the minimum in every round |
| `TypeCorrect` | `Spec => []TypeOK` |
| `InvariantHolds` | `Spec => [](TypeOK /\ DealInvariant)` |
| `AgreementsAreWithinLimits` | agreed prices and order amounts are within both limits |
| `OpenDealsAreCurrent` | open deals hold the latest, active policy |
| `InvalidationVoids` | an invalidated deal has no permit left to approve or to claim |
| `PermitsFollowOrders` | from the claim on, permit and order say the same |
| `PaidIsCaptured` | a deal is paid exactly when a real payment was verified |
| `ClaimsAreLive` | `ClaimOnlyOnLiveDeal` |
| `RefusalsAreFinal` | `RefusedIsFinal` |
| `OneOpenDeal` | one open deal per buyer, however many starts overlap: the unique index keeps it, and nothing reopens a deal |
| `HistoriesHold` (`BargainingProofs`) | three rising offers at most, the last counter answers the last one |
| `BargainingConvergesHolds` | `BargainingConverges` |
| `OverrunIsBounded` | `OverrunBounded`, for every limit, window and number of connections |

The argument. None of the safety properties is inductive alone. `ClaimOnlyOnLiveDeal` is
the clearest case: the claim never looks at the deal's status, so one must know that
every way a deal stops being open leaves evidence the claim *does* look at.
`StatusMeans` records that evidence: an expired deal's deadline has passed, an
invalidated deal's policy version is not the last, a paid or reconciled deal has an
order. `SealedTerms` makes the permit's copies of deadline, version, revision and prices
equal the deal's, so the claim's comparisons are about the deal. `StruckFairly` ties the
deal to a policy row and a revision that existed and never change. `Dead` collects the
reasons to refuse that cannot go away (time, versions and revisions only grow; a
confirmation needs a pending permit), and a refused permit is dead. `PermitFollowsOrder`
closes the loop: only an order puts a permit into a status the replay check knows.
`DealInvariant` is their conjunction. `Rows` splits it by deal; each action's proof shows
the row it works on (`RowAfterOffer`, `RowAfterPermit`, `RowAfterOrder`, ...) and leaves
the others to `RowUntouched`, `RowInTime`, `RowAfterRevision` or `RowAfterPolicy`.

`BargainingConverges` compares a counter with the one before it, which the row forgets. The
history says what it was: while a deal negotiates, its last counter is `merchantThreshold`
of its own policy and round (`HistoryMeans`), so `ThresholdBounds` orders the two. `OverrunBounded`
counts deals and starts together: what a buyer made in the last window and has under way past
its checks is at most the limit and one for each other connection (`StartsBounded`). The
checks pass only below the limit, and each connection has one start (`RoomWhenRead`); an INSERT
turns a start into a deal; time and rollbacks only take away. Every other deal started in the
past (`StartsInThePast`), so the window that ends with a new deal is the one that is counted, and the windows
of older deals do not change.

For a shopping task, with any sets of products, evidence and installations, from the
assumptions of `ShoppingTask` (durations and bounds are naturals, the "none" values are
not products or evidence, reports are progress statuses):

| Theorem (`ShoppingTaskProofs`) | Says |
| --- | --- |
| `TypeCorrect` | `Spec => []TypeOK` |
| `SealHolds` | `Spec => [](TypeOK /\ SealInvariant)` |
| `SealedIsExecuted` | `ExecutesWhatWasSealed` |
| `AttemptsEndOnce` | `OneAttemptOneEnd` |
| `ImplementsSeal` | `Spec => SealSpec` |

`SealInvariant` is inductive as it stands, with `TypeOK`. Its parts lean on one another:
the claim compares the page with the permit, and it takes `ApprovalIsSealed` to know that
the permit holds what the passkey named, `PermitFitsTask` to know that the approval's hash
and the permit's snapshot are the same although they are kept in two rows, and
`ReviewDisplaces` so that a confirmation, which does not touch the permit, cannot leave one
for another product. `AttemptStep` says which steps touch an attempt; from it and the
guards of the claim `AttemptsEndOnce` follows without an invariant. The refinement also
needs that a task without an attempt has executed nothing (`NothingExecuted`).

`OperatorInOrder` is inductive with the types alone (`CommandsStartInOrder`): a command is
claimed only if none is in progress, and the first that is queued.

For a checkout, with any number of requests, payments, configurations and faults, from
the three assumptions of `Checkout` (the two bounds are naturals, the "none" values are
not requests or payments, the adapters are the two that exist):

| Theorem (`CheckoutProofs`) | Says |
| --- | --- |
| `InvariantHolds` | `Spec => []CheckoutInvariant` |
| `TypeCorrect`, `SingleUseHolds`, `RightConfigurationHolds`, `NoSilentOrphanHolds`, `PaidIsCapturedHolds`, `PaymentKeptHolds` | the properties of the run `checkout`, by their names |
| `PhaseFitsHolds` | what the order's phase says of the steps under way |
| `ImplementsPurchaseSafety` | `Spec => Abstract!Safety`, the refinement of `Purchase` without its fairness |

That the provider is asked once is a property of what the requests *remember*: each one
that is past the claim carries the version it read, and calls the provider without
looking at the row again. So the invariant is about them. `OneClaimant` says that at most
one request is past the claim, that the provider has an order only if that request had it
created, and under the version the row records; `NothingUnclaimed` that before the claim
there is neither request, order nor report; `ReportsAreTrue` that a report on its way to
`markPaid` is of a payment that was captured, because the handler checked it in a
transaction of its own. For the refinement one must also know that an order whose
provider order exists has left 'creating', unless something failed (`PhaseFits`): the
completion is unconditional, and in a calm purchase nobody else can have moved the row.

For the extension, with any number of handlers, labels, commands and faults, from the
assumptions of `ShoppingTask` and `Extension`:

| Theorem (`ExtensionProofs`) | Says |
| --- | --- |
| `ExtensionInvariantHolds` | `ExtensionSpec => []ExtensionInvariant` |
| `ExtensionTypeCorrect`, `GrantIsHeldHolds`, `WindowBehindPhaseHolds`, `ExtensionCommandsInOrder` | the properties of the run `extension`, by their names |
| `ImplementsTask` | `ProgressStatuses \subseteq Reports` gives `ExtensionSpec => Spec` of `ShoppingTask` |
| `ExtensionExecutesWhatWasSealed` | from it, `ExecutesWhatWasSealed` and `OneAttemptOneEnd` of the extension |
| `OrdersFit`, `OrderedOnceClaimedHolds`, `FailedMeansNoOrderHolds` | under `OperatorStopped`: `OrderInvariant` and the two properties |

`ImplementsTask` carries the theorems of `ShoppingTaskProofs` over to a task the extension
drives. Its hypothesis is about a bound, not about the code: `Reports` is the set of statuses a
run lets the installation report, and the extension reports any of them.
`OperatorStopped == Labels \subseteq BlockedLabels` is about the shop: its final control has a label
that content.ts:234 refuses to click. It is needed, as the run `operator_order` shows (section 6.5), and
`extension` satisfies it. `GrantInvariant` is the heart: the handlers overlap because
`running` is released early (service-worker.ts:162), and what keeps a second one from
submitting is that the claim succeeds once and that finalize begins only with a stored grant.
So while a handler is between its claim and storing the grant, nobody else is past a
claim, none finalises and no grant is stored. `OrderInvariant` counts: an order needs either the
first click of that handler or a fault.

For the parts of the server the rest stands on, for any number of connections, calls,
users, synchronisations, requests and tabs. The assumptions are `MaxPairs \in Nat`
(`Tokens`), `Users` finite and not empty (`Members`), positive prices and a positive bound on the
shop's changes (`Catalog`); `RowLocks` needs none.

| Theorem | Says |
| --- | --- |
| `LocksInvariant` (`RowLocksProofs`) | `RowLocksSpec => []LocksInv` |
| `AuditChainsUnbroken`, `PolicyReadsHold`, `DeadlockNeedsPolicyChange` | `ChainUnbroken`, `PolicyReadHolds`, `DeadlocksNeedPolicyChange` |
| `RotationHolds` (`PlatformProofs`) | `TokensSpec => RotationReplaces` |
| `OrdersHonourMandates` | `CatalogSpec => []OrderHonoursMandate` |
| `PlatformTypeCorrect` | `PlatformTypeOK` of the four together, for `Spec` of `MCPlatform` |

`LocksInv` reads the locks off the place of a transaction: it holds what the statements it
passed take (`HeldPassed`, `PassedHeld`), except those that match no row (`Skippable`), and no two
hold locks that conflict (`Exclusive`). From this follows that the holder of a chain's head has
read its last event (`HeadsRead`), hence `ChainUnbroken`; and that what a transaction found in a row it
still holds is so at its COMMIT (`TxnsFit`), hence `PolicyReadHolds`. The deadlocks
follow from one state: transactions that are not policy changes refer to catalogue and
policy with locks that do not conflict, lock the deal's chain after everything that can make
one wait, the intent's chain only with the permit in hand, and the permit first
(`LockOrder`, `OnePermit`). So in a set of them that all wait for each other each must wait for a
permit, whose holder waits for nothing of the kind (`NoDeadlockOfOthers`).

`TokensHeld`: a family has at most one pair that is neither consumed nor revoked, and a
refresh between its two statements has locked that pair. Of `Members` only the types are
proved: its one promise is broken (section 6.7). `CatalogInv` relates what
requests and synchronisations carry to Shopify's history: `NotOvertaken` says that a request
nothing raced has seen nothing newer than what is stored or about to be, which is why
its order is not older than its own observation.

## 8. What is only model-checked

Every safety invariant and action property of a passing run is stated by a theorem of
section 7. With TLC stay:

- `CapturedIsRecordedCalmly` and the fairness of `Purchase` in `ImplementsPurchase`: the prover has
  neither ENABLED nor leads-to under fairness. Its safety half is `ImplementsPurchaseSafety`.
- The seven violations of section 6, which are counterexamples.
- That the actions can happen at all, so that no theorem holds vacuously: each action and each
  disjunct of every next-state relation is taken in a passing run, and a mutated
  definition breaks each property.

Nothing recursive is defined.

## 9. What is not modelled

- Of the shopping tasks, `recordSiteGrant`, `saveRedactedPage` and `fxQuote`: they insert rows that no
  decision of the modelled transactions reads. Their audit chain is appended under the
  task's lock, like everything else about a task.
- Of the extension, how content.ts and adapters.ts read a page (products, prices, labels,
  final review): DOM heuristics with no state of their own; the model takes any answer.
  The rendering of the side panel.
- Registration and login with a passkey, session cookies, API keys and rate limits: each
  reads or writes single rows; the challenge they consume is consumed as in `Catalog`.
- The refund terms of a product and a permit, the paging of Shopify's catalogue, the
  connection row.
- Hashing of audit events, the credential vault, configuration: pure functions.
- REST and MCP routes (validation and dispatch; the webhook route is modelled), the pages
  of the web application other than the approval of a shopping task, migrations, demo
  data, and the legacy SQLite store, which nothing imports.

## 10. Plan

Done: every module of section 2, their runs, and the proofs of section 7.

Next:

1. The types of `Purchase` and `PurchaseSeal` and what their safety alone says (claimed
   once, executed as approved), so that the refinements carry it down.
2. A bridge between `RowLocks` and `Deals`: the transactions that `Deals` takes as one step
   write, at their COMMIT in `RowLocks`, what the action of `Deals` writes.
