# Groupio: TLA+ models, checks and proofs

Groupio is a marketplace in which the residents of a building join a *group
offer*, each pays, and a contractor is paid out of escrow when the work is done.
The server is a FastAPI application (`src/src`) of asyncio request handlers over
PostgreSQL; three front ends use it, a web application for residents, contractors
and building managers (`src/apps/web`), an admin application (`src/apps/admin`)
and a mobile one (`src/apps/mobile`), with a shared client package
(`src/packages/api-client`).

On both sides the hard part is the same. A handler of the server is a sequence of
awaits: it reads, checks, calls a provider, writes, and any other handler (of the
same process or of another one) runs in between. A page of a front end is one too:
it loads, lets the user press something, sends, and receives, in whatever order
the answers come, into state that has changed meanwhile.

This directory models the parts whose correctness depends on such interleavings:
on webhooks that arrive late, twice or out of order, on processes that die
half-way, on answers that are lost or overtake one another. Paths are those of the
checkout `src/`, so the backend is `src/src`.

- [Inventory](#inventory) · [Plan](#plan) · [Modules](#modules) ·
  [Runs](#runs) · [Bounds](#bounds) · [Fairness](#fairness) · [Proofs](#proofs) ·
  [Divergences found](#divergences-found) · [Not modelled](#not-modelled)

## Inventory

### Backend

| Component | State | Operations | Interacts with | What is hard | What makes it correct |
|---|---|---|---|---|---|
| Payments and escrow (`api/routes/payments.py`, `services/payment.py`) | rows of `payments`, `invoices`, `stripe_webhook_events`; the PaymentIntents at Stripe | initiate, Stripe webhook, approve-work, refund, release, payout | the store, Stripe, offers, the checkout page | several awaits between check and write; webhooks in any order; death between a charge and its record | no charge without records; recorded as succeeded only if captured; paid and released only if funded; money credited in the end |
| Offers and participation (`api/routes/offers.py`) | `offers.status`, the limits and `current_participants`; `offer_participants` | join, leave, publish, match, start-matching, update, cancel, expire | the store, payments (release completes the offer) | a counter beside the rows it counts; a check several awaits old | counter = sum of units; nobody joins a closed or full offer |
| Scheduler lease (`workers/scheduler.py`, `databases/pg_store.py`) | `scheduler_locks(locked_until, last_run_at)` | acquire, run, release | the store | several processes, crash of the holder | no overlap; the tasks go on |
| Routing (`api/main.py`, `api/routes/__init__.py`) | none | register, dispatch, redirect | every client | the first route that fits wins, and a parameter fits anything | every call reaches the handler written for it |
| Authentication (`api/routes/auth.py`, `api/middleware/auth.py`) | refresh tokens, denied access tokens, lockout counters | login, refresh with rotation, logout | the auxiliary store, the web session | rotation under retry and from several callers | a rotated token is dead, and nobody presents one |
| Stores (`databases/postgres.py`, `databases/pg_store.py`) | the tables; tokens, counters, locks | statements and a transaction helper | everything | two backends (asyncpg, Supabase) of different atomicity | which statements are atomic: the models say so at each step |
| Conversations (`api/routes/conversations.py`) | the log of exchanges | log, read a page before a cursor | the chats | pages by cursor while the log grows | every exchange once, in order, the latest first |
| Circuit breakers (`integrations/gov/circuit.py` and `client.py`, `agents/base.py`) | the state, the count of failures and the stamp of each, in one process | ask, record a success, record a failure, retry | threads that call the government's data, agents that call the LLM | results of calls admitted earlier; refusals that are retried; a state that changes when somebody looks | refused for the cooldown after enough failures in a row, at no other time, and never for good |
| Outbox and workers, orchestrator, agents, escalations, admin CRUD, membership, vetting, notifications, other stores | see `PROJECT.json` | | | | [not modelled](#not-modelled) |

### Front ends

| Component | State | Operations | Interacts with | What is hard | What makes it correct |
|---|---|---|---|---|---|
| Web session (`lib/stores/authStore.ts`, `middleware.ts`, the layouts, `app/providers.tsx`) | the token in memory, `localStorage`, two cookies | login, refresh, logout, reload, navigate | the backend's tokens, the client | layouts, providers and refused calls refresh at once; a logout overlaps them | no rotated token is presented; a logged-out tab stays so; a rejected one reaches the login page |
| API clients (web, package, admin's fetch, mobile) | calls in flight, merged reads, one shared refresh | request, retry, refresh, settle | all pages | lost answers, timeouts, retries, shared promises | a call runs once unless its answer was not heard; every call settles |
| List and detail pages of the three apps | rows, filters, busy flags, modals, cached queries | load, poll, act on rows, reload | the client | late loads against one's own writes; shared flags; other users | what is shown was true, and includes what the user did |
| Forms of the three apps | fields, edits, the saving flag | fill in, type, step, save, leave | the client | a late or repeated load over what was typed; double submits | no edit is lost, nothing blank is saved, one thing is made |
| Chats (`AIChat`, `useChat`, mobile hook) | bubbles, requests, pages of history | send, stream, abort, reset, load older | the log of exchanges | overlapping sends, resets and remounts | every placeholder is answered, cleared stays cleared |
| Offers' socket (`useRealtimeOffers.ts`) | the socket, the reconnect timer | connect, close, reconnect, change building | the backend's websocket | the close of a socket that was replaced | one socket, for the building shown |
| Notification panel; notifications screen and toasts | rows, badge, offset, timers | poll, read, delete, undo; page, refresh, push, dismiss | the notifications | roll-back of optimistic changes; offsets that shift | the list is the backend's; no row twice |
| Checkout (`checkout/page.tsx`) | the phase, the intent | initiate, confirm, retry, reload | payments | a retry is a new payment | the offer is charged once |
| Plan analysis (architecture pages) | uploads, polls | upload, poll, stop | the file's status | a status nobody polls on | polling ends, with the result |
| Components, content pages, translations, analytics | none that matters | | | presentation | [not modelled](#not-modelled) |

The state is shared only through the database, and between the tabs of a browser
through its cookies and `localStorage`. Payments reads offers and completes them
on release; offers never reads payments; the scheduler's tasks edit offers through
the same `update_offer` as the handlers. The parts of a front end share the
client's functions and the backend, and nothing else.

The hazards of this code that tests hardly reach are listed, each at its line and
with the property that watches it, in `PROJECT.json`.

## Plan

Done: the scheduler's lease, payments and offers with their proofs; the abstract
ledger that the payments implement, and the abstract remote call that the four
clients implement, with the proofs that they do; the session; the pages and forms
of all three apps and the stateful parts of the front ends, each with the proofs of
what its run checks; the routing of all their requests; the two circuit breakers,
with the abstract breaker that both implement and the proof that they do.

Left, most important first:

1. `Payments` composed with `Offers` in place of `OfferMoves`.
2. The two tabs of one browser at once: `Session` is written for a set of tabs,
   and is checked, and proved, with one.
3. The outbox (enqueue, dispatch, publish, mark), once its dispatcher can run.

## Modules

| Module | Role |
|---|---|
| `SchedulerLock`, `SchedulerLockProofs` | the scheduler's lease on either store |
| `Payments`, `MCPayments`, `PaymentsProofs` | payments of one offer, the provider and Stripe's webhooks |
| `Escrow` | what the payments of an offer promise: the abstract specification |
| `Offers`, `MCOffers`, `OffersProofs` | participation in one offer and the edits of the offer |
| `RemoteCall` | what a caller may expect of a call: the abstract specification |
| `ApiClient`, `ApiClientProofs` | the four request functions, which implement it |
| `PageRecords`, `Pages`; `AdminPages`, `WebPages`, `MobilePages` | the behaviour of a page, and every page as a record that `Pages` runs |
| `FormTables`, `Forms` | every form as a record, and the behaviour of a form |
| `MCPages`, `ScreensProofs` | a page, or a form, on the screen |
| `Session`, `SessionProofs` | the sign-in state of a browser's tabs |
| `Chat`, `Socket`, `Panel`, `Feed`, `Checkout`, `Analysis` | the other stateful parts |
| `Routing`, `Calls` | the backend's routes, and the clients' requests on their way to them |
| `FailFast` | what a circuit breaker promises its callers: the abstract specification |
| `Breaker` | the two circuit breakers, which implement it |
| `MCShared`, `SharedProofs` | one of `SchedulerLock`, `ApiClient`, `Breaker` at a time; the proofs about `Breaker` and about the three together |
| `MCClients`, `ClientsProofs` | one of `Session` … `Calls` at a time |

Operators commented "Mutant of …" are plausible mistakes in the definition they
stand next to, kept to show that each property notices one; no specification uses
them. `MCPages`, `MCClients` and `MCShared` compose modules that share at most the
backend: one component moves and the others stand still, so each is explored from
each of its initial states without the product of all of them.

### SchedulerLock

One task, one row. A process goes `idle -> due -> (read ->) running -> releasing
-> idle`. `CheckLastRun` is the read of `last_run_at` and the elapsed test;
`AcquireWin` and `AcquireLose` the conditional UPDATE of
asyncpg; `AcquireRead` and `AcquireWrite` the SELECT and the unconditional UPDATE
of Supabase; `TaskEnds` any end of the task; `Release` clears the row, whoever
holds it. `Crash` and `Restart` are the processes', `Tick` the database's clock
(processes read the same clock). The store and `fitsLease`, whether a live holder
ends before its lease does, are chosen in the initial state: exclusion is claimed
of asyncpg with tasks that fit, the bound of a lease and progress of all.

### Payments

A request of `initiate_payment` is named `r`, and so are the payment, the invoice
and the PaymentIntent it may make. Each await is a step:

| Steps | Code |
|---|---|
| `InitiateCheck`, `InitiateRecheck`, `InsertInvoice`, `InsertPayment` | lookup, the lookup repeated inside `transaction()`, two inserts. The transaction is a no-op on the Supabase client, so the inserts are two steps |
| `Charge`, `ChargeFails`, `RecordCharge`, `CountParticipants`, `CountSucceeded`, `MarkPaid` | the provider call, its result, and the settlement of direct and mock payments: the participants are read, then the succeeded payments counted. Any number of `Users` may take part when they are read, none of them too, which the code takes for everybody having paid |
| `Confirm`, `Capture`, `Decline`, `CancelIntent` | the customer and Stripe (external): each emits an event |
| `Claim`, `Duplicate`, `ClaimFails`, `HookIgnore`, `HookPayment`, `HookInvoice` | `stripe_webhook`: claim the event id, find the payment, two UPDATEs |
| `ApproveWork`, `RefundRead`, `RefundCall`/`RefundRefused`/`RefundCancel`, `RefundPayment`, `RefundInvoice` | `resident_approve_work`, `request_refund` |
| `AdminRead`, `AdminCheckOffer`, `AdminRelease`, `AdminCompleteOffer` | `release_escrow` and `approve_contractor_payout` |
| `…Dies` | the process dies, or a database call raises, between two steps |

Events are delivered until answered 2xx, in any order. The client gets the
`client_secret` only in the handler's response, which follows the recording of
`transaction_id`; `Confirm` therefore needs `pc = "done"`. `get_invoice_for_offer`
has a LIMIT without an order, hence the nondeterministic `InvoiceLookup`, and
shows an invoice only to a user who has a payment on it (`payment_splits` is
written nowhere). A refund stores Stripe's own refund status, so "succeeded",
"pending" or "failed", as the payment's. The object of a charge event carries the
charge's id, which no payment records: `charge.refunded` and the dispute events
are always "ignored". `OfferMoves` is every other handler that writes the offer's
status; it is enabled only while a release handler is about to read the status,
which loses nothing because nobody else reads it.

`Escrow` says what all these steps amount to, with no handlers in it: a charge is
booked on a bill before money is asked for, money taken stays taken and stays on
its bill, a bill is settled only with money behind it, and only money taken is
given back. `Ledger` instantiates it: the bills are the invoices, a charge is
booked where its payment row points, `Money` is what became of its intent (an intent
that waits for the customer, or for Stripe, is "asked"), and `back` is what was refunded.
`Settle` and `Reverse` are allowed from any status of the bill, because a webhook
that comes late sets a released or refunded invoice paid again, and a refund
that comes late undoes a release; `Exact` is Stripe's own
refusal to refund more than the charge, which the mock provider does not make.
`KeepsLedger` is `Escrow`'s specification under this mapping: no read that is
several awaits old ever makes a write, or a call of the provider, that it forbids.

### Offers

The counter and the rows are separate variables. `JoinRead`, `JoinCheck`, `Join`
are the three awaits of `join_offer`, the last one a transaction (asyncpg) or the
SQL function `join_offer_atomic` (Supabase), which has no capacity test. `Leave`
is the transaction of asyncpg, and `LeaveSelect`, `LeaveDelete`,
`LeaveReadCount`, `LeaveWriteCount` are the four requests of Supabase. `From` and
`To` tabulate the endpoints and tasks that write the status: what they check when
they read the offer and what they write, some awaits later and unconditionally
(`EditRead`, `EditWrite`). Requests that fail a check change nothing and are not
followed. `backend` is chosen in `Init` among `Backends`. A PUT writes whatever it
sets, an explicit null too (`OfferUpdate` takes None, and the handler drops only what
was not set): a status that no test finds again (`Null`), or a limit that no count
meets (`NullLimit`).

Within the asyncpg `Leave`, the row lock is only taken when there is a row; two
leaves of one user can then both subtract. The model has that outcome too (the
second subtracts 1), and `CountIsSum` holds only when no user has two requests
in flight. The instances and the theorem assume it (`OneRequestEach`).

### FailFast and Breaker

The backend has two circuit breakers, written twice: `gov`, which the threads that
use the government data client share, and `llm`, which all the agents of a process
share. `kind` says which one runs; the rest of the state is the code's.

| Step | Code |
|---|---|
| `Seen` | `_current_state`, `is_open`: an open breaker whose cooldown is over becomes half-open, when somebody looks |
| `Admit`, `Refuse` | `allow_request` with the branch of `_post`; the test at the head of `_call_llm` and `_call_llm_structured` |
| `Report` | `_post` writes the state into its message, and so looks a second time, later |
| `Succeed`, `Fail` | `record_success`, `record_failure`; `GovFailure` stamps the failures that open, `LlmFailure` all of them |
| `Leave` | a call that records nothing: an answer from the LLM's cache, an error that is not retried |
| `Again` | tenacity: a failed attempt of an LLM call is repeated, and so is a refused one, because the refusal is a ConnectionError. The government client's retries are inside `_post`, and its breaker sees one result for all of them |

A failure is only ever compared with the threshold, so `failures` stops there; `age`
is the time since the stamp and stops at the cooldown. A caller is told how its
last attempt went, and while it calls, whether it was admitted by a closed breaker or
as a probe.

`FailFast` has no half-open state: a count, a time to wait, and what callers are
told. `Promise` instantiates it with the time to wait being what the stamp's age
leaves of the cooldown. That both breakers implement it says what the two
codes have in common behind their differences, and that half-open, in which they
admit everybody, is no state of its own.

### RemoteCall and ApiClient

`RemoteCall` is what the code of a page relies on: a call is answered once, for
good; "failed" says nothing about whether the backend ran it; "ok" says that it
ran, for this caller or, with merged reads, for the caller it shares with.

`ApiClient` is the request functions: of the web client
(`apps/web/lib/api/client.ts`), of the package, of the admin's `fetch` wrapper and
of the mobile client (`apps/mobile/lib/api.ts`). `client` is chosen in the initial
state; the operators that differ between the four (what is retried, whether a 401
refreshes, whether GETs are merged) are tables over it. The web client does not merge
a GET with an abort signal (`client.ts:122`), but nobody passes it one. A call is made, or
merged with a read in flight (`Call`), executed (`Serve`), lost on either leg (`Lose`),
refused (`Unauthorized`), repeated (`Backoff`, `Resend`) and settled (`Answer`).
`RefreshEnds` settles whoever waits for the one shared refresh. The refinement
hides all that: `View` maps every state between sending and settling to "pending",
`SameGets` relates the reads that may share an answer, and `KeepsPromise` is
`RemoteCall`'s specification under that mapping.

### Pages

A page that shows rows is always the same machine: loads under way (`gets`), a
cached answer per key, mutations under way (`jobs`), busy flags, a modal with a
copy of a row. `Pages` is that machine, `PageRecords` the words in which a page is
described, and `AdminPages`, `WebPages` and `MobilePages` describe each page of
the three apps by a record: how its list is loaded, kept, polled, reloaded, and for
every control which rows it is offered for, which status it sets, which flag it raises and which
flags disable it, and what it does with a good and a bad answer. A load reads the
backend in one step (`Read`) and lands in another (`Land`), so that two loads can
overtake each other; a mutation is served (`Serve`) and finished (`Finish`); other
users change any row at any time. A modal closes with the answer, only with a good
one, after the awaited reload, or not at all (`closes`); an empty answer may leave
the rows alone (`skips`); and where every filter is the same GET (`oneGet`), a load
for one filter gets the answer that another one's is waiting for. The button of a page that
reloads (`reload`) is enabled again by the first load to end, so `Reload` is allowed
at any time: more than the page can do, never less. The ghosts `was` (statuses a row has had) and
`mine` (acknowledged changes of one's own) exist for the properties.

The difference that matters is `load`: react-query drops the answers of superseded
requests and caches per key; an effect with `useState` shows whatever lands last.

### Forms

`FormTables` describes the forms in the same way (when they are filled in, by what
again and what that spares; whether the button waits, checks, or is gated step by
step; what a save sends and what follows it), and `Forms` runs them. A field's
value is a number, larger each time somebody, the user or another, types a new
one; 0 is a default or a blank. `wrote` remembers what the user typed and has not
saved. Which values a field accepts is left out.

### Session

The tabs of one browser: for each its token in memory, its page, whether its
layout waits, its refresh; shared the two cookies and `localStorage`; at the backend the one
refresh token accepted per user and the live access tokens. `Route` is the
middleware's decision, `LayoutEffect` the layouts and `Providers`, `JoinRefresh`,
`ServeRefresh`, `LoseRefresh`, `RefreshDone` the shared refresh. `Deployments`
says whether the backend's cookies are visible to the web server's middleware: the
two ways of deploying the system behave differently.

### Chat, Socket, Panel, Feed, Checkout, Analysis

| Module | State and actions |
|---|---|
| `Chat` | bubbles, requests, the history query and its cursor; send, answer, fail, stream, abort, reset, load older (which may fail), remount, with the history still cached or dropped after its `gcTime`; the backend's log, to which an exchange is added by a background task after its answer |
| `Socket` | the browser's sockets, the hook's `wsRef`, timers and the one `timerRef` can clear; connect, open, close, reconnect, change of building, unmount. The close handler does not ask whether its socket is still the hook's |
| `Panel` | the list, the badge, the operations under way with the copies they roll back to |
| `Feed` | the rows and the offset of the notifications screen, its refreshes, next pages, deletions and marks of one row or of all, each of which may fail; the toasts and their timers |
| `Checkout` | the phase, the intent on the screen, the two calls, and what became of every payment at the provider. The mock provider always charges; Stripe may refuse to open an intent, and then the backend answers "failed" |
| `Analysis` | the status of each plan at the backend, the upload and poll handlers of both apps, what is shown of which plan, and the error |

### Routing and Calls

`Routing` lists the backend's HTTP routes, router after router in the order of
`include_router`, and dispatches as Starlette does: the first route that fits path
and method serves; if a path fits with another method only, 405; if it fits with
its trailing slash toggled, 307; else 404. A path is the sequence of its segments,
an empty last segment is a trailing slash, and `Param` is a path parameter in a
route and an id in a request. `Calls` lists what each client function asks for, and
lets every such request, and a probe of every route, travel. The base URL with its
`/api/v1`, queries and bodies are left out.

## Runs

Seven runs pass, five find the violations under
[Divergences found](#divergences-found).

| Run | What is checked | What it shows |
|---|---|---|
| `shared` | `MutualExclusion`, `LeaseBounded`, `TaskKeepsRunning`; `RepeatsOnlyUnheard`, `InflightIsLive`, `KeepsPromise`; `CountAgrees`, `ActsAsBreaker`; `CallersGoOn` | the lease on both stores, with crashes: no overlap on asyncpg if tasks fit their lease; no lease reaches further than an interval; the task keeps being started. Each client implements `RemoteCall`; a mutation runs again only if an answer was not heard; nobody waits for a call that is over. Either breaker opens on the count and implements `FailFast`. Every call settles, and a breaker that is open lets callers in again |
| `pay_webhooks` | `ChargeHasRecord`, `ConfirmedIsFindable` | a payment and its concurrent retry, webhooks in any order, one fault: no charge without records, no money event that the webhook cannot attribute |
| `pay_release` | `PaidIsFunded`, `RecordsAreBacked`, `CapturedIsCredited`, `KeepsLedger` | a payment, its partial refund, a release, one fault: records never run ahead of the money, and every step is one of the ledger's; without faults the money reaches the invoice |
| `pay_mock` | `PaidInFull` | the counting of the mock provider never pays an invoice with fewer captured payments than the participants that one of its payers has found |
| `offers` | `CountIsSum`, `JoinsOpenOffer` | the counter is exact on asyncpg; joins only into open offers, and on asyncpg only into offers with room |
| `pages` | `OneAtATime`, `RowsAreTrue`, `OwnWriteShows`, `PolledConverges`, `FormsKeepRecords`, `MadeOnce`, `ButtonsComeBack` | every list page and every form of the three apps |
| `clients` | `NoReplay`, `LogoutHolds`, `RejectedReachesLoginCrossSite`, `ChatInOrder`, `SocketInOrder`, `PanelShowsBackend`, `FeedInOrder`, `ChargedOnce`, `CallsArrive`, `WaitsEnd` | the other stateful parts of the front ends, and all their requests |
| `pay_lost` | `AckedIsProcessed` | **violated**: an event whose handler died is answered "duplicate" |
| `checkout_success` | `SuccessIsCharged` | **violated**: the success page for an intent that Stripe could not open |
| `chat_history` | `HistoryIsRecent` | **violated**: the first page of the history is the oldest one |
| `analysis_result` | `ResultIsFinal` | **violated**: the mobile app shows "analyzing" as a result |
| `pay_cancel` | `CancelledIsUncaptured` | **violated**: a captured payment is cancelled instead of refunded |

Every passing run but `pay_release` and `pay_mock`, whose module `pay_webhooks`
covers, also checks a type invariant.

What some of the properties do not say:

- `PaidIsFunded` says that *at least one* payment of a paid invoice was captured:
  that is what the code achieves with Stripe. `PaidInFull` is the stronger promise,
  for the mock provider, which does count. It counts payments, not payers: in
  `pay_mock` one resident pays twice and the invoice becomes paid without the other.
  It says nothing while the participants read are none: then any payment is enough.
- Several properties of the front ends are claimed of the pages that are built for
  them, and say so in their hypothesis. `OneAtATime` is about flags that every
  control raising them reads; `OwnWriteShows` about pages on react-query whose
  client does not merge GETs; `RowsAreTrue` not about the page that patches rows
  whatever the answer; `EditsSurvive` about forms that spare edits or load once;
  `MadeOnce` about forms that are gone after a success, because one that leaves by a
  route change is enabled again until it happens.
- `HistoryInOrder`, the part of `ChatInOrder` about pages, says little of more than one
  page: the cursor of a full first page is its own oldest row, so there is nothing
  before it (what `chat_history` finds), and the older page is empty.
- `ReadRowsAreRead`, a part of `FeedInOrder`, excepts notifications that arrive while a
  mark of all is on its way back (`joined`): the screen turns every row read that it has
  by then, those the backend did not mark too.
- `RejectedReachesLoginCrossSite` excepts behaviours that have used up the bound on
  sessions issued, after which the model can issue no further one.
- `PanelShowsBackend`, `RowsAreNewest` and `OneSocketUndisturbed` hold as long as
  operations have not overlapped (`clean`, `shifted`, `moves`): without these
  hypotheses they fail: a deletion rolled back over a newer list, a row skipped
  because another was deleted, and a second socket after a change of building.
- `CallsArrive` excepts two sets by name, `Homeless` and `Captured`: requests no
  route serves, and requests another route takes. They are under
  [Divergences found](#divergences-found); any further one violates the property.

## Bounds

- Processes, requests, users, handlers: two of the kinds that race with their own
  kind, one of the others. The hazards in the list need two actors.
- `shared`, the lease: `MaxTime = 6` with `Interval = 2` leaves two whole rounds of "lease of a
  dead holder, then last_run_at"; one crash. `ClockAtBound` stutters at the end of
  the clock, so that deadlock is checked before it.
- Payments: `MaxEvents` bounds the events of PaymentIntents (one payment makes at
  most four). `MaxFaults = 1` is one crashed handler or failed call of any kind:
  enough for every crash point, since each may be the one. `Amount = 2` lets a
  refund be partial and be repeated. `pay_mock`: two payments of one resident, any number
  of participants up to two, one refund, one release.
- `offers`: `MaxUnits = 2`, `MaxParticipants = 2`: an offer that is full, one that a
  join of two units overshoots, and users whose units differ from 1.
- `shared`, the clients: two reads of one endpoint, so that they merge, and a
  mutation; `MaxRetries = 1`: the retry and its exhaustion.
- `shared`, the breakers: two callers, a threshold of three and a cooldown of three
  units, so that the result of a call admitted before the opening comes in at every
  point of the wait; the three attempts of the code.
- `pages`: one row, since pages treat rows alike and controls act on one at a time
  or on a selection; three events and two loads at once are what an overtaking
  load, a mutation and another user need. Forms: three values, two saves, two
  upsets.
- `clients`: one tab (two exceed the time of a run), three sessions issued, one lost
  answer, both deployments; two messages of two tokens and a reset; pages of two
  exchanges over a log of three; two buildings, four sockets, two moves; two
  notifications and four changes; pages of one row over at most three, with twice
  `MaxPulls` refreshes, deletions and marks together; three
  payments and one mishap; two plans, three polls, one error. All the requests.
- Deadlock is checked in `shared` and `offers`. In the others every handler may be
  done and every user away.
- `RequestSymmetry` permutes requests that are of one user with one key, and is
  used only in `pay_webhooks` and `pay_mock`, which check invariants only.

## Fairness

All of it is weak, and none is assumed of users, faults or other people's changes.

- Scheduler: each process's steps (the event loop resumes ready coroutines, the
  supervisor restarts dead processes) and the clock. None for `Crash`. `MCShared` asks
  it where the lease runs (`LeaseFairness`).
- Payments: handlers that have started, and delivery (Stripe retries until it gets
  a 2xx). None for customers, captures, admins' or residents' requests.
- Breakers: the clock. None for calls: nobody need ask, and a call need not end.
- Clients: a request is served *or* lost; timers fire, promises run their callbacks
  and effects run, all of which the browser's event loop guarantees. A request that
  is lost ends by its timeout or by the browser's error. On the pages each load ends by
  itself, however many begin after it. Of the chats, the sends and the backend's
  background task are fair; the history's loads need not be.

## Proofs

Checked by `tlapm` for every value of the constants that the `ASSUME`s allow.

| Theorem | Argument |
|---|---|
| `SchedulerLockProofs!TypeCorrect`, `PaymentsProofs!TypeCorrect`, `OffersProofs!TypeCorrect`, `ApiClientProofs!Typed`, `SessionProofs!TypeCorrect`, `CheckoutTypes`, `SocketTypes`, `PagesTypes`, `FormsTypes` | one step per action; those of the front ends as parts of the invariants below |
| `LeaseIsBounded` | `BoundInv`: no process counts its lease from the future |
| `AsyncpgExclusion` (for asyncpg and `fitsLease`) | `LeaseInv`: the row holds exactly the lease of whoever runs, and it is not over; so the guard tested by the UPDATE is false while somebody holds the lock. Exclusion alone is not inductive: it says nothing of the row |
| `ChargeIsRecorded`, `ConfirmedAreFindable`, `SucceededMeansCaptured`, `PaidMeansFunded`, `RefundsAreCovered`, `RecordsBacked` | one inductive invariant, `SettlementInv`, in parts for rows, charges, events, refunds and releases. A late writer (webhook, refund, release) overwrites anything, so what must be invariant is what each handler *holds*: it acts on an event that was sent, a payment it saw captured, an invoice it saw funded. `CapturedStays`, `InvoicesStay` and `FundedStays` say these facts do not expire |
| `PaidOnlyInFull` (mock provider, escrow) | `CountInv`: a handler that is about to mark an invoice paid, or that holds one to release, holds one that is paid up, and no event reports a success. `FullStay` says that the count does not go stale: captured payments stay captured and stay on their invoice, whatever a refund writes over their status; `CountedOnce` that the participants a handler has read are not read again. Uses `FiniteAssumption` (users and requests are finitely many) |
| `ImplementsEscrow` | `SettlementInv` and `FreshRows` (a handler inserts only rows that are not there yet). Each action of `Payments` maps to one step of `Escrow` or to none: a settlement by any of the three writers is a `Settle` because what the handler holds says that money was taken, and that does not expire; one that writes what is already there is a stutter |
| `CounterIsExact` (assumes `OneRequestEach`) | `SeatsInv`: a leaver past its check finds its row. `ColumnSize`, `AddSeats` and `FreeSeats` say how the number of seats changes with one user's units |
| `OnlyOpenOffersAreJoined` | an action property: only `Join` makes a row, and it repeats the test |
| `Repetition`, `Merging`, `Implements` | one inductive invariant, `IInv`: an "ok" answer is about a call that was executed (`AnswerIsReal`), executions of a mutation are accounted for by answers not heard (`Accounted`), an entry of the in-flight table is an unsettled GET (`OwnerIsGet`) and whoever is merged is merged with it (`MergedIsGet`). With it every step of `ApiClient` maps to a `Call`, an `Execute`, a `Settle` or a stutter of `RemoteCall` |
| `LogoutStays` (assumes `OneTab`) | `LogoutInv`: after a confirmed logout there is no token, no cookie, and no refresh that carries or brings one. Having no token is not inductive: a refresh in flight could bring one |
| `RotationIsOrderly` (assumes `OneTab`) | `RotationInv`: the cookie's token is exchanged only while the answer that replaces it is on its way, and what is sent, or an answer will store, is not exchanged. Tokens are told apart by their numbers (`Known`) |
| `CheckoutChargesOnce` | `CheckoutInv`. `ChargesAccounted`: every charge but one was lost with an answer or with the page. It needs `KnowsCharge`, the one: the page says so, or the answer that says so is on its way. `OnPayments`: what the page calls is a payment that was made |
| `SocketKeepsOrder` | `SocketInv`: sockets are numbered as they are opened (`Numbered`), timers and the hook's socket are for the building last chosen (`ForLatest`), and while only the network closes sockets there is one way to the next one, a socket or a timer (`OneWay`) |
| `PanelIsTrue` | `PanelInv`: an operation's copies are those a failure has to put back (`Undoable`), a load that is alone carries what the backend has (`AloneIsFresh`), and with nothing overlapped list and badge are the backend's, but for the one operation under way (`CleanIsTrue`) |
| `PanelTypes` | `PanelSizes`: the badge plus the operations under way are at most the rows plus the changes so far. That the badge is bounded is not inductive: each operation holds a badge it may put back |
| `ChatKeepsOrder` | `ChatInv`: a client with placeholders has one request at most, and a placeholder that spins is that request's (`OneRequest`); what can still be answered was asked in this conversation (`OfThisConversation`); the history shown is one page, before which there is no other (`HistoryIsOnePage`) |
| `ChatTypes` | `LoggedOnce`: what is logged, waits to be logged, or is still to be answered is at most what was there and what was asked |
| `FeedKeepsTypes` | `FeedSizeInv`. The backend's list has falling numbers, so it is no longer than the numbers given, and no offset, and no load under way, reaches past that (`FeedFits`, `FeedTypes`). The screen's list may show a row twice, and a deletion filters it: that `Without` returns a list of the same rows is an induction over the list (`WithoutType`) |
| `FeedKeepsOrder` | `FeedInv`: the backend's list has falling numbers (`NewestFirst`), so a deletion takes out one of them; while nothing overlaps one load at most is under way, of the first page or of the one where the rows on the screen end (`LoadsFollow`); every toast shown ticks (`ToastsTick`). `ReadInv`, apart, for the marks: what a load brings as read, and what a served mark marked, is read at the backend (`RowsNumbered`, `MarksMade`) |
| `AnalysisTypes`, `WebResultIsFinal` | `AnalysisInv`: a plan that is polled has been stored, and polls stop in time (`Polling`). On the web page a result is final, which is what the mobile app violates in `analysis_result` |
| `CallsTypes` | a redirected request fits a route where it was sent to (`RedirectedOnce`), so it is not redirected again, whatever the routes are |
| `BreakerTypes` | `TypeInv`: an LLM caller between two attempts has one left (`LeftToTry`). Without it the number of attempts has no bound, since refusals count as attempts too |
| `CountsAgree` | closed is below the threshold, anything else is at it and stamped, half-open is past the cooldown. `FailureOpens` says that the two `record_failure` do the same on such a breaker, though only one of them looks whether it is half-open |
| `ImplementsFailFast` | from the two above: there is something to wait for exactly when the breaker is seen open (`WaitIsOpen`), looking does not change it (`LookingWaits`), and each action is the abstract one of its name; `Report`, and the clock of a closed breaker, are stutters |
| `PagesSendOne`, `PagesShowTruth`, `PagesShowOwnWrites` | `PagesInv`. `FlagsUp`: a job under way holds its flag, so a control that reads it is off. `TrueRows`: the cached rows, the answers on their way and what a job has had done were true once. `ForKey`: a slot of the query cache holds its own key's rows, and a page that drops its loads has loads of the chosen key only. `OwnWrites`: a change of one's own is in every answer the chosen key still waits for, and on the screen unless the screen waits for such an answer; superseded loads do not count, because react-query drops them |
| `FormsKeepTheirRecords`, `FormsMakeOne` | `FormsInv`. `Edits`: what the user typed is in the field and marked edited, or in the save that carries it. `NoBlanks`: the saves of a gated form send no blank, so neither the record nor what is loaded of it has one. `HiddenFirst`: a form hidden until it is loaded takes no edits before. `MakesOnce`: a form that is gone after a success has made no more than it was told of, and the answers lost |
| `EachAsAlone`, `SharedTypes`, `SharedKeepsItsWord`; `ScreensTypes`, `ScreensKeepTheirWord`; `ClientsTypes`, `ClientsKeepTheirWord`, `ClientsStaySignedOut` | the compositions that the runs check: a step of `SharedSpec`, `ScreensSpec` or `ClientsSpec` is a step of one part and a stutter of the others, so each part keeps its invariant, and those of `MCShared` also implement `RemoteCall` and `FailFast` |

What the theorems assume of the constants is what the modules' `ASSUME`s say, and
TLC evaluates those on the instances. For the screens they are about the records
that describe pages and forms, and TLC evaluates them over every record of the
three apps: `PagesConstants` (a page's actions, keys, filters and loads are of the
kinds listed in `PageRecords`), `QueriesAreNotPatched` (no page on react-query
edits its rows by hand), `FormShapes` (the kinds listed in `FormTables`), and
`ScreensConstants` (the page and the form that wait while the other is on the screen
are among them). The theorems hold for any further record that meets them.

`OneTab` is needed: two tabs share the cookie and each has a refresh of its own, so
both may send the same token. `SettlementInv`, `FreshRows`, `CountInv`, `IInv`,
`LogoutInv`, `RotationInv`, `PagesInv`, `FormsInv`, `CheckoutInv`, `SocketInv`,
`PanelInv`, `FeedInv`, `FeedFits` and `LeftToTry` also pass TLC as invariants of
their instances; `ChatInv` speaks of some natural number and cannot be evaluated.

The library's induction theorems take an operator as a parameter, which no
installed prover can instantiate. The one induction over data that the proofs need,
over the list of the notifications screen, is therefore made by its smallest
counterexample: `SmallestOf` takes it from `WFMin` and `NatLessThanWellFounded`, which
are about sets, and `WithoutExists` and `WithoutType` refute it.

Only model-checked:

- Every liveness property, which with ENABLED is out of the prover's reach:
  `TaskKeepsRunning`, `CallersGoOn`, `CapturedIsCredited`, `PolledConverges`,
  `ButtonsComeBack`, `RejectedReachesLoginCrossSite`, `WaitsEnd`.
- `CallsArrive`: it is a computation over the literal tables of routes and requests,
  and TLC goes through all of them.

## Divergences found

Five are runs that TLC finds violated, and entries of "findings" in `PROJECT.json`
with the sentence each contradicts: the webhook claimed before it is processed
(`pay_lost`), the success page for a failed charge (`checkout_success`), the
history that starts with the oldest exchanges (`chat_history`), the analysis shown
before it is over (`analysis_result`), and the refund of a captured payment that
gives nothing back (`pay_cancel`: TLC shows the race with a late webhook; a payment
whose work was approved needs no race, since "work_approved" is not "succeeded").

Met while modelling, without a run:

- Scheduler on Supabase: the lock is read and then written unconditionally
  (`pg_store.py:992`), so two processes can run a task together; `scheduler.py:54`
  promises otherwise.
- Payments: an escrow invoice becomes paid by the first of its payments with Stripe
  (`payments.py:634`), and not by the sum. `create_payment` (`postgres.py:2939`)
  writes every column but `idempotency_key`, so the lookup by key (`payments.py:331`)
  never finds a payment and a retry is charged again. "Check for existing unpaid
  invoice" (`payments.py:373`) looks at no status, so a user whose invoice is paid,
  released or refunded is charged again on it.
- Government data: while half-open the breaker lets every request through
  (`circuit.py:61`), where its docstring says "one probe request".
- Outbox: the dispatcher calls `mark_outbox_event_published` and
  `mark_outbox_event_failed` (`workers/outbox_dispatcher.py:29`, 34, 36), which are
  defined nowhere, so it dies after its first publish; the INSERT it depends on
  (`postgres.py:3410`) names a column that migration 032 does not make.
- Offers on Supabase: `leave_offer` deletes the row and then writes a counter it
  computed from an older read (`postgres.py:1186`).
- Migrations and code disagree on some columns (`stripe_webhook_events`,
  `outbox_events.status`, the length of `payments.status`); the models assume a
  database that accepts what the code writes. `reconcile_stale_payments` selects by
  columns nobody writes; `OfferLifecycleManager` has no caller.
- Clients: the comments promise retries of 5xx answers that `_isRetryable` never
  makes, while a POST is sent again after a 2xx the web client cannot parse, and
  after any rejected `fetch` in the package.
- Session: a rejected refresh while the middleware still sees the backend's cookie
  sends the tab from the layout to the login page and back (resident layout,
  72-79). A logout without an access token, or
  whose request fails, leaves the refresh cookie (`authStore.ts:170-183`), and the
  next page load signs in again; the comment at 179 counts on its being cleared.
- Pages: the admin's payments page patches its rows whatever the answer was
  (571-600). `BuildingInvitePanel.tsx:38-41` keeps the code of an earlier building:
  its `useState(inviteCode)` is not keyed.
- Checkout: every mount and every retry initiates a payment, without a key.
- Chat: the mobile hook appends a bubble per token (`hooks.ts:416-432`), where its
  comment (356-357) describes one that grows.
- Analysis: a failing poll leaves the web page's "analyzing" up; nothing in the
  backend starts the analysis of an uploaded plan (`agents/architecture.py:57-83`,
  `uploads.py:85-105`).
- Requests without a route (`Homeless`): from the mobile app `POST /auth/me/avatar`,
  `/message/stream`, `/checkout`, `/address/normalize`, `/auth/onboarding`,
  `/contractors/me/documents`, `/users/push-token`; `GET /activity`, `/orders`,
  `/orders/{id}`, `/payments`, `/buildings/{id}/news`, `/contractors/me/offers`,
  `/me/projects`, `/me/earnings`; from the package `GET /admin/contractors`
  (`client.ts:326`, unused), which `docs/admin-super-admin-crud.md:11` documents.
- Requests another route takes (`Captured`): `GET /contractors/matches` is served by
  `get_contractor` with "matches" for an id, where the mobile client
  (`api.ts:319-326`) says "Fetch contractor matches from the AI agent.";
  `GET /contractors/me/stats` by `get_contractor_stats` for the contractor "me"; and
  the route `/payments/methods` (`payments.py:1037`) is registered after
  `/payments/{payment_id}` (765) and cannot be reached.

## Not modelled

- In payments: audit logs and outbox events (their failures are swallowed), PDFs,
  listings, the amounts and VAT, the thresholds behind `determine_payment_type`
  (its result is the constant `PaymentType`), the generic `/payments/webhook` (for
  Bit and PayBox, whose providers raise), a Stripe answer without a
  `client_secret`, and the asyncpg variant of the transaction (its steps are fewer).
- In offers: e-mail, WhatsApp, websockets, deadlines, pricing tiers, building
  membership, and what the matching agent does after start-matching.
- In the scheduler: the bodies of the tasks, and clocks that differ.
- In the front ends: what a request carries, which values a field accepts, search,
  sorting, selection, charts, styles, navigation, push registration, MFA and the
  Supabase sign-in, the choice between the three layouts by role.
- In the routing: CORS, headers, rate limits, who may call a route.
- Backend components of the inventory that keep no shared state a property could be
  about: the orchestrator and the agents (prompts decide), CRUD routers, bots,
  storage clients, outgoing notifications. Their routes are in `Routing`, the calls
  that change offers and payments in `Offers` and `Payments`.
- The outbox, off by default, whose helper does not use the caller's transaction and
  whose dispatcher cannot run as written: there is no behaviour to be faithful to.
- In the breakers: what is asked for, the caches but for their effect on the breaker,
  `reset`, which nothing calls, and a wall clock that is set back, which keeps the
  LLM's breaker open for longer. Which exceptions of the LLM's library are
  among `TRANSIENT_ERRORS` is left to the library: a call may `Fail` or `Leave`.
- The component library, content pages, translations and analytics of the front
  ends.
