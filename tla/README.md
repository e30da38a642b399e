# A TLA+ verification of the Anselm API gateway

The gateway sits between installs of a desktop client and a paid model
provider. It holds the provider's keys, so every request spends the
operator's money, and most of what can go wrong in it is a matter of money or
of private bytes: a call billed and not charged, a refusal charged, a wallet
oversold by two requests at once, a file that outlives its purpose. This
directory models those parts, and the console from which an operator bans
installs, changes the configuration and resets quotas; checks them with TLC on
small instances, and proves with TLAPS, for every instance, that the money,
the staged bytes and the console's pages are handled safely.

## 1. Inventory

### The system's parts

| Part | Code (`src/internal/`) | State | Operations |
|---|---|---|---|
| Quota and spend ledger | `app/quota`, `infra/store/quotastore` | `spend_ledger` rows, one monthly counter per install, daily unit counters, spend counters per install, provider, day and month | Reserve, Settle, Rollback, ReconcileOrphans, ResetMonthlyRequests |
| Chat call | `app/chat` | semaphore, reservation, usage read so far, detached accounting goroutine | Handle, forward, streamThrough, nonStreamThrough |
| Paid generation | `app/genrun`, `app/image`, `app/tts`, `app/video` | reservation | Authorize, Reserve, Do |
| Media staging | `app/media`, `infra/store/mediastore`, `infra/mediafs` | upload row, lease row, staged file | Create, Append, Complete, Cancel, RevokeLease, Recover |
| Voices | `app/voice`, `infra/store/voicestore` | `install_voices`, the provider's registrations, the sample lease | Enroll, Delete |
| Upstream client | `infra/upstream` | process breaker, per-key breaker and cooldown, first-byte timer | DoCall |
| Pricing | `domain/billing` | none | quote, settle amount |
| Realtime speech | `app/speech` | two relay loops, idle deadline | session |
| Installs, proof of work, device proof | `app/install`, `app/deviceproof`, `pkg/pow`, `pkg/noncecache` | tokens, used nonces | challenge, register, verify |
| Rate limits | `infra/ratelimit`, `bootstrap/loops.go` | buckets | allow, evict |
| Configuration | `infra/configprovider`, `domain/config` | current and masked configuration, persisted overrides | load, ApplyOverrides |
| Lifecycle | `bootstrap/lifecycle.go` | listeners and loops | start, sweep loops, drain |
| Operator dashboard | `app/dashboard`, `bootstrap/dashstore.go`, `transport/httpapi/handlers/dashboard` | install statuses, the audit ring (512 events, in memory), an export's temporary file | Overview, InstallsList, Ban, Unban, ConfigDump, ConfigApply, Audit, Export, ResetAllMonthlyQuota |
| Web console | `infra/webassets/ui/src` | per page: what was last fetched, spinners, cursor stack, drafts, dialogs; calls in flight; one polling interval | load, page, ban, unban, save, download, poll, reset, navigate |
| Health, disk guard, metrics, transport, adapters | `app/health`, `infra/diskguard`, ... | small or none | mostly reads |

### How they interact

An HTTP handler calls one application service. A paid service asks the ledger
to **reserve** a quote in one transaction, calls the provider through the
upstream client, and closes the reservation: **settle** at the actual or the
full price, or **rollback** when the call provably cost nothing. Chat closes it
in a detached goroutine, the generation services on the request's own context.
A crash, or a failed write, leaves the row open; the **reconciler** (at start
and every five minutes, for rows older than ten) closes it at its full quote.
Media and voices share the leases: a voice's sample is a staged upload the
provider fetches, and is revoked once used. SQLite has a single writer
and every writing transaction starts with `BEGIN IMMEDIATE`, which is why one
transaction is one action; everything between two transactions interleaves.

The console is a single-page application that a reverse proxy protects. Each
page fetches from the dashboard's handlers through one function, `request` in
`lib/api.ts`, with no timeout, no retry, no cancellation and no sequence
numbers. The handlers change the status rows, the settings table and the
published configuration, and record what they did in the audit ring.

### What is hard

`PROJECT.json` lists the hazards line by line. In short: two terminal writers
of one row; a rollback after a reload or a midnight; a reset while rows are
open; what may be refunded after an ambiguous failure; a file and a row that
are updated in separate steps; a check made before a long provider call and
used after it; retries of calls that may have been billed; a timer racing the
first byte; a half-open probe that never reports; in the console, answers that
are lost or arrive out of order, a page left while its request is under way, a
dialog that outlives its page, a configuration persisted and not yet published
when the process dies.

Some hazards have no property, because the code has nothing to hold a property
against: a chat stream and a console fetch have no deadline of their own; a
crash between `files.Create` and `CreateUpload`, between the provider's
registration of a voice and `CreateVoice`, or while an export streams leaves a
file or a registration that nothing looks for; a half-open probe ended by its
caller counts as a success, as a comment intends; the install list is paged by
offset, so a registration between two pages repeats a row. The speech session's
two (the read deadline set back after the session ended, a first frame whose
write fails after it was delivered) wait for its module.

### What makes each part correct

- Ledger: every counter is the sum of the rows behind it, a row is closed once,
  the wallet is not oversold.
- Calls and voices: nothing that may have been billed is refunded, what the
  gateway knows to have cost nothing is (section 3 says how far), every row
  closes, no registration is lost silently.
- Media: a cancel is final, bytes have an owner, and the cursor does not run
  ahead of the file.
- Upstream client: at most one bill, "unbilled" is true, a call returns.
- Dashboard: every effect has its audit event, a page of the ring is a window
  of what was recorded, a restart brings up the configuration in force.
- Console: a spinner has a cause, a reason belongs to its target, the page is
  true when nothing is under way and catches up when it polls, and a reset whose
  success was seen is not offered again.

## 2. Modules

| Module | Models | Notes |
|---|---|---|
| `Tally` | - | the sum of a function as a cardinality: the same definition is evaluated by TLC and reasoned about by TLAPS |
| `Wallet` | - | the abstract promise: holding, closing and raising the wallet's limit, without tables, days or scans |
| `PaidCall` | - | the abstract promise of one paid call: hold, send, close at most once at a justified amount |
| `QuotaLedger` | `quotastore.go`, `app/quota` | implements `Wallet` |
| `QuotaLedger_proofs`, `ChatCall_proofs`, `GenCall_proofs`, `MediaUpload_proofs`, `VoiceEnroll_proofs`, `UpstreamClient_proofs`, `Console_proofs`, `OverviewPage_proofs` | - | the inductive invariants and the theorems, section 4 |
| `ChatCall` | `app/chat/service.go`, `forward.go` | one action per return path of `Handle` and `forward`; implements `PaidCall` |
| `GenCall` | `genrun.Do`, its callers, and what their adapters report as unbilled | implements `PaidCall` |
| `MediaUpload` | `media.go`, `mediastore.go`, `mediafs.go` | one upload; one action per file operation or statement |
| `VoiceEnroll` | `app/voice/service.go`, `voicestore.go` | |
| `Breaker` | sony/gobreaker, configured in `retry.go` and `transport.go` | external, from its use |
| `UpstreamClient` | `client.go`, `transport.go`, `faultclass.go`, `retry.go` | extends `Breaker` |
| `Api` | `lib/api.ts`, and the network under it | a call as the browser and as the gateway sees it |
| `AuditRing` | `app/dashboard/audit.go` | the ring, and the log it windows |
| `Dashboard` | `app/dashboard`, `dashstore.go`, `configprovider.go`, the dashboard's handlers | extends `Api` and `AuditRing` |
| `Tab` | - | the browser tab: one mounted page, its calls, two history variables |
| `InstallsPage`, `AuditPage`, `ConfigPage` | the page of that name in `ui/src/pages` | extend `Tab` |
| `Console` | `App.tsx`, `Export.tsx` | composes the three pages with the gateway |
| `OverviewPage` | `Overview.tsx`, and the handlers it calls | extends `Api`; apart from `Console` because it polls for ever |
| `MC*` | - | instances for TLC |

Operators named `...Unguarded`, `...Skips`, `...Refunds` and so on, under a
comment that starts with "Mutant", are faulty variants of the definition that
follows them. They are not part of any specification; they show that a
property would notice that mistake.

### QuotaLedger

State: the columns of the six tables (`state`, `row`, `charged`,
`quotaMonthly`, `installDay`, `categoryDay`, `providerDay`, `globalDay`,
`globalMonth`), the clock's day, the configuration's current limits, each
request's entry snapshot, the reconciler's list, and two history variables.
`SnapshotPeriod` and `SnapshotLimits` are separate from `Reserve` because the
code takes the period at request entry and the limits when `Reserve` is
called, both outside the transaction; `NextDay` and `Reload` may come between.
`Reserve` applies the gates in the transaction's order (monthly count, integer
ceilings, daily sublimit, category units, wallet) and books all counters. `Settle` and `Rollback` compare-and-set on the open
state; `AdjustSpend` carries the overflow and underflow checks of
`adjustSpend`, with `MaxInt` for `math.MaxInt64`. `Scan` reads the orphans'
ids and `ReconcileOne` closes them one by one, as the code does.

### ChatCall

From the reservation on, `Handle` is modelled path by path: breaker peek,
slot or queue, call, stream or body, detached job. The gates before the
reservation keep no state and are one action, `Reject`. `armed` and `exposed`
are `forward`'s `rollbackArmed` and `accountingExposure`: a settle disarms, and
`Return` is what is deferred, the rollback that fires if it is still armed and
unexposed, and the release of the slot. `job` is the set of accounting
goroutines a request has started and that have yet to run, so a settle and a
rollback that both fired would show as two. `Send` is the first attempt; the
attempts and keys behind it are `UpstreamClient`'s, and "inflight" spans them.
A provider's bill is a number up to `MaxBill`; a stream reports snapshots of
it, which the code merges field by field by maximum. `heard` records why the
code knows that a call cost nothing ("unsent" when the breaker, the queue or
`Open` stopped it, "refused" when the provider did), `prov` and `bill` what is
true; the properties relate the two.

`Age` is when a row may pass the ten minutes of the sweep
(`bootstrap/lifecycle.go:52`). A call that was never sent is over by then: the
queue holds it a minute at most (`config.go:85`), the dial and the database's
busy timeout take seconds. One that was sent need not be: an attempt may wait
up to 600 seconds for its first byte (`config.go:86`; 60 by default), there are
up to three, and a relay has no deadline. Such a row may be closed under the
running call.

`PaidCall` leaves out everything but the row's phase, its charge and the
provider's exposure. `Promise` in `ChatCall` and in `GenCall` is the mapping: an
absent row is a new call, an open one is held, a terminal one closed; a call
that was sent and not refused is exposed until its bill is final, which it is
when a chat answer has finished and, the price being fixed, when a generation
is accepted.

### GenCall

`Do` with its three outcomes. One difference from chat is that settle and
rollback run under the request's context: `OrderCancelled` is the transaction
that a client's departure cancels. The other is what the adapters report
(`Refundable`): the one for speech says "unbilled" of everything that cost
nothing (`Speech` is the set of its requests), those for image and video only of
the refusals they recognise, so that a call they never sent or one that the
provider declined for want of funds (402, "declined") is settled in full. A
generation is one attempt under one timeout of 30 to 120 seconds, so that it
ends, accounting included, well before the ten minutes of the sweep; this is what
`Age` says here.

### MediaUpload

One upload, its row, lease and file. A handler is a goroutine that runs any
of Create, Append, Complete, Cancel; `snap` is what it read and still carries,
which is where stale state lives. `sweep` is the position of `Recover`.
Assumptions: the process crashes, not the operating system, so completed file
operations survive; a statement that reports an error has not committed.

### VoiceEnroll

A voice is identified with the request that creates it. `prov` is what exists
in the provider's account, `recs` what the database says, `active` the sample
leases, each of which only its install (`LeaseOwner`) can resolve. Some voices (`Earlier`) are recorded before the start, under the
same inventory and with distinct names (`EarlierAssumption`), and their samples
are spent.

### UpstreamClient

`do`, `attempt` and `tryOnce`, with the process breaker around the attempts
and the key's breaker around each round trip. The round-robin cursor, shared
by all calls, is abstracted to any key that is not gated. `bills` and
`pending` count what the provider billed or may still bill. Cooldowns,
breaker intervals and open timeouts end at any time.

### Api, AuditRing, Dashboard

A call is a record with two sides. `srv` is how far the gateway's handler is
(queued, an effect made, answered, or dead with its process), `cli` whether the
page still waits, `wire` the answer on its way. `Wires` is what the browser
may see at that moment: a rejected fetch or the proxy's own 5xx always (`Severed`:
the connection broke on either side of the proxy, whatever the gateway did or
is still doing), the answer or a cut body once there is one, and the proxy's
401 or login page as long as the gateway has not touched the request. Body
`None` is one that cannot be read or parsed. The branches of `api.ts` for a 204
and for an empty 200 are left out: every handler of the dashboard writes JSON, so
no answer takes them. `request` turns this into the three results a page
distinguishes: a parsed body, an `ApiError`, or any other exception. What a
call carries to its continuation (`then`) is what a closure of the code
captured when the operator clicked.

A handler of `Dashboard` has one step per effect that another handler can see
in between: `SetStatus` then `AuditMutate`; `PersistConfig`, `PublishConfig`,
`AuditConfig`; `Snapshot`, `StreamExport`, `StreamEnds`. `MutexFree` is the
provider's mutex. The keys of the configuration are abstracted to a bounded
number and a text with a price, because the one check that spans keys
(`ValidateSemantics`) compares two of them. `Restart` drops what lives in
memory and rebuilds the configuration from the environment and the settings
table. `AuditRing` keeps the array, its write index and the wrap flag as the
code does, and `page` walks back over the slots (`Walk`), keeps what is older
than the cursor (`Older`) and takes the first `limit` of it; `log` is history and
`Window` the reference a page is compared to.

### Tab, the pages and Console

`view` is the state of the hooks of the mounted page, with the cursor whose
rows are `shown` as the one addition. A handler is split at its await: `Unban`
is `onUnban` up to it, `UnbanDone` what follows. `Navigate` discards the state
and the answers of the page it leaves, not the effects of its requests.
Deliberately kept: the modal can be cancelled while its ban is under way,
row buttons work while the table loads, reload is not disabled by a load,
one `savingKey` serves all rows, `Number('')` is 0. `calm` and `fresh` are
history: whether the calls outstanding began with one sent at rest, and
whether the page was filled by such a call and nothing doubtful came since.

### OverviewPage

`live` is the set of intervals the browser runs and `timer` the one the ref
remembers. The dialog of the quota reset is created by the static
`Modal.confirm`: it survives `Unmount`, and a call says whether its page
(`arg`) and its dialog (`then`) are still there. Of the overview's numbers
only whether reservations are open is kept: it is the one that decides what
the operator may do. A count that cannot be read is zero, as in
`dashboard.go`.

## 3. Runs

| Run | Instance | Shows |
|---|---|---|
| `ledger` | two requests, two installs, two days in two months, two plans, two limit sets, `MaxInt` 4 | every spend counter, request counter, unit counter and entitlement is the sum of its rows; no accounting corruption; wallet not oversold; one terminal winner; refinement of `Wallet` |
| `chat` | two calls, one slot, quote 2, bills up to 3 and up to 1 (`BillOf`) | no unproven refund; a call that never left is refunded, a refused one too unless the sweep overtook it; slots and jobs match the calls, every row closes, refinement of `PaidCall` |
| `generation` | two calls, a picture and a spoken text | accepted calls charged, every row closes, refinement of `PaidCall` |
| `generation_refund` | the same | **violated**, see below |
| `media` | two handlers and the sweep, two of them at once, two bytes, right and wrong chunks | however they interleave: cancel is final, an active lease has its file, no bytes without an owner, cursor monotone, staging reclaimed; as long as no two have overlapped: cursor within the file, lease intact |
| `media_cursor` | the same | **violated**, see below |
| `voice` | two enrolments of an install that holds one voice | inventory and names, charges, orphans, recorded voices exist, sample |
| `voice_ceiling` | two enrolments of two installs, a sample each | **violated**, see below |
| `upstream` | one call, two keys, three attempts | attempts within the policy and at most one bill, "unbilled" is true, no stream cut, the call returns |
| `upstream_probe` | two calls, one key, a breaker that trips on one failure | a taken probe is in flight |
| `console` | two installs, one row per page, four calls over a network and a proxy that may fail, a ring of three, two keys, one restart | spinners have causes, reasons match targets, a load started at rest shows the truth, effects are audited, a restart keeps the configuration, the ring's pages are windows of the log |
| `overview` | two calls at once, no bound on the history | one interval, one reset at a time, a reset whose success was seen is not offered again (one whose answer was lost is), the polled page catches up |

**Why the bounds are enough.** Each race listed above is between two actors (two
calls, a call and the sweep, two handlers, or a handler and the sweep), so two
requests suffice to show it; a third adds interleavings of the same pairs. The
amounts are small but straddle every gate: a quote below and above a limit, a
bill below, at and above the quote, and `MaxInt` 4 so that a top-up can
overflow. Two days in two months let a row be closed in a later month than it
was opened in. Two bytes and three chunk bodies give a partial upload, a
wrong one and one that no longer fits.

Four calls (`MaxCalls`, here a total) let a load, a mutation and its reload run
beside one call more. The ring of three (`Capacity`; 512 in the code) holds
two events at the start (`Earlier`), so it wraps and is paged across the seam;
after a restart it is empty. Two installs with one row per page give
a next and a previous page, and a target for a reason written for another; at
the start (`Registered`) none is banned, or the newer one is. The
two drafts of the configuration are each sound and together are not, which is
what makes the order of two saves matter. One restart (`MaxRestarts`) falls
between any two steps. In `overview` the bound is on calls at once: two are a
poll overtaken by another, or a poll beside the reset.

**Deadlock** is checked in the ledger, chat, generation and media runs.
The voice, upstream and console instances have finitely many requests and
really stop when the last one has returned, so they say `CHECK_DEADLOCK
FALSE`. `overview` never stops and is checked for deadlock.

**Symmetry** is used only in runs without liveness, over identifiers the
specification compares for equality only.

### Fairness

- Goroutines run and handlers take their steps (weak fairness on a handler's
  own steps). Nothing is assumed of the client or the provider: a call returns
  because the first-byte timer is fair, not because the provider is.
- The clock advances and the tickers of `bootstrap/lifecycle.go` fire (weak
  fairness on `Age`, `Sweep`, `UploadExpires`, `LeaseExpires`).
- A visit of the media sweep that may fail is strongly fair: it is retried at
  every tick and does not fail for ever. A database or disk that fails always
  is outside the promise. `ReconcileOrphan` in the call modules has no failing
  variant and is weakly fair. `QuotaLedger` states no fairness: its run checks
  safety only.
- No fairness is assumed of a chat stream: it may run for ever, and its row
  is then closed by the reconciler.
- In `overview` the browser fires the interval, the gateway answers what it
  has received and every fetch ends in an answer or an error. `Tick` is strongly
  fair only because a poll of the model may find both slots taken. Of polls
  repeated for ever not all are lost: serving, and delivering an answer
  with a given count, are strongly fair. Nothing is assumed of the operator.

### Disagreements between code and text

1. **A refusal is charged when the client leaves** (`generation_refund`).
   `genrun.Do` rolls back on the request's context; when the client has gone
   the transaction is cancelled, the row stays open and the reconciler keeps
   the whole quote. GW-INV-50 (`docs/references/backend/invariants.md:82`)
   says explicit refusals are rolled back. Chat detaches its rollback, so a
   client that leaves costs it nothing; but with the longest timeouts the
   configuration accepts a chat call can be refused after its row passed the
   ten minutes of the sweep, which then keeps the quote too. That is the
   exception in `ChatCall`'s `RefusalRefunded`.

   Two further departures from the same sentence have no run of their own,
   the model has them: `rejectedBeforeGeneration` (`native.go:127`) leaves out
   402, which the invariant lists; and the adapters for image and video do not
   report a call that never left the process as unbilled (`imagegen.go:98`,
   `videogen.go:73`, `101`, `121`), while the invariant refunds it like a
   refusal. Both are settled in full, client present or not.
2. **A stale truncation removes accounted bytes** (`media_cursor`). `Append`
   compares the file's size with a row read earlier and truncates to that
   stale cursor; another Append may have written and accounted more in
   between. The same holds of the undo and of the sweep's repair. The comment
   at `media.go:357` says the database must never point beyond durable bytes.
   As long as no two actors have overlapped it never does
   (`SerialUseKeepsBytes` in `media`). `ActiveLeaseIntact` needs the same
   premise: a truncation delayed past Complete's hash cuts the bytes of a
   lease already issued.
3. **The account ceiling is not re-read** (`voice_ceiling`). The package
   comment of `voicestore` says that both ceilings are re-read inside the
   transaction; only the per-install one is.

Four smaller ones were met while modelling the console. They have no run of
their own; the model has the code's behaviour.

- The comments of `Export` (`app/dashboard/dashboard.go`, and
  `handlers/dashboard/handler.go:226`) say that every attempt leaves a trail in
  the audit ring. An attempt that fails before the first byte returns earlier
  and is only logged; `EffectsAreAudited` therefore counts exports from their
  first byte on. (It also leaves out the quota reset, which is modelled in
  `OverviewPage` and `QuotaLedger`, without the ring.)
- `Installs.tsx:47` says that the top of the cursor stack is the page shown.
  When a reload overlaps a turn of the page, the later answer wins and
  may be of another cursor. `CalmUseShowsTruth` says that the next load
  made at rest repairs it.
- `Overview.tsx:86` says that a 401 is handled globally, by a redirect. No code
  of the console does that: every page ignores a 401 and silently keeps what it
  last showed. `PollingHeals` assumes that not all polls end that way.
- `Config.tsx:62` checks the bounds of `Number(draft)`, and `Number('')` is 0,
  so an emptied input passes where the bounds contain 0. The server's parser
  refuses it, which the model keeps.

## 4. Proofs

Every module with proofs is named after the module it is about. A theorem holds for every
value of the constants that satisfies the assumptions named below; each is an
`ASSUME` that TLC evaluates on the instances of section 3. None of the checked
invariants is inductive as it stands: each proof states a stronger invariant,
made of named parts, with one lemma per action that keeps it, and the theorems follow.

### QuotaLedger

From `LedgerAssumption`: finitely many requests, a positive `MaxInt`, a
calendar that gives every day a month, plans and limits within the integer
columns, and a `None` that is none of the records.

- `LedgerTypeCorrect`: `Spec => []TypeOK`. `TypeOK` is not inductive: a row
  that is open, but absent in `row`, would let `Settle` compute with `None`.
  The inductive invariant `Shape` adds (`RowsShaped`) that a request that is
  not absent has a row, that an entry snapshot is held only before the row is
  inserted, and that nothing is charged before a row is closed.
- `TerminalIsFinal`: `Spec => OneTerminalWinner`, an action property, from
  `Shape`: every action that changes a row requires it to be absent or open.
- `SpendIsConserved`: `Spec => []SpendConserved`. Each of the four families of
  spend counters is the sum of the costs of the rows posted to it. The
  argument: one step changes the cost of at most one row, by some delta
  (`OnlyRow`, `Moves`); the sum over any set of rows then moves by the delta
  if the row belongs to the set and not otherwise (`SumMove`, from the lemmas
  about the cardinality of `Tally`'s coins); and each action posts exactly
  that delta to exactly the counters keyed by the row. It needs
  no induction over data because the sum is a cardinality.
- `UsageIsConserved`: the request counts, unit counts and wallet entitlements
  are what the rows account for. `ForgivenClosed` is the extra part: a row
  whose count an operator's reset removed is closed, so that no later rollback
  gives it back twice.
- `CorruptionUnreachable`: from the two conservation laws, an open row's own
  share is inside every counter it was posted to, so that no decrement goes
  below zero.
- `WalletIsNotOversold`: the gate compares the column with the limits of the
  request's snapshot, so the invariant also bounds the limits that snapshots hold by the largest ever
  in force (`SnapshotsBounded`).
- `LedgerImplementsWallet`: `Spec => ImplementsWallet`. Every step is a step of
  `Wallet` or a stutter (`MappedStep`). The central fact is that the
  sum of the mapped rows is the column `global_spend_monthly`
  (`CommittedIsColumn`, from `SpendConserved`), which makes the gate on the
  column the gate on the sum.

### ChatCall and GenCall

From `ChatAssumption` (finitely many requests, at least one slot, a
positive quote, any bound on bills, below, at or above it) and `GenAssumption` (finitely many
requests, any of them speech, a positive quote). Both invariants relate, for each
request, where the handler is (`Progress`) with what the accounting may order
and what became of the row (`Accounting`). The decisive part is that a
rollback is only ever ordered for a call that provably cost nothing and can no
longer be sent.

In `ChatCall` a call that still owes its row an end (`Owed`) either has
ordered nothing (`Unordered`: waiting, relaying, or returning with the rollback
armed) or has one goroutine to run; its row is open, or, once something was
sent, possibly orphaned by the sweep. Before anything is sent it is out of the
sweep's reach. `Refunding` follows what is known to have cost nothing to its
refund: the armed rollback, the ordered one, the row rolled back, lost, or
refused and overtaken.

- `CallsKeepBooks`, `RefundsAreProven`, `RefusalsAreRefunded` of `ChatCall`:
  its three checked invariants. The last says of a call that never left that
  only a crash or a failed write keeps its quote, and of a refused one that the
  sweep is the only further cause. `Exact` is what a settlement may be: the quote or more, or
  the bill of an answer that finished.
- `GenerationsKeepBooks` of `GenCall`: its types, and that an accepted
  generation is never free.
- `ChatImplementsPaidCall`, `GenerationImplementsPaidCall`:
  `Spec => ImplementsPaidCall`. The steps that `PaidCall` sees are the
  reservation, the send, the provider's answers and whatever closes a row; all
  others stutter. A send needs `Progress` (the row of a call under way is
  open), a close needs `Accounting`: a rollback is ordered only while the
  exposure is none or refused, a settlement below the quote is the final bill,
  and no later send can make either untrue, because what could still send is
  over by then. So the three ways of closing a row (goroutine, request, reconciler)
  are one and the same promise.
- `LiveRefusalIsRefunded`: how far GW-INV-50, which `generation_refund`
  refutes, is true of `Do`. What an adapter reports as unbilled is refunded
  unless the client hung up, the process crashed or a write failed. It says
  nothing of a call that cost nothing and is not reported so (see
  disagreement 1).

### VoiceEnroll

From `VoiceAssumption` (every sample has an owner, which need not be the
install that asks for it) and `EarlierAssumption`. `VoiceInv` has four parts per
request: what its position says of the registration, what a record
requires, when a refund is possible, when a sample is spent; and the
inventory, which is its own inductive invariant because the insert re-reads
the install's records. `InventoryIsHeld`, `RegistrationsAreCharged`,
`OrphansAreKnown`, `RecordsAreBacked`, `SamplesAreSpent`.

### UpstreamClient

From `ClientAssumption` and `BreakerAssumption`, for any number of calls, keys
and attempts and any trip thresholds. `ClientInv` says what a call may have cost at each point (`Books`: what
goes back to try again owes nothing), that a stream is handed over only with
its timer disarmed (`Timing`), and that the calls a breaker counts as admitted
are inside it (`Probes`). `RetriesBuyOnce` (with the types),
`UnbilledIsTrue`, `StreamsRunOn`, `ProbesReport`.

### MediaUpload

From `MediaAssumption`, for any number of handlers, any content and any
chunks. `MediaInv` has a part that holds whatever overlaps (`Rows`,
`Sweeping`, `Handling`) and one that holds until two actors have overlapped
(`Serially`): the one that runs has the upload to itself, so what it read of
the row is still so when it uses it. `StagingIsConsistent`, `CancelsAreFinal`,
`SerialUseIsSafe`, and the action property `CursorOnlyAdvances`.

### Console

From `ApiAssumption`, `RingAssumption`, `DashboardAssumption`,
`EarlierAssumption` (what was recorded before is what the handlers record, and
did not yet fill the ring: a bound on the starting state only, the ring then
fills and wraps as it runs),
`ConfigAssumption` (the gateway has started, so it accepted its environment;
`None` is no value of a key) and `RoutesAssumption`: for any number of
installs, calls, keys and restarts and any size of ring, table page and draft set.

`ConsoleInv` has four parts. `Slotted`: a slot is free or holds a call of
known shape, in a phase its handler can be in, a ban with its own target's
reason. `Configuration`: at most one handler is between persisting and
publishing, and while one is, the table holds exactly what that handler will
publish; this is why a restart at any point starts. `Recording`: the effects
are the log, the changes not yet recorded and the export under way. `Viewing`:
each busy flag of the mounted page has its awaited call, and an open modal's
reason is its target's or empty. It gives

- `SpinnersEnd`, `ReasonsAreTheTargets`, `NoEffectUnaudited`, `RestartIsSafe`:
  the checked invariants `BusyHasCause` (with the type invariant),
  `ReasonMatchesTarget`, `EffectsAreAudited`, `RestartKeepsConfig`.

The arguments about the page are made over three kinds of step, as the code
makes them: a handler's step (`Served...` lemmas: nobody's waiting changes), a
page that sends (`SendsAwaits`), and a page that consumes an answer
(`SettlesAwaits`).

- `CalmUseIsTrue`: `CalmUseShowsTruth`, from `CalmInv` on top of `ConsoleInv`.
  The property speaks of a quiet console; `Calmness` says what is true on the
  way there: while `calm`, there is one call at most, it is for the page the
  operator stands at, and its answer, once given, is still what the gateway
  holds. `Freshness` says that a page filled this way stays true as long as
  each call since was a change that did nothing (`Undone`): a save or a ban that is refused
  leaves the page true, one of unknown outcome does not. The two need each
  other: a load makes a page fresh because it was calm.
- `PagesAreWindows`: `RingWindowsLog`, for every capacity. The inductive
  invariant is `RingHolds`: the i-th slot back from the write index holds the
  i-th event back from the end of the log, for as many slots as `page` looks
  at, and the ring is marked full exactly when that is all of them
  (`RingRecords`: one write keeps it so, across the seam too). Given it, what
  the loop of `page` keeps is an interval of its walk (`PageRows`), whose rows
  are those of the window (`WindowRows`). No induction over the sequence is
  needed, because `page` is written with the k-th place of a set, not
  with a recursive filter.
- `PagesDoNotShift`: the action property `PagesStand`, what the comment of
  `AuditEvent.Seq` (`audit.go:13`) promises. In any step but a restart a page
  below a cursor keeps its rows from the top and loses, at its end, only
  rows that the ring has overwritten (`RowsStand`).

### OverviewPage

From `ApiAssumption` and `OverviewAssumption` (`None` is none of the values it
is told apart from), for any number of calls at once. `OneIntervalRuns`,
`ResetIsHeldOnce`, and the action property `ResetIsConfirmedOnce`.
`OneInterval` is inductive by itself. For the other two `ButtonHeld` says that
at most one chain of the mounted page is awaited, and none beside a
dialog of that page that is still asking; `DialogFollows`, that an open dialog
waits for at most one call, is at the step that call is at, and belongs to the
mount that call belongs to.

### Only model-checked

- Liveness under fairness (every row closes, staging is reclaimed, a call
  returns, polling heals): it needs `ENABLED`, which the prover does not have.
- The three violations.

Every invariant, every action property and every refinement that a passing run
checks is also proved. `PagesStand` alone is proved and in no run; TLC agrees
with it on the `console` instance with three calls instead of four.

## 5. Not modelled

- The encoding of provider messages (`infra/upstream/native.go`, the `*gen.go`
  adapters), request parsing and prompts: the outcome classes they produce are
  inputs of the models. Which outcomes a generation adapter reports as unbilled
  is modelled (`Refundable` in `GenCall`).
- Authentication, rate limits, routing and the other gates before a
  reservation: one refusal in `ChatCall` and `GenCall`.
- Loss of directory entries at a power failure; corruption of the database.
- Metrics, alerts, logs, deployment scripts. A warning the code must log (a
  voice orphaned, a sample not revoked) is kept as history.
- Of the console: wording, columns, tags, number formatting, the theme; of the
  overview everything but the open reservations. Two operators at once are not
  modelled; two handlers at once, from one tab that navigates, are.
- The realtime speech session, install registration with its proof of work,
  device proofs, rate limits, the disk guard, and the shutdown drain: each has
  state and is in the plan.
- Price tables and rounding: operators without state, in the plan.

## 6. Plan

In order of importance; the first seven items are done, with the theorems of
section 4.

1. `QuotaLedger` with `Wallet`.
2. `ChatCall`, `GenCall` with `PaidCall`: what is charged and refunded.
3. `MediaUpload`.
4. `VoiceEnroll`.
5. `UpstreamClient` with `Breaker`.
6. `Api`, `AuditRing`, `Dashboard`, the pages and `Console`: what the operator
   does and sees, with the configuration provider behind it.
7. `OverviewPage`: the poll and the quota reset.
8. `SpeechSession`: the two relay loops, the idle deadline, the metered
   settlement, the refund decision after the first frame.
9. `Billing`: price tables, quotes and settled amounts as operators, checked
   against a reference over bounded inputs: the quote bounds the actual price,
   rounding never undercharges.
10. `InstallPow`: challenge, single use of nonces, token mint, device proof
    window.
11. `RateLimit` and the token throttle; `DiskGuard`; the shutdown drain order;
    a composition of `ChatCall` with `UpstreamClient` that replaces the
    provider's outcome classes by the client's results.
