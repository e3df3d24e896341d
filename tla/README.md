# A TLA+ model of nodns

This directory models the parts of the repository that decide who holds a name,
what the zone serves, who has paid, and what becomes of a certificate order; and
the clients that ask for it: the two web applications, the explorer, the command
line client and the resolver library they share. TLC checks the modules on small
instances, and TLAPS proves every safety property that the passing runs check, for
every value of the constants.

Paths below are relative to `src/`; `bot/` stands for `nodns-bot-rs/src/`,
`registrar/`, `frontend/`, `explorer/`, `cli/` and `resolver/` for the `src/` of
`nodns-registrar`, `nodns-frontend`, `nodns-explorer`, `nodns-cli` and
`nodns-resolver`.

## Inventory

### The bot

One process runs several tasks on a multi-threaded runtime (`bot/main.rs`). They
share a SQLite store behind one mutex, which each store method takes and releases:
a method is atomic, two of them are not. The tasks talk to Nostr relays, to the DNS
server of each zone, to Cashu mints and to an ACME CA; every such call is an
`await`, during which the other tasks run.

| component | state | operations | hard behaviour | what makes it correct |
|---|---|---|---|---|
| delegations store (`bot/store.rs`, `bot/auth.rs`) | rows keyed by name and zone: holder, renewal key, dates, price, status | save, renew, grace, expire, availability, authority | statements are atomic, sequences of them are not | a holder was granted the name; no sale of a running lease; the table is the book that `NameService` promises |
| subscriber and event processor (`bot/subscriber.rs`, `bot/event_processor.rs`) | `last_seen`, the event being handled | claim, renewal, delegation, lease, update, delete | relays repeat and reorder; checks before awaits; restarts | the right key's records are served; a crash loses no event |
| payment processor (`bot/payment_processor.rs`) | `processed_dms`, the DM being handled | check, verify, save, announce, record | the mint is awaited between check and save; its own event comes back | no double sale; every DM is settled |
| lease expiry task (`bot/main.rs`) | a snapshot of the due rows | grace, delete from zone, soft delete, expire | the snapshot is stale after each await | only overdue leases expire, and all of them do |
| circuit breaker (`nodns-connectors/src/circuit_breaker.rs`, `bot/payment.rs`) | state, failures, opened_at per mint | is_available, record_success, record_failure | concurrent calls, late answers | opens at the threshold, the cooldown runs down |
| certificate orders (`bot/acme.rs`, `bot/handlers/acme_order.rs`) | acme_orders rows, challenge TXT, one task per order | order, stages, certificate handler, recovery | crashes at each stage, callers that clear keys, two orders for one domain | no order is left behind; an issued order is usable; a client sees what `OrderService` promises |
| failover connector (`nodns-connectors/src/failover.rs`) | failures, open_until | route_op | two backends that diverge | planned |
| EPP pool (`nodns-epp/src/lib.rs`) | client, request counters | check, create, info, update | a counter that is never reset | planned |
| resolver subscriptions (`bot/handlers/resolver.rs`) | token, expiry, queries of the day | create, validate | the boundary of a day | planned |
| RFC 2136 server, DynDNS, acme-dns (`bot/dns_update_server.rs`, `bot/handlers/`) | registrations | update | authority of other entries to the zone | planned |
| parser, protocol, classification, proof of burn and of work | none, or pob_proofs | pure functions | pay before or after the event | planned in part |

### The clients

Each client is one JavaScript thread. What interleaves is what runs between two
`await`s: handlers of one page, timers, events of relays, effects that a render
ends and starts again, and calls whose page is gone.

| component | state | operations | hard behaviour | what makes it correct |
|---|---|---|---|---|
| web wallet (`contexts/WalletContext.tsx`, `lib/wallet.ts` and the wallet page of both applications) | balance, top-up status, invoice; the manager's database and mint operations | open, top up and poll, send, receive, leave the page | polls overlap and outlive their effect; reads of the balance are answered late | what is paid is minted and shown; the balance shown is current |
| registration and domain pages (`registrar/pages/Landing.tsx`, `Domain.tsx`; `frontend/app/register/`, `app/domain/`) | search, form, dialog, publication, rows | search, register, create, edit, delete, load, debounce | pay, mine, publish and reload, each of which can fail; a page that is left | one payment at a time; nothing unpaid but what may be; no job stays busy |
| resolver library (`resolver/`) | none | resolve in four modes, compare, discover and check zones | sources are read at different moments and fail | a verified record was seen twice; the newest event wins |
| command line client (`cli/`) and the CI script (`ci/register-txt.mjs`) | one command's progress, invoice, token | add, delete, burn, refund, conformance, resolve, zone-check, zone-export; register | payment that arrives after the wait is over; sources that fail | what was paid is printed; what is reported is so; every command ends |
| publishing dashboard and certificate panel (`frontend/components/dashboard.tsx`, `publish-pipeline.tsx`, `cert-request.tsx`) | key, queue, pipeline with timers and polls; order, key, polls | publish, poll DNS, request, poll the order, reset | polls of an earlier pipeline or order; answers that are lost; a key that is handed out once | success and the key belong to what they are shown for; waits end |
| identities (`IdentityContext.tsx`, `lib/identity.ts` of both, `login-modal.tsx`, `identity-manager.tsx`) | session, local storage | sign in four ways, sign out, reload, import, reset | the extension answers late; two kinds of stored keys | a reload keeps who is signed in |
| screens that follow the relays (`explorer/App.tsx`, `zone-monitor.tsx`; `frontend/components/record-browser.tsx`, `live-feed.tsx`, `app/dashboard/`, `app/profile/`, `app/search/`; `registrar/pages/Dashboard.tsx`) | list of events, rows, loads in flight, timers | receive, load, switch zone, name or user | loads that nothing cancels; repeated and reordered events | what is shown is of whom it says, and catches up |
| error reports and client log worker (`registrar/components/error-boundary.tsx`, `nodns-clientlog-worker/`) | queue in local storage, limiter | report, flush | flushes that overlap | planned |
| resolver library in Rust, static pages, scripts | | | | see `PROJECT.json` |

### How they interact

The bot's tasks share the store. The payment processor publishes a delegation event
which the subscriber receives like any other, since the two have clients of their
own. The event processor, the expiry task and the certificate tasks write the zone.
The payment processor and the resolver's subscribe handler go through the breaker.

The clients see the bot through three channels: the relays, to which they publish
events and from which they hear of those of others; DNS; and the bot's HTTP API. In
the models of the clients these are external, and answer with what they may have at
that moment, late or not at all. One of them is the interface between two
modules here: `OrderService` says what a client can see of a certificate order.
`AcmeOrders` is shown to implement it, and `CertRequest` composes it with the panel
that polls it.

The hazards that follow from all this are listed in `PROJECT.json`, each at its line
and with the properties that watch it.

## Modules

| module | models |
|---|---|
| `Delegations` | the delegations table of one zone: its SQL statements and the checks on its rows, as operators |
| `NameService` | what the bot promises of names: who has them and until when, whose record is served (abstract) |
| `Registry` | event processor, payment processor and expiry task as three interleaved processes over the table, the zone and the relays; clients, time and restarts as environment |
| `CircuitBreaker` | one mint's breaker and the calls through it |
| `OrderService` | what the bot promises of a certificate order (abstract) |
| `AcmeOrders` | orders, their tasks, the challenge records, certificate requests, restart and recovery |
| `WebWallet` | the wallet of both applications: provider, page, background processor, invoices, tokens |
| `NamePages` | the registration page and the domain page of both applications |
| `Resolver` | the resolver library: record modes and zone discovery |
| `Cli` | the commands of the client, and the CI script |
| `Dashboard` | the frontend's publishing dashboard and its pipeline |
| `CertRequest` | `Dashboard`, the certificate panel, and `OrderService` as its server |
| `Identities` | who is signed in, in both applications |
| `LiveViews` | `Identities` and the screens that follow the relays |
| `MC...` | instances for TLC |
| `RegistryProofs`, `AcmeOrdersProofs`, `ResolverProofs`, `CertRequestProofs`, `WebWalletProofs`, `NamePagesProofs`, `LiveViewsProofs`, `CliProofs` | theorems and proofs |

Definitions carry the names of the functions they model; where both applications
have one of the same name, `registrar_` and `frontend_` tell them apart. Definitions
called `mutant_...` stand before the definition they vary; no specification uses
them: each is a plausible slip in the code, with which a property must fail.

### Registry

A step of a task runs from one store or network call to the next. `ep`, `pp` and
`ex` hold what the three tasks carry across such a point in local variables: the
event and its resolved FQDN, the DM, the sweep's snapshot and its own `now`.

* Event processor. `Receive` hands over any event of the relays that the
  session's filter admits; relays deliver in any order. `EpDelegation` and
  `EpLease` are one store write. A claim and a renewal are two steps, the checks
  (`EpClaimCheck`, `EpRenewalCheck`) and the write (`EpClaimSave`,
  `EpRenewalSave`). An update or a delete resolves its FQDN (`EpResolve`), checks
  authority (`EpAuthorize`), writes the zone (`EpZone`, or `EpZoneFails`), the
  proof TXT (`EpProof`) and the events table (`EpRows`). Every path ends with
  `Finish`, that is `set_last_seen` with the event's `created_at`.
* Payment processor. `PpReceive` covers all that happens before the mint is
  asked; `PpVerifyFails` or `PpSave` follow, then `PpPublish` and `PpMark`.
* Expiry task. `ExTick` reads the due rows; for each, in the order of
  `valid_until`, `ExGrace`, or `ExRecords`, `ExZone`, `ExRows` and `ExMark`.
* `Restart` resets the tasks and the session and keeps store, zone and relays.

`grants`, `lapsed` and `overdue` are history variables: who was given which name
and how, and which names had a lease that ended or passed its grace deadline.

`NameService` is the registry without events, DMs and tasks: a name is signed over or
sold (again only after a lease of it ended), or named in a lease event, entered for
somebody it was granted to,
renewed for whoever has it, put in grace, expired when overdue; and a record is served
for a key that may have one there. Each of these is a single step, with its condition at
that step. `Registry!ImplementsNames` is its specification with `book` the holder, date
and status of each row (`entryOf`), `served` the zone, and `granted` and `sold` read off
the grants. What a task does before its write and after it is a stutter; its
write must be a step of the service although the check was made steps ago.

Abstractions. Time counts days; `created_at` of an event is the time at which it
is published (honest clocks). Records are the apex record of a name: `rows` says
which keys have an undeleted row, `dns` and `proof` whose record is served. The
record count and rate limit are a nondeterministic refusal (`EpLimited`). Anyone may
try claims, delegations, lease events and renewals. Of claims and delegations the
registrar's alone give a name away; a lease event does whoever signed it, since
`process_lease_event` stores it as it is. The histories count it as a grant (`gives`, with
`by = "lease"`), and `NameService` promises no more. The registrar key is a constant (the
`registrar` event is left out), as are one zone and the price. SQLite errors, proof of work and of burn, EPP orders
and the event cache are left out. `renew_by`, `event_id` and `registrar_pubkey`
are stored and never read by a check.

### CircuitBreaker

Each method is one step, under the breaker's mutex. A call is admitted by
`is_available` and answered by `record_success`, `record_failure`, or nothing
(`no_client`), any number of steps later. `opened_at` is kept as the time that
has passed since. Entries of different mints never meet, so one is modelled. The
counter saturates at `MaxFailures`, which stands for `u32::MAX`.

### AcmeOrders and OrderService

A step of an order's task is one wait for the CA or the DNS server and the store
update after it. The CA is external: `CaChecks` looks at the published challenge
and finds this order's or another's; a domain that was validated once may need no
challenge again. `Restart` ends tasks and requests at any point, and
`recover_pending_orders` works through the unfinished orders before the server is
up; it may be interrupted by another restart. The generated keys are encrypted in
their rows. `encryption_key` says whether `acme.encryption_key` is set; where it is
not, each start makes a new one (`bot/main.rs:524`, which warns of it), and a key
that was stored before is answered as none (`decrypt_private_key`): in the model it is
"lost". The configuration insists on a key only if `environment` is "production"
(`bot/config.rs:659`); `deploy/config-multi-zone.toml:105` sets neither.

`OrderService` has no task and no CA: an order is open until it is issued
or failed; a key that the bot generated is kept at some time before that, written
again on issue, given up on failure, and cleared once some request has read it. Unless
the store of keys is `durable`, a restart loses all it has (`LoseKeys`).
`AcmeOrders!ImplementsService` is its specification with `outcome` the status of
the row as the frontend's client reads it (`outcomeOf`), `held` the rows with a key that can
be read, `durable` that `acme.encryption_key` is set,
and `taken` the orders whose row with its key some request has read. A crash and a
recovery that fails the order are `Fail`; all other work on an order is a stutter.

### WebWallet

`app` says which of the two applications runs; their handlers differ in what they
disable, in what survives leaving the page (the registrar's status is the page's,
the frontend's the provider's) and in whether they poll the invoice (`poll`,
`checkTopUpStatus`, `PollReturns`: the registrar only). `log` is the history of the
database's balance. A balance read is requested at an entry of the log (`reads`) and
answered in order, some time later (`refreshBalance`), or fails (`ReadFails`): the code
then keeps the balance it shows and reads again only after another change. `Render` stands for React's
re-render with the provider's new value, which ends the polling effect and marks
the polls in flight as dead. `LeavePage` drops what belongs to the page.

Coins are counted in units of one; an amount of 1 stands for all.

### NamePages

A handler is a job: `Begin` runs it up to its first await (with whether a payment is
due and, if not, why), then `WalletSends` or `WalletRefuses`, `Publishes` or
`PublishFails`, and, on the domain page, the load it waits for (`LoadEnds`). `world`
is what the sources have, `rows` what the page shows; a load takes the world as it is
when it starts and is shown when it ends, in any order, unless it fails. `Leave` goes to the
other page with fresh state. Each event clears the registrar's timer and sets another;
`page.timer` tells the two apart, so that the timer that fires is one that was not cleared.

`Tariff` has the changes for which the zone's price is not 0, and `pricing` those of the
page's price list: none before it arrives, the zone's, or, in the frontend, the defaults when
it cannot be had. A price of 0 is common: updates are free by default
(`frontend/lib/sources.ts:77`) and in the first zone of `deploy/config-multi-zone.toml`, the
second charges for them (`:33`, `:75`). One amount stands for all others, and the payment is the token that goes into the
event. A registrar transfer is published like an edit and is not told apart. The
Edit button of the registrar leads nowhere (its ids do not match), so that its rows are
never in the editing state.

### Resolver

`task` says whether the run is about records or about zones. A query asks each
source once, at a moment of its own; a source answers with what it has, with a part
of it (DNS types and relays time out one by one), or with nothing. `toResolvedRecords`,
`compareTripartite`, `deduplicateRecords` and `verifies` are the library's functions,
as operators on sets of keys. Types matter as far as the code compares them: DNS
answers have numbers where the other sources have names. `discoverZones` and
`checkZone` look at announcement and TXT record in opposite orders, while either
may change.

### Cli

One command runs; `pc` is where it is. Zone gate, prompt, payment by a locked token
(`p2pk`) or by invoice (`plain`), signing, publication, and the commands of their own.
`quote` and `sats` follow the money: an open invoice can be paid at any moment,
also after the command has given up. `world` is what relays, bot and DNS have for the
commands that read, and may change while they do. An answer of the relays may be any set
of records and counts as an answer: `querySync` never rejects, it resolves with what some of
the relays sent in time, and without the newest event of a name an older or a deleted record
stands for it. `generateUnifiedDiff` is the
code's loop, one round a step. `key` (pure) and `list` are left out.

### Dashboard and CertRequest

Each publication starts a pipeline: two timers, then an interval that polls DNS;
`polls[r]` are the polls of pipeline `r`, which count with its attempts and end
whatever pipeline runs when they are answered. `CertRequest` adds the panel: the
order it shows, the request in flight and the answers in flight, each what the
service had when it was asked. The key of a certificate is the one that the user's key
determines, if a CSR was made with it (`csrOf`), or one that the bot made for that order; the
model names them by the user's key and by the order. `Crypto` says how far the browser's
WebCrypto gets with each user key: to a CSR, to a derived key whose CSR fails, or to nothing.
`BotRestarts` loses the keys at the bot.
`Remount` is the change of key that gives the panel new state (`key={fullDomain}`).
Of a name the model has whether it has a TXT record, which is what the polls ask
for.

### Identities and LiveViews

A key and its nsec are one model value. `LiveViews` has five screens, one at a
time, each with a subject: a zone (explorer), a name (profile, search), the user (both
dashboards), or everything (record browser). `loads` are the loads in flight with what
their sources had when they began; `cancellable` are those of an effect with a
cleanup. The zone monitor's load has two stages, as it asks DNS for the names that
the relays and the bot know. The history `crossed` says that the last load started
while another, which nothing cancels, was in flight; then what ends last is shown,
and the properties about rows make no claim. `Follow` is the dashboards' effect on a change of user.

Filters, sorting, tabs and what the explorer says of a single event are left out, as
are the rows that DNS adds to a profile.

## Runs

Every run is an instance of one module; all constants and bounds are in its
`.cfg`. Deadlock is not checked where time, clients, changes or clicks are bounded,
or a command ends (there the system stops); `Breaker` and `Resolver` check it.

| run | instance | checks |
|---|---|---|
| `RegistryLease` | 2 users, 1 name, 2 paid DMs, a renewal, 1 restart, 2 days | `TypeOK`, `NoEarlyResale`, `ExpiredWasOverdue` |
| `RegistryRecords` | 2 users, 1 name, 1 paid DM, 2 events out of claim, update, delete, delegation and lease, no grace, 1 day | `HolderWasGranted`, `ServedByGrantee`, `ImplementsNames` |
| `RegistryLive` | 1 user, 1 DM of any form, a renewal or a lease event, 1 restart | `ImplementsNames`, `OverdueIsSwept`, `DmIsSettled` |
| `VExpiryRace` | 2 users, 1 DM, a renewal, 2 days | `ExpiredIsPastDeadline` is violated |
| `Breaker` | 3 calls, the threshold of 3, a counter that saturates at 6 | `ClosedBelowThreshold`, `CooldownOnlyRunsDown` |
| `Acme` | 2 orders, 2 domains, 2 requests, 2 restarts | `OrderHasWorker`, `IssuedIsUsable`, `OutcomeIsFinal`, `OrderSettles`, `ImplementsService` |
| `Wallet` | both applications, 2 mint operations, 2 polls in flight, 1 token | `PaidIsFinalized`, `ShownIsCurrent`, `PaidIsShown` |
| `NamePages` | both applications, 1 record, 2 publications at once, 1 load beside theirs | `OneAtATime`, `PaidUnlessExcused`, `BusyEnds`, `NoEventMissed` |
| `Resolver` | 2 records, 2 events, 2 keys | `SeenTwice`, `ZoneChecksAgree` |
| `Cli` | nine commands, 2 relays, 3 records, 2 polls, 1 change while reading | `SeenIsPrinted`, `ReportedIsSo`, `VerdictIsRight`, `DiffIsFaithful`, `CommandEnds` |
| `Certificates` | 2 keys, 1 record, 2 orders, 2 attempts, 2 polls, 2 pipelines, 5 clicks | `EndIsEarned`, `KeyFits`, `OneOpenOrder`, `PipelineEnds`, `OutcomeIsShown` |
| `Views` | five screens, 2 zones, 1 name of each with 2 events, 3 keys, 2 loads, 3 changes | `NewestIsShown`, `ShownIsOfSubject`, `VerdictIsRight`, `BrowserCatchesUp`, `SurvivesReload` |

Every module states its types; outside `RegistryLease` they are proved and not part
of a run: the runs keep to properties that several steps can break. `ImplementsNames`
is checked in two runs, since renewals, the grace period and restarts are the matter of
one, and sales between two users, entries and records that of the other.

What the properties of the clients say, in short. `PaidIsFinalized`: what is called
paid was minted. `ShownIsCurrent`: when no read is left in flight the balance shown is the
wallet's, unless the last read has just failed. `OneAtATime`: a page has one publication in flight, with
one exception in the frontend's form. `PaidUnlessExcused`: what is published without a
token is free in the zone or has one of the excuses the code knows (no price, the defaults, a
wallet that cannot pay, a deletion). `NoEventMissed`: once no more events come, the last one is
followed by a load. `SeenTwice`: a verified record is in two sources.
`ZoneChecksAgree`: the two ways to check a zone agree. `SeenIsPrinted`: a payment the command has
seen ends in a token it prints or uses. `ReportedIsSo`: each success that is reported has
happened, a dry run did nothing, and an answer is of one source. `VerdictIsRight`: a
"match" of `conformance` says that the relays answered with the bot's records and that DNS
has them, and of full answers its verdict is right both ways; the zone monitor's is that of a
comparison of what was read. `DiffIsFaithful`: the diff turns one file into the other. `EndIsEarned`: success is that of
a poll which found the current key's name, an error that of a failed publication or of polls
that are used up. `KeyFits`: the
private key offered is that of the certificate, unless it was derived and its CSR failed. `OneOpenOrder`: one order at a time.
`NewestIsShown`, `ShownIsOfSubject`: a list shows the newest of the events it
received, and rows of whom the screen is about. `SurvivesReload`: a reload keeps
who is signed in.

The bot. One name is enough for the lease properties, since no statement on the table
touches two; two users are the holder and the next one. A lease of one day with
one day of grace and two days of time lets a lease lapse, be renewed, enter grace,
expire and be sold again; two DMs and one restart let a DM be processed twice
while another arrives. Users are interchangeable, which the safety runs use as a
symmetry; the runs with liveness properties do not. `RegistryRecords` has no
grace, so that a lease ends, expires and may be sold again within its one day;
grace, renewals and restarts are the matter of `RegistryLease`. There, the
delegation events are the ones that the payment processor announces; in
`RegistryRecords` clients publish others, and lease events, signed by the registrar or
not. The form
"unpaid" is left out, since a paid DM may fail at the mint too.

The clients. Two of a thing that can cross another (polls, loads, publications,
pipelines, orders) show the order in which they cross; a third is in the position of
one of the two. In `Wallet` both operations may be of an earlier session, and the
token stands for changes of the balance that no poll causes. `NamePages` lets the
world change freely, so that one record is there or not at each moment. In
`Resolver` two records tell the sources apart in every combination, and two events
an older from a newer. `Cli` compares all pairs of record sets up to three, which the diff
needs to run ahead in either file. In `Certificates` five clicks are a key, a
publication and three more changes of key, publications, resets or orders; of its two keys
one gets a CSR and the other not even a derived key (a key whose CSR fails is what `KeyFits`
excepts). In `Wallet` each of the changes may be followed by a read that fails. In `NamePages`
the zone charges for records that are created and updated, not for deletions; the frontend's
defaults charge for creating alone. In `Views` two
events of a name come in either order, and three keys are the one the user
brings and two that are generated.

### Fairness

`Registry!FairSpec` assumes weak fairness of each of the three tasks, and
`AcmeOrders!FairSpec` of each order's task and of the recovery: the runtime polls
every task that can go on, and each await has a timeout or ends in an error. (The
gift-wrap subscription and the interval timer never end by themselves.) Nothing is
assumed of clients, time, relays beyond what they deliver, or of the CA's check.
Restarts are bounded, so that the tasks are not started for ever.

In the clients, requests that were sent end, by an answer or an error (fetch
timeouts, the relay pool's `maxWait`, the mint's HTTP client), and the browser runs
timers that are due: weak fairness of each of these steps, with the choice between
answer and failure left open. A timer that is cleared is not due: `NamePages` assumes of
each timer that it fires unless an event clears it, so that events that keep coming may put
the load off for ever, and `NoEventMissed` excepts them. `Cli` assumes that time passes, that
a request is answered or fails, and of the polls of mint and notary only that they are
answered: that one fails is never needed to end a wait, "not yet" may be the answer each time,
and what ends the loop is its bound. Nothing is assumed of users, payers, relays and other
clients. Three assumptions are strong. `WebWallet`: `finalize` of a paid operation does
not throw for ever while the page polls it. `CertRequest`: not every poll of an order is
lost. `LiveViews`: the 30 s interval fires also where loads keep the bound on loads
in flight reached in between.

## Divergences

`VExpiryRace` shows the run in which the code does not do what its text says:
the sweep takes its snapshot, a renewal is accepted, and the sweep expires the
renewed lease (`ExpiredIsPastDeadline`, `bot/main.rs`).

The modules state more of the kind. No run holds the code to these definitions;
each was found violated by TLC, or follows from the lines named.

| definition | what is said | what the code does |
|---|---|---|
| `Registry!NoSaleInGrace` | a name in grace is not available (`bot/store.rs:942`) | a lapsed lease that the hourly sweep has not marked yet is sold |
| `Registry!HolderCanRenew` | the holder renews (`bot/event_processor.rs:651`) | the bot's own delegation event returns and names the registrar's key as the one that renews |
| `Registry!CrashIsRetried` | an event that a crash interrupts is delivered again (`bot/event_processor.rs:285`) | if a newer event was handled first, the next filter leaves the older one out |
| `CircuitBreaker!SingleProbe` | one probe while half-open (`circuit_breaker.rs:98`) | every call is admitted while the circuit is half-open |
| `AcmeOrders!PreservedKeyIsThere` | the recovery says the key is preserved (`bot/acme.rs:571`) | it writes NULL over it |
| `CertRequest!KeyReturned` | "Your private key is generated by the bot and returned to you" (`cert-request.tsx:254`) | the key is in the first answer that has it and is cleared then (`acme_order.rs:188`); if that answer is lost or overtaken, the certificate is shown without a key |
| `CertRequest!DerivedInVain` never holds | "Falling back to server-generated key" where the CSR fails (`cert-request.tsx:266`) | the derived key is kept (`:115`) and takes precedence (`:166`): the panel shows it with the certificate of the key that the bot generated |
| `Cli!ReportedIsPublished` | "Failed to publish to all N relay(s)" (`cli/lib/nostr.ts:86`) | `pool.publish` returns an array of promises, which is awaited as a value (`:68`): every relay counts as a success, and the error is never thrown |
| `LiveViews!AccountIsRestored` | a saved account is restored, the ephemeral key is what it falls through to (`registrar/contexts/IdentityContext.tsx:82`) | `session` is that of the render before, so the ephemeral key replaces the account (`:87`) |
| `Resolver!AllAgree` | "All sources agree" on a match (`frontend/app/domain/page.tsx:883`) | a match only means that no record is in one source alone; DNS answers carry type numbers and never match; with every source down all agree (`resolver/verify.ts:146-186`) |
| `Resolver!RoundTrip` | a record made with `buildRecordTag` can be read back | fields whose place differs are read as data (`resolver/parse.ts:50`) |

Seen on the way, without a definition of their own:

* bot: `process_lease_event` (`bot/event_processor.rs:401`) stores the lease whoever signed
  it, where a delegation must be the registrar's (`:371`); and the production configuration
  sets no `acme.encryption_key`, without which a restart leaves stored keys unreadable.
* bot: the returning delegation event also clears the locked price; a paid lease is not
  held to `operator_lease_expires`; a name can be sold while a renewal that was
  published in time waits; a failed DNS deletion leaves an expired name's record in
  the zone; a late success closes an open circuit.
* `cli/lib/p2pk.ts:117`: a quote that is found paid at the end of the wait is given up, and
  the sats with it. `SeenIsPrinted` holds the plain payment to what the locked one does not keep.
* `cli/lib/p2pk.ts:241-249`: reclaimed proofs are lost if the mint fails between `receive`
  and `send`.
* `registrar/pages/Domain.tsx:272`, `frontend/app/domain/page.tsx:353`: the token is taken
  before the event is published; if that fails, it is in no event.
* `registrar/contexts/WalletContext.tsx:41`: a balance read that fails is not made again, and
  what was shown stays until another change.
* `registrar/pages/Domain.tsx:225`: events less than 500 ms apart put the load off for ever.
* `registrar/lib/nostr.ts:77`: the publication waits for no relay before the pool is
  closed, for the reason of `cli/lib/nostr.ts:68`.
* `resolver/zones.ts:205` and `:221`: the announcement may say `testnet=true`, the TXT
  record only `testnet=1`.
* The conformance command takes part of an answer of the relays for the whole: with nothing
  changed, it may say "PARTIAL" of sources that agree.
* The conformance command says "MATCH" of an API without records although DNS was
  never asked; the zone monitor says "FULL" while it loads and when a source failed.
* `frontend/components/dashboard.tsx:113`: a poll that succeeds as the last attempt turns
  into an error.
* `frontend/contexts/WalletContext.tsx:103`: the completion of any mint operation, an
  earlier session's too, shows the current top-up as done.

## Proofs

TLAPS proves, for all values of the constants that satisfy the named assumptions:

* `RegistryProofs`: `TypeSafe`, `HoldersGranted`, `ServedGranted`,
  `ExpiredOverdue`, `NoEarlyResales`, `Implements`. None of the properties is inductive, since a
  task acts on what it read steps ago. `TaskInv` says what the local state of the
  tasks is at each program point; `GrantInv` adds to `HolderWasGranted` that each
  event on the relays that gives a name away (`gives`), the event in the event
  processor's hands and the DM past its save have a grant; `ServedInv` adds that a
  key whose update passed the authority check was granted the name, and rests on
  grants never being withdrawn; `LapseInv` adds that each row of the sweep's
  snapshot which is past its deadline belongs to an overdue name, so that it does
  not matter what the row has become; `SaleInv` adds that a paid lease's row is
  active until a lease of the name lapses and that a DM at the mint passed the availability
  check on a name which is unsold or lapsed.
  `Implements` says that `Registry` implements `NameService`. Its invariant `BookInv` is
  all of these together with `PassedInv`, what the event processor's two checks found: a
  renewal it is about to write ends within the operator's own lease, and a name outside
  the table whose record it is about to write is the signer's own. From it, each write
  of a task finds its condition true at the very step (`BookStep`), and a step that
  writes none of the service's sources is a stutter (`BookKept`).
  The module also holds the proofs about `CircuitBreaker`, for any number of calls at
  once: `BreakerTypes`, `ClosedIsBelow`, `OpenHasDate` (an open circuit has the date
  from which its cooldown runs), `CooldownKept`, from the invariant that ties state,
  count and date.
* `AcmeOrdersProofs`: `TypeCorrect`, `OrdersHaveWorkers`, `IssuedUsable`,
  `OutcomesFinal`, from `AcmeInv`: a task works on an unfinished order that is not in
  the recovery's list, that list holds unfinished orders only, and a request that
  clears a key is for an order whose key has been read.
  `Implements` says that `AcmeOrders` implements `OrderService`: the initial states map
  to initial states, and each action to a step of the service or a stutter. This needs,
  besides `AcmeInv`, the invariant `KeyInv`: a key that can be read in a row is one that
  the bot generated, of an order that has passed "finalize"; an order with a task brought
  no bad CSR; and a key that was read was a generated one. That a lost key is that of a
  bot without encryption key that was started again is part of `IssuedIsUsable`.
* `ResolverProofs`: `TypeCorrect`, `SeenInTwo`, `ZonesAgree`. `ResultInv` says that the
  result of a finished query is made of the answers it has, which no step changes;
  `ZoneInv` says what discovery and check know at each of their stages of a zone that
  stays as it is. That two sources make a cardinality of two is the lemma `TwoMembers`.
* `CertRequestProofs`: `TypeCorrect`, `EndEarned`, `KeyFitting`, `OneOrderOpen`. The
  dashboard's part (`PipelineInv`): the polls of all pipelines are of the current key
  until the key changes, and polls in flight belong to pipelines that exist. The
  panel's part: `KeyInv` (what the panel has of keys and CSRs is of the user's current key, a key in an
  answer is its order's and the bot generated it, and an order that the panel shows
  was placed with the CSR of the key it derived), `KnownInv` (what
  the panel polls was accepted), and `OrderInv`, which holds as long as nothing went
  astray: each open order is the one that is polled or the one whose id is under way, never both, and
  a settled state that is answered or shown is the service's, so that a reset never
  drops an open order. The steps of the dashboard are proved once, for `DashInv`, and
  used for the composition.
* `WebWalletProofs`: `TypeCorrect`, `PaidFinalized`, `ShownCurrent`. `ReadsInv` orders
  the reads of the balance: that of the page's opening comes first, each poll that
  waits has one, and the last read in flight is of the newest balance, so that its end shows
  that balance unless it fails; a change of the balance starts a read in the same step (`Quiet`).
  `ReadsStart` and `ReadEnds` are the lemmas on
  sequences for it. `PollInv` says of which invoice each poll is: past its
  `finalize`, of one that is finalized, and while its effect lives, of the one the page
  waits for.
* `NamePagesProofs`: `TypeCorrect`, `OnePublication`, `PaidOrExcused`. `RouteInv` says
  which jobs and loads a route can have, `DialogInv` that the dialog, an edited row and a
  deletion exclude each other, and `BusyInv` that, as long as no save of the frontend's
  form met a deletion (`overlap`), a publication in flight is the only one and the page
  is busy or paying. That what is published without a token is free in the
  zone or excused is settled where the job begins (`Excuses`, from the page's price list being
  none, the zone's or the defaults), and the invariant carries it through payment, mining and publication.
* `LiveViewsProofs`: `TypeCorrect`, `NewestShown`, `ShownOfSubject`, `VerdictRight`,
  `ReloadKeepsUser`. There is one invariant per screen (`ExplorerInv`, `BrowserInv`,
  `LookupInv`, `RegistrarInv`, `FrontendInv`): as long as no load crossed a change of
  subject, loads in flight and the answers shown are for the subject on display; what
  the frontend's dashboard loads has, of every event of its user, that one or a newer
  one (`Covers`); and the zone monitor asks DNS for all of the bot's names, below its
  limit (`AskedAll`). `FeedInv` is about the explorer's list. `SignedInv` says of somebody
  signed in where the key is kept, so that a reload finds it. `Newest`, that a set of
  events which is not empty has a newest one, is a least counterexample: that the
  numbers are well-founded stands in for the induction.
* `CliProofs`: `TypeCorrect`, `SeenPrinted`, `ReportedSo`, `VerdictRight`,
  `DiffFaithful`. `PlaceInv` says which command can be where, `InvoiceInv` which of them
  have an invoice and who asked for it, `PlainInv` where a payment is that was seen on
  the plain path, and `ReadInv` that an answer of the bot is what it had and one of DNS
  no more than that, as long as nothing changed (of the relays nothing is known). The diff rests on two facts. A zone file has each record of its set once and
  in order (`ZoneFile`; that every set of records can be put in order is a least
  counterexample again, `Enumerable`). And `Merge` is kept by each round: what is above
  the two positions is in the lines, with the same records in common (`MergeMore`). Hence a line
  whose record the other file has is still to come there (`StillToCome`), and the last
  three branches of `generateUnifiedDiff` are never taken (`NoOtherRound`).

Assumptions: `DelegationAssumption`, `RegistryAssumption`, `BreakerAssumption`,
`AcmeAssumption`, `ResolverAssumption`, `DashboardAssumption`, `CertAssumption`,
`WalletAssumption`, `PagesAssumption`, `IdentityAssumption`, `ViewsAssumption`,
`CliAssumption` (distinctness of the special values, natural numbers, a threshold and a cooldown
above zero). Each inductive step has one case per action.

Model-checked only: what is to happen under fairness, which is beyond the prover
(`OverdueIsSwept`, `DmIsSettled`, `OrderSettles`, `PaidIsShown`, `BusyEnds`,
`NoEventMissed`, `CommandEnds`, `PipelineEnds`, `OutcomeIsShown`,
`BrowserCatchesUp`). Every other property of a passing run is a theorem.

## Plan

1. `Failover`: `FailoverState` and `route_op` with concurrent calls and two
   backends; what is served after the primary recovers.
2. `EppPool`: the request counter, which is never reset (`nodns-epp/src/lib.rs:234`),
   the session reset and the EPP orders.
3. `Subscriptions`: resolver subscriptions, the daily limit (`bot/store.rs:535`), payment
   and crash.
4. `Records`: the record pipeline of one event with several records, the record
   count and the rate limit; the RFC 2136 server, DynDNS and acme-dns as further
   writers of the zone; proof of burn before and after its event.
5. `Names`: classification, pricing and authority on labels as operators, checked
   against reference definitions.
6. The queue of error reports with the client log worker; the Rust resolver, compared
   with `Resolver`; the dashboard's list of published records.

## Not modelled

Wire formats, TSIG and cryptography, read-only HTTP handlers, static pages and
display components, filters and sorting, the command line's `key` and `list`, and
deployment scripts: they keep no state, or are pure input and output. The test record cleanup
task looks for rows with `test_mint` set that no code writes.
