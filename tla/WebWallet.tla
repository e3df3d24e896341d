----------------------------- MODULE WebWallet -----------------------------
(***************************************************************************)
(* The Cashu wallet of the two web applications: the provider that opens   *)
(* the wallet manager and mirrors its balance (contexts/WalletContext.tsx, *)
(* lib/wallet.ts) and the wallet page on top of it (pages/Wallet.tsx of    *)
(* the registrar, app/wallet/page.tsx of the frontend).                    *)
(*                                                                         *)
(* The manager, its database and the mint are external (coco-cashu): a     *)
(* mint operation is pending until its invoice is paid, and is executed by *)
(* the manager's background processor or by whoever calls finalize, which  *)
(* succeeds again on a finalized operation.  The database's transactions   *)
(* run in the order in which they are requested.                           *)
(*                                                                         *)
(* A step runs from one await to the next.  Both applications have the     *)
(* same states of a top-up, spelled differently: "requesting" is the       *)
(* registrar's "generating", "done" its "paid".                            *)
(***************************************************************************)
EXTENDS Integers, Sequences

CONSTANTS
    Apps,        \* which of "registrar" and "frontend" to start
    Ops,         \* mint operations
    Polls,       \* status checks that may be in flight at once
    None,
    MaxChanges   \* bound: changes of the balance after which no token is sent or received

ASSUME WalletAssumption ==
    /\ Apps \subseteq {"registrar", "frontend"}
    /\ None \notin Ops
    /\ Polls \cap {"init", "event", "receive"} = {}
    /\ MaxChanges \in Nat

VARIABLES
    app,      \* the application that runs
    opened,   \* how far init() is
    online,   \* mintOnline
    log,      \* history: the balances of the database, the last is current
    reads,    \* getBalances calls in flight, oldest first
    view,     \* which entry of log the balance state shows, 0: the initial 0
    ops,      \* state of each mint operation
    topup,    \* topUpState, invoiceStatus
    invoice,  \* operation whose invoice the page shows
    asking,   \* the topUp call in flight: whether its page is still there
    polls,    \* the checkTopUpStatus calls in flight
    stale,    \* the provider's value changed and the page has not rendered yet
    token     \* the send or receive in flight (bound: one at a time); "left" is a
              \* send whose page the user left

money == <<log, reads, view>>
page == <<topup, invoice, asking, polls, stale, token>>
vars == <<app, opened, online, money, ops, page>>

Idle == [st |-> "idle", op |-> None, live |-> FALSE]
OpStates == {"none", "pending", "paid", "executing", "finalized", "failed"}

Balance == log[Len(log)]
balance == IF view = 0 THEN 0 ELSE log[view]

TypeOK ==
    /\ app \in Apps
    /\ opened \in {"opening", "reading", "open", "failed"}
    /\ online \in BOOLEAN
    /\ log \in Seq(Nat) /\ log # <<>>
    /\ reads \in Seq([by: {"init", "event", "receive"} \cup Polls, at: Nat])
    /\ view \in 0..Len(log)
    /\ ops \in [Ops -> OpStates]
    /\ topup \in {"idle", "requesting", "waiting", "minting", "done", "error"}
    /\ invoice \in Ops \cup {None}
    /\ asking \in {"no", "live", "left"}
    /\ polls \in [Polls -> [st: {"idle", "finalizing", "refreshing", "returning"},
                            op: Ops \cup {None}, live: BOOLEAN]]
    /\ stale \in BOOLEAN
    /\ token \in {"idle", "sending", "left", "receiving", "refreshing"}

\* Operations of an earlier session may still be pending, and one sat is stored.
Init ==
    /\ app \in Apps
    /\ opened = "opening" /\ online = TRUE
    /\ log = <<1>> /\ reads = <<>> /\ view = 0
    /\ ops \in [Ops -> {"none", "pending"}]
    /\ topup = "idle" /\ invoice = None /\ asking = "no"
    /\ polls = [p \in Polls |-> Idle] /\ stale = FALSE
    /\ token = "idle"

----------------------------------------------------------------------------
(* The provider. *)

\* A read sees the database as it is when the read is requested:
\* entry n of the log.
Read(by, n) == [by |-> by, at |-> n]
HasManager == opened \in {"reading", "open"}

\* Subscriptions to proofs:saved, proofs:deleted and mint-op:finalized: each
\* event of a change calls refreshBalance.
Event == Read("event", Len(log) + 1)

Changed(new, started) ==
    /\ log' = Append(log, new)
    /\ reads' = reads \o started
    /\ UNCHANGED view

\* Which reads init starts.  The registrar asks for the balance only if the
\* mint answered.
registrar_init(on) ==
    IF on THEN opened' = "reading" /\ reads' = Append(reads, Read("init", Len(log)))
          ELSE opened' = "open" /\ UNCHANGED reads

frontend_init(on) ==
    opened' = "reading" /\ reads' = Append(reads, Read("init", Len(log)))

\* createWalletManager resolves; addMint may have failed.
createWalletManager ==
    /\ opened = "opening" /\ UNCHANGED log
    /\ \E on \in BOOLEAN :
        /\ online' = on
        /\ IF app = "registrar" THEN registrar_init(on) ELSE frontend_init(on)
    /\ UNCHANGED <<app, view, ops, page>>

\* The database cannot be opened.
InitFails ==
    /\ opened = "opening" /\ opened' = "failed"
    /\ online' = (app = "registrar")
    /\ UNCHANGED <<app, money, ops, page>>

\* What waits for a read goes on after it, whether it failed or not.
Resume(by) ==
    /\ opened' = IF by = "init" THEN "open" ELSE opened
    /\ polls' = IF by \in Polls THEN [polls EXCEPT ![by].st = "returning"] ELSE polls
    /\ token' = IF by = "receive" /\ token = "refreshing" THEN "idle" ELSE token

\* refreshBalance, and the read of init, after the await: setBalance.  A value
\* that differs gives the context a new value.
refreshBalance ==
    /\ reads # <<>>
    /\ view' = Head(reads).at
    /\ stale' = (stale \/ log[view'] # balance \/ Head(reads).by = "init")
    /\ reads' = Tail(reads)
    /\ Resume(Head(reads).by)
    /\ UNCHANGED <<app, online, log, ops, topup, invoice, asking>>

\* A read fails: the balance that is shown stays, and nobody reads again.  The
\* frontend sets it to 0 when the read of init fails.
ReadFails ==
    /\ reads # <<>>
    /\ view' = IF app = "frontend" /\ Head(reads).by = "init" THEN 0 ELSE view
    /\ stale' = (stale \/ Head(reads).by = "init")
    /\ reads' = Tail(reads)
    /\ Resume(Head(reads).by)
    /\ UNCHANGED <<app, online, log, ops, topup, invoice, asking>>

\* The page renders with the provider's new value: the polling effect, which
\* depends on it, ends (active = false) and starts again.
Render ==
    /\ stale /\ stale' = FALSE
    /\ polls' = [p \in Polls |-> [polls[p] EXCEPT !.live = FALSE]]
    /\ UNCHANGED <<app, opened, online, money, ops, topup, invoice, asking, token>>

----------------------------------------------------------------------------
(* Mint operations, in the background. *)

\* The payer pays an invoice, or lets it lapse.
PayerPays(o) ==
    /\ ops[o] = "pending" /\ ops' = [ops EXCEPT ![o] = "paid"]
    /\ UNCHANGED <<app, opened, online, money, page>>

\* The background processor starts to execute a paid operation:
\* mint-op:quote-state-changed.
OpExecutes(o) ==
    /\ HasManager /\ online /\ ops[o] = "paid"
    /\ ops' = [ops EXCEPT ![o] = "executing"]
    /\ topup' = IF app = "frontend" THEN "minting" ELSE topup
    /\ UNCHANGED <<app, opened, online, money, invoice, asking, polls, stale, token>>

\* The proofs are stored: proofs:saved and mint-op:finalized.
Finalized(o) ==
    /\ ops' = [ops EXCEPT ![o] = "finalized"]
    /\ topup' = IF app = "frontend" THEN "done" ELSE topup

OpFinalizes(o) ==
    /\ HasManager /\ online /\ ops[o] = "executing"
    /\ Finalized(o) /\ Changed(Balance + 1, <<Event, Event>>)
    /\ UNCHANGED <<app, opened, online, invoice, asking, polls, stale, token>>

OpFails(o) ==
    /\ HasManager /\ online /\ ops[o] = "pending"
    /\ ops' = [ops EXCEPT ![o] = "failed"]
    /\ topup' = IF app = "frontend" THEN "error" ELSE topup
    /\ UNCHANGED <<app, opened, online, money, invoice, asking, polls, stale, token>>

----------------------------------------------------------------------------
(* Top-up. *)

\* The registrar shows its page once init is over, however it ended; the
\* frontend shows it unless init failed.
PageShown == opened = "open" \/ (app = "registrar" /\ opened = "failed")

\* The buttons of the two pages.
registrar_can_top_up == topup \notin {"requesting", "waiting"}
frontend_can_top_up == online /\ topup \notin {"requesting", "waiting", "minting"}

\* handleGenerateInvoice of the registrar up to the await of topUp.
handleGenerateInvoice ==
    /\ app = "registrar" /\ PageShown /\ registrar_can_top_up
    /\ asking = "no"
    /\ topup' = "requesting" /\ invoice' = None /\ asking' = "live"
    /\ UNCHANGED <<app, opened, online, money, ops, polls, stale, token>>

\* handleTopUp of the frontend, and topUp of its provider, up to the await.
handleTopUp ==
    /\ app = "frontend" /\ PageShown /\ frontend_can_top_up
    /\ asking = "no"
    /\ topup' = "requesting" /\ invoice' = None /\ asking' = "live"
    /\ UNCHANGED <<app, opened, online, money, ops, polls, stale, token>>

\* The mint returns an invoice.  The registrar's status belongs to the page,
\* the frontend's to the provider; the invoice always belongs to the page.
topUp ==
    /\ asking # "no" /\ HasManager
    /\ \E o \in Ops :
        /\ ops[o] = "none" /\ o = CHOOSE q \in Ops : ops[q] = "none"
        /\ ops' = [ops EXCEPT ![o] = "pending"]
        /\ invoice' = IF asking = "live" THEN o ELSE invoice
    /\ topup' = IF asking = "live" \/ app = "frontend" THEN "waiting" ELSE topup
    /\ asking' = "no"
    /\ UNCHANGED <<app, opened, online, money, polls, stale, token>>

\* The mint refuses, or there is no manager.
TopUpFails ==
    /\ asking # "no"
    /\ topup' = IF asking = "live" \/ app = "frontend" THEN "error" ELSE topup
    /\ asking' = "no"
    /\ UNCHANGED <<app, opened, online, money, ops, invoice, polls, stale, token>>

\* The registrar's button after a paid invoice.
NewTopUp ==
    /\ app = "registrar" /\ topup = "done"
    /\ topup' = "idle" /\ invoice' = None
    /\ UNCHANGED <<app, opened, online, money, ops, asking, polls, stale, token>>

\* The registrar's interval fires while it waits for a payment.
poll(p) ==
    /\ app = "registrar" /\ topup = "waiting" /\ invoice # None
    /\ polls[p].st = "idle" /\ p = CHOOSE q \in Polls : polls[q].st = "idle"
    /\ polls' = [polls EXCEPT ![p] = [st |-> "finalizing", op |-> invoice, live |-> TRUE]]
    /\ UNCHANGED <<app, opened, online, money, ops, topup, invoice, asking, stale, token>>

mutant_check_once(p) ==
    /\ polls[p].st = "finalizing" /\ ops[polls[p].op] = "paid"
    /\ ops' = [ops EXCEPT ![polls[p].op] = "finalized"]
    /\ log' = Append(log, Balance + 1)
    /\ reads' = reads \o <<Event, Event, Read(p, Len(log) + 1)>>
    /\ polls' = [polls EXCEPT ![p].st = "refreshing"]
    /\ UNCHANGED <<app, opened, online, view, topup, invoice, asking, stale, token>>

\* checkTopUpStatus: finalize succeeds, and executes the operation if nobody
\* has; then refreshBalance.
checkTopUpStatus(p) ==
    /\ polls[p].st = "finalizing"
    /\ \/ /\ ops[polls[p].op] = "finalized" /\ reads' = Append(reads, Read(p, Len(log)))
          /\ UNCHANGED <<log, view, ops>>
       \/ /\ ops[polls[p].op] = "paid"
          /\ ops' = [ops EXCEPT ![polls[p].op] = "finalized"]
          /\ log' = Append(log, Balance + 1)
          /\ reads' = reads \o <<Event, Event, Read(p, Len(log) + 1)>>
          /\ UNCHANGED view
    /\ polls' = [polls EXCEPT ![p].st = "refreshing"]
    /\ UNCHANGED <<app, opened, online, topup, invoice, asking, stale, token>>

\* finalize throws: not paid yet, or the mint is away.
CheckFails(p) ==
    /\ polls[p].st = "finalizing"
    /\ polls' = [polls EXCEPT ![p] = Idle]
    /\ UNCHANGED <<app, opened, online, money, ops, topup, invoice, asking, stale, token>>

mutant_poll_returns_anyway(p) ==
    /\ polls[p].st = "returning" /\ UNCHANGED log
    /\ topup' = "done"
    /\ polls' = [q \in Polls |-> IF q = p THEN Idle ELSE [polls[q] EXCEPT !.live = FALSE]]
    /\ reads' = Append(reads, Read("event", Len(log)))
    /\ UNCHANGED <<app, opened, online, view, ops, invoice, asking, stale, token>>

\* The poll learns that the invoice is paid.  If its effect is still active,
\* the status changes, which ends the effect, and the balance is read again.
PollReturns(p) ==
    /\ polls[p].st = "returning" /\ UNCHANGED log
    /\ IF polls[p].live
         THEN /\ topup' = "done"
              /\ polls' = [q \in Polls |-> IF q = p THEN Idle ELSE [polls[q] EXCEPT !.live = FALSE]]
              /\ reads' = Append(reads, Read("event", Len(log)))
         ELSE /\ polls' = [polls EXCEPT ![p] = Idle]
              /\ UNCHANGED <<topup, reads>>
    /\ UNCHANGED <<app, opened, online, view, ops, invoice, asking, stale, token>>

----------------------------------------------------------------------------
(* Sending and receiving tokens. *)

\* The buttons; an amount of 1 stands for all.
registrar_can_send == balance > 0
frontend_can_send == online /\ 1 <= balance

\* handleSend up to the await.
handleSend ==
    /\ PageShown /\ token = "idle" /\ Len(log) <= MaxChanges
    /\ IF app = "registrar" THEN registrar_can_send ELSE frontend_can_send
    /\ token' = "sending"
    /\ UNCHANGED <<app, opened, online, money, ops, topup, invoice, asking, polls, stale>>

mutant_send_unnoticed ==
    /\ token \in {"sending", "left"} /\ HasManager /\ Balance > 0
    /\ Len(log) <= MaxChanges
    /\ Changed(Balance - 1, <<>>)
    /\ token' = "idle"
    /\ UNCHANGED <<app, opened, online, ops, topup, invoice, asking, polls, stale>>

\* sendTokens resolves: the proofs are gone (proofs:deleted).  The token is
\* shown, unless the page was left: then nobody sees it.
sendTokens ==
    /\ token \in {"sending", "left"} /\ HasManager /\ Balance > 0
    /\ Len(log) <= MaxChanges
    /\ Changed(Balance - 1, <<Event>>)
    /\ token' = "idle"
    /\ UNCHANGED <<app, opened, online, ops, topup, invoice, asking, polls, stale>>

\* handleReceive up to the await; the frontend needs the mint.
handleReceive ==
    /\ PageShown /\ token = "idle" /\ Len(log) <= MaxChanges
    /\ app = "frontend" => online
    /\ token' = "receiving"
    /\ UNCHANGED <<app, opened, online, money, ops, topup, invoice, asking, polls, stale>>

\* The token is redeemed (proofs:saved).  The registrar's receiveTokens waits
\* for refreshBalance before it returns.
receiveTokens ==
    /\ token = "receiving" /\ HasManager
    /\ Len(log) <= MaxChanges
    /\ log' = Append(log, Balance + 1)
    /\ IF app = "registrar"
         THEN reads' = reads \o <<Event, Read("receive", Len(log) + 1)>> /\ token' = "refreshing"
         ELSE reads' = Append(reads, Event) /\ token' = "idle"
    /\ UNCHANGED <<app, opened, online, view, ops, topup, invoice, asking, polls, stale>>

\* The mint refuses, or there is no manager.
TokenFails ==
    /\ token \in {"sending", "left", "receiving"} /\ token' = "idle"
    /\ UNCHANGED <<app, opened, online, money, ops, topup, invoice, asking, polls, stale>>

----------------------------------------------------------------------------
\* The user leaves the page and comes back: the state of the page starts anew,
\* its calls go on, and what they return is dropped.
LeavePage ==
    /\ PageShown
    /\ token' = IF token = "sending" THEN "left" ELSE token
    /\ invoice' = None
    /\ asking' = IF asking = "live" THEN "left" ELSE asking
    /\ topup' = IF app = "registrar" THEN "idle" ELSE topup
    /\ polls' = [p \in Polls |-> [polls[p] EXCEPT !.live = FALSE]]
    /\ UNCHANGED <<app, opened, online, money, ops, stale>>

Provider == createWalletManager \/ InitFails \/ refreshBalance \/ ReadFails \/ Render
Mint == \E o \in Ops : PayerPays(o) \/ OpExecutes(o) \/ OpFinalizes(o) \/ OpFails(o)
TopUpPage ==
    \/ handleGenerateInvoice \/ handleTopUp \/ topUp \/ TopUpFails \/ NewTopUp
    \/ \E p \in Polls : poll(p) \/ checkTopUpStatus(p) \/ CheckFails(p) \/ PollReturns(p)
TokenPage == handleSend \/ sendTokens \/ handleReceive \/ receiveTokens \/ TokenFails

Next == Provider \/ Mint \/ TopUpPage \/ TokenPage \/ LeavePage

Spec == Init /\ [][Next]_vars

\* The browser runs what can run, the database answers, calls to the mint end,
\* the interval goes on firing, and finalize of a paid operation does not throw
\* for ever.
FairSpec ==
    /\ Spec
    /\ WF_vars(createWalletManager \/ InitFails)
    /\ WF_vars(refreshBalance \/ ReadFails) /\ WF_vars(Render)
    /\ \A o \in Ops : WF_vars(OpFinalizes(o))
    /\ WF_vars(\E p \in Polls : poll(p))
    /\ WF_vars(\E p \in Polls : PollReturns(p) \/ CheckFails(p))
    /\ SF_vars(\E p \in Polls : checkTopUpStatus(p))

----------------------------------------------------------------------------
(* Properties. *)

\* The registrar says "Invoice paid" only of an invoice that was paid and
\* minted, although checks of an earlier invoice, or of the same one in an
\* earlier effect, may return late (pages/Wallet.tsx, `paid && active`).
PaidIsFinalized ==
    app = "registrar" /\ topup = "done" => invoice # None /\ ops[invoice] = "finalized"

\* A step after which no read is in flight leaves the wallet's balance on the
\* page, whoever changed it last: the reads that events start are enough, and
\* none is overtaken (WalletContext.tsx).  Excepted is the failure of the last
\* read ("non-fatal"): then what was shown stays, right or wrong, until another
\* change starts another read.
ShownIsCurrent ==
    [][reads' = <<>> =>
        \/ balance' = Balance'
        \/ reads # <<>> /\ ReadFails
        \/ reads = <<>> /\ UNCHANGED <<log, view>>]_vars

\* An invoice that is paid while the registrar's page waits for it is shown as
\* paid, unless the user leaves: although the check that mints it changes the
\* balance, which ends the effect that started the check.
PaidIsShown ==
    \A o \in Ops :
        (app = "registrar" /\ topup = "waiting" /\ invoice = o /\ ops[o] \in {"paid", "finalized"})
            ~> (invoice # o \/ topup = "done")
=============================================================================
