---------------------------- MODULE CertRequest ----------------------------
(***************************************************************************)
(* The certificate panel of the dashboard (components/cert-request.tsx,    *)
(* lib/api.ts, lib/tls-derivation.ts) with the dashboard around it and the *)
(* bot's order service.                                                    *)
(*                                                                         *)
(* The panel is enabled by a pipeline that has succeeded, and starts anew  *)
(* for another key.  It derives the certificate's key from the user's key  *)
(* and sends a CSR; where that fails the bot generates the key and hands   *)
(* it out with the first answer that has it.  It polls the order every 3 s *)
(* without waiting for the answer before, and shows what arrives last.     *)
(***************************************************************************)
EXTENDS Dashboard

CONSTANTS
    Orders,   \* order ids
    Crypto    \* how far the browser's WebCrypto gets with each user key

ASSUME CertAssumption ==
    None \notin Orders /\ Crypto \in [Keys -> {"csr", "key", "none"}]

VARIABLES
    outcome, generates, held, taken,  \* the service: see OrderService
    csrOf,    \* the key that each order's CSR was made with, if it had one
    panel,    \* the panel
    post,     \* the request for a certificate in flight
    answers,  \* answers to polls in flight
    astray    \* history: an answer was lost, or reached another order's panel

service == <<outcome, generates, held, taken>>
child == <<panel, post, answers, astray>>
vars == <<dashVars, service, csrOf, child>>

\* A bot that may lose its keys at a restart does all that one does that keeps them.
Bot == INSTANCE OrderService WITH durable <- FALSE

NoPost == [st |-> "none", order |-> None, csr |-> None, here |-> FALSE]
Nothing == [order |-> None, st |-> "none", key |-> None]
NoPanel == [order |-> None, shown |-> Nothing, loading |-> FALSE, error |-> FALSE,
            derived |-> None, derivationError |-> FALSE]

\* An answer, with the key that the bot generated for the order, if it has it.
Answers == [order: Orders, st: {"open", "issued", "failed"},
            key: Orders \cup {None}]

TypeOK ==
    /\ DashTypeOK /\ Bot!ServiceTypeOK
    /\ csrOf \in [Orders -> Keys \cup {None}]
    /\ panel \in [order: Orders \cup {None}, shown: Answers \cup {Nothing},
                  loading: BOOLEAN, error: BOOLEAN,
                  derived: Keys \cup {None}, derivationError: BOOLEAN]
    /\ post \in [st: {"none", "sent", "accepted"}, order: Orders \cup {None},
                 csr: Keys \cup {None}, here: BOOLEAN]
    /\ answers \subseteq Answers
    /\ astray \in BOOLEAN

Init ==
    /\ DashInit /\ Bot!ServiceInit
    /\ csrOf = [o \in Orders |-> None]
    /\ panel = NoPanel /\ post = NoPost /\ answers = {} /\ astray = FALSE

----------------------------------------------------------------------------
Settled == {"issued", "failed"}

mutant_may_request == status = "success" /\ key # None

\* The sections of the panel, of which a late answer can bring up two at once.
ShowsButton == panel.order = None /\ ~panel.error
ShowsIssued == panel.shown.st = "issued"
ShowsFailed == panel.shown.st = "failed"

\* The button is there, and not disabled.
may_request == ShowsButton /\ status = "success" /\ key # None /\ ~panel.loading

\* The certificate's key, which a user's key determines, and the CSR made with
\* it.  The derived key is kept also where the CSR fails.
generateTlsKeyPair(k) == IF Crypto[k] = "none" THEN None ELSE k
generateCsr(k) == IF Crypto[k] = "csr" THEN k ELSE None

\* The request goes out.  (One whose panel is gone may still be under way: the
\* bound is one at a time.)
handleRequest ==
    /\ Click /\ may_request /\ post = NoPost
    /\ panel' = [NoPanel EXCEPT !.loading = TRUE, !.derived = generateTlsKeyPair(key),
                               !.derivationError = generateCsr(key) = None]
    /\ post' = [NoPost EXCEPT !.st = "sent", !.csr = generateCsr(key), !.here = TRUE]
    /\ UNCHANGED <<queue, pipeline, world, history, service, csrOf, answers, astray>>

\* A UUID that was not given to an order yet.
NewOrder == CHOOSE o \in Orders : outcome[o] = "none"

BotAccepts(o) ==
    /\ post.st = "sent" /\ Bot!Accept(o, post.csr # None) /\ o = NewOrder
    /\ csrOf' = [csrOf EXCEPT ![o] = post.csr]
    /\ post' = [post EXCEPT !.st = "accepted", !.order = o]
    /\ UNCHANGED <<dashVars, panel, answers, astray>>

\* The order id arrives, and polling begins.
requestCertificate ==
    /\ post.st = "accepted" /\ post' = NoPost
    /\ panel' = IF post.here
         THEN [panel EXCEPT !.order = post.order, !.loading = FALSE,
                            !.shown = [order |-> post.order, st |-> "open", key |-> None]]
         ELSE panel
    /\ UNCHANGED <<dashVars, service, csrOf, answers, astray>>

\* The bot refuses, or an answer does not arrive within 30 s (safeFetch).
safeFetchThrows ==
    /\ post.st # "none" /\ post' = NoPost
    /\ panel' = IF post.here THEN [panel EXCEPT !.error = TRUE, !.loading = FALSE] ELSE panel
    /\ astray' = (astray \/ post.st = "accepted")
    /\ UNCHANGED <<dashVars, service, csrOf, answers>>

mutant_Polling == panel.order # None /\ panel.shown.st \notin Settled /\ panel.shown.key = None

\* The interval runs while an order is shown that is not settled.
Polling == panel.order # None /\ panel.shown.st \notin Settled

\* A poll reaches the bot, which reads the order, with its key if it has it.
getCertificateOrder ==
    /\ Polling /\ Cardinality(answers) < MaxPolls
    /\ LET o == panel.order IN
         /\ answers' = answers \cup {[order |-> o, st |-> outcome[o],
                                    key |-> IF o \in held THEN o ELSE None]}
         /\ IF o \in held THEN Bot!TakeKey(o) ELSE UNCHANGED service
    /\ UNCHANGED <<dashVars, csrOf, panel, post, astray>>

\* setOrderStatus, whatever the panel shows by now.
PollArrives(a) ==
    /\ a \in answers /\ answers' = answers \ {a}
    /\ panel' = [panel EXCEPT !.shown = a]
    /\ astray' = (astray \/ a.order # panel.order)
    /\ UNCHANGED <<dashVars, service, csrOf, post>>

PollThrows(a) ==
    /\ a \in answers /\ answers' = answers \ {a}
    /\ UNCHANGED <<dashVars, service, csrOf, panel, post, astray>>

\* "Try Again" and "Request New Certificate".
handleReset ==
    /\ (panel.error \/ ShowsIssued \/ ShowsFailed)
    /\ panel' = [NoPanel EXCEPT !.loading = panel.loading]
    /\ UNCHANGED <<dashVars, service, csrOf, post, answers, astray>>

\* Mutant: the panel is the same one for every key.
mutant_Remount == KeyChange /\ UNCHANGED <<service, csrOf, child>>

\* Another key: the panel is another one (key={fullDomain}), and what the old
\* one waits for is dropped.
Remount ==
    /\ KeyChange
    /\ panel' = NoPanel /\ answers' = {} /\ post' = [post EXCEPT !.here = FALSE]
    /\ astray' = (astray \/ post # NoPost \/ panel.order # None)
    /\ UNCHANGED <<service, csrOf>>

\* The private key the panel offers with a certificate, and the one it needs: a
\* derived key is named by the user's key, a generated one by its order.
effectivePrivateKeyPem ==
    IF panel.derived # None THEN panel.derived ELSE panel.shown.key
keyOf(o) == IF o \in generates THEN o ELSE csrOf[o]

BotWorks(o) ==
    /\ Bot!KeepKey(o) \/ Bot!Issue(o) \/ Bot!Fail(o) \/ Bot!ClearKey(o)
    /\ UNCHANGED <<dashVars, csrOf, child>>

BotRestarts == Bot!LoseKeys /\ UNCHANGED <<dashVars, csrOf, child>>

Next ==
    \/ KeyStays /\ UNCHANGED <<service, csrOf, child>>
    \/ Remount
    \/ handleRequest \/ requestCertificate \/ safeFetchThrows
    \/ getCertificateOrder \/ (\E a \in answers : PollArrives(a) \/ PollThrows(a)) \/ handleReset
    \/ (\E o \in Orders : BotAccepts(o) \/ BotWorks(o)) \/ BotRestarts

Spec == Init /\ [][Next]_vars

\* The interval fires, and not every poll is lost.
FairSpec ==
    /\ Spec
    /\ DashFairness
    /\ WF_vars(getCertificateOrder)
    /\ SF_vars(\E a \in answers : PollArrives(a))

----------------------------------------------------------------------------
(* Properties. *)

\* The derived key is there and the CSR failed: "Falling back to server-generated
\* key", yet the panel keeps the derived one (setDerivedPrivateKeyPem).
DerivedInVain == panel.derived # None /\ panel.derivationError

\* The private key that is offered with a certificate belongs to it, in every
\* order in which requests, resets, changes of the user's key and answers to old
\* polls come: another key's derived one is not, nor another order's.  The one
\* exception is a request whose CSR failed after its key was derived.
KeyFits ==
    ShowsIssued /\ ~DerivedInVain
        => effectivePrivateKeyPem \in {None, keyOf(panel.shown.order)}

\* A name has one order open at the bot, as two would replace each other's
\* challenge, unless an answer was lost or reached another order's panel.
OneOpenOrder == ~astray => Cardinality({o \in Orders : outcome[o] = "open"}) <= 1

\* What became of the order the panel polls is shown, or the outcome of one
\* before: no lost, late or overtaken answer leaves the panel waiting.
OutcomeIsShown ==
    (panel.order # None /\ outcome[panel.order] \in Settled)
        ~> (panel.order = None \/ panel.shown.st \in Settled)

\* "Your private key is generated by the bot and returned to you.  The bot does
\* not retain it after delivery.": with an issued certificate its key is shown.
KeyReturned ==
    LET a == panel.shown IN
    a.st = "issued" /\ a.order \in generates /\ panel.order = a.order => a.key # None
=============================================================================
