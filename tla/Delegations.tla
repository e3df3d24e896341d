---------------------------- MODULE Delegations ----------------------------
(***************************************************************************)
(* The delegations table of the bot's SQLite store                         *)
(* (nodns-bot-rs/src/store.rs) for one zone, and the checks the other      *)
(* components make on its rows.  A table is a function from the zone's     *)
(* names to rows; the primary key (domain, zone) makes it a function.      *)
(* Every operator below is one SQL statement, or one check on the row that *)
(* a statement returned.  The statements run one at a time: the connection *)
(* is behind a mutex that each store method takes and releases.            *)
(*                                                                         *)
(* Left out of a row: event_id, registrar_pubkey and renew_by, which are   *)
(* stored and displayed but which no check reads.                          *)
(***************************************************************************)
EXTENDS Integers

CONSTANTS
    Names,           \* the custom names of the zone
    Users,           \* the holders of Nostr keys, other than the registrar
    Registrar,       \* the zone's registrar key (registrar.nsec_hex)
    Grace,           \* lease.grace_period_days
    MaxLease,        \* lease.max_lease_days
    OperatorExpiry,  \* lease.operator_lease_expires, as a point in time
    CreatePrice      \* payment.create_price

ASSUME DelegationAssumption ==
    /\ Registrar \notin Users
    /\ Grace \in Nat
    /\ MaxLease \in Nat \ {0}
    /\ OperatorExpiry \in Nat
    /\ CreatePrice \in Nat \ {0}

Principals == Users \cup {Registrar}

Statuses == {"none", "active", "grace", "expired"}

Row == [ npub        : Principals,   \* who holds the name
         pubkey      : Principals,   \* whose signature a renewal needs
         valid_from  : Nat,
         valid_until : Nat,
         price       : Nat,          \* renewal_price, 0 when not locked
         created_at  : Nat,          \* when the row was written
         status      : Statuses ]

\* A name that has no row in the table.
NoRow == [ npub |-> Registrar, pubkey |-> Registrar, valid_from |-> 0,
           valid_until |-> 0, price |-> 0, created_at |-> 0,
           status |-> "none" ]

Table == [Names -> Row]

-----------------------------------------------------------------------------
(* Statements that write. *)

\* INSERT OR REPLACE: the new row takes the place of whatever was there.
save_delegation_with_price(t, n, npub, pubkey, from, until, price, now) ==
    [t EXCEPT ![n] = [ npub |-> npub, pubkey |-> pubkey, valid_from |-> from,
                       valid_until |-> until, price |-> price,
                       created_at |-> now, status |-> "active" ]]

\* The form without a price stores renewal_price 0.
save_delegation(t, n, npub, pubkey, from, until, now) ==
    save_delegation_with_price(t, n, npub, pubkey, from, until, 0, now)

\* UPDATE ... WHERE domain AND zone: whatever row is there now is renewed.
renew_delegation(t, n, until) ==
    IF t[n].status = "none" THEN t
    ELSE [t EXCEPT ![n].valid_until = until, ![n].status = "active"]

\* Mutant: the status is written in a form the other queries do not know.
mutant_grace_spelling(t, n) ==
    IF t[n].status = "active" THEN [t EXCEPT ![n].status = "Grace"] ELSE t

mark_delegation_grace(t, n) ==
    IF t[n].status = "active" THEN [t EXCEPT ![n].status = "grace"] ELSE t

mark_delegation_expired(t, n) ==
    IF t[n].status \in {"active", "grace"}
    THEN [t EXCEPT ![n].status = "expired"] ELSE t

-----------------------------------------------------------------------------
(* Queries and checks. *)

\* Mutant: only the status is looked at, and an active row not at all.
mutant_available_unless_grace(t, n, now) == t[n].status # "grace"

\* A name is taken while it has an active row that still runs, or a grace row.
is_name_available(t, n, now) ==
    /\ ~ (t[n].status = "active" /\ t[n].valid_until > now)
    /\ t[n].status # "grace"

\* Mutant: the date is not compared.
mutant_past_any(t, now) == { n \in Names : t[n].status \in {"active", "grace"} }

\* Mutant: rows that are in grace already are not looked at again.
mutant_past_only_active(t, now) ==
    { n \in Names : t[n].status = "active" /\ t[n].valid_until <= now }

get_delegations_past_valid_until(t, now) ==
    { n \in Names : /\ t[n].status \in {"active", "grace"}
                    /\ t[n].valid_until <= now }

\* The names for which u holds a running active row.
get_delegations_by_pubkey(t, u, now) ==
    { n \in Names : /\ t[n].status = "active"
                    /\ t[n].npub = u
                    /\ t[n].valid_from <= now
                    /\ t[n].valid_until > now }

\* Authority over a custom name: looks at the status and the holder, not at
\* the dates.  (A name npub1... is granted to its own key by comparison.)
check_authority(t, f, u) ==
    IF f \in Names THEN t[f].status = "active" /\ t[f].npub = u ELSE f = u

is_registrar(k) == k = Registrar

\* Mutant: whoever signs a delegation gives it.
mutant_delegation_by_anyone(e, now) ==
    e.valid_from <= now /\ e.valid_until > now /\ e.valid_until > e.valid_from

validate_delegation(e, now) ==
    /\ e.valid_from <= now
    /\ e.valid_until > now
    /\ e.valid_until > e.valid_from
    /\ is_registrar(e.signer)

\* Mutant: anyone may claim a free name.
mutant_claim_by_anyone(t, e, now) ==
    /\ e.valid_until > now
    /\ e.valid_until <= OperatorExpiry
    /\ is_name_available(t, e.name, now)

\* Conditions under which process_claim goes on to save (the zone is
\* configured and the name is not an npub).
claim_accepted(t, e, now) ==
    /\ is_registrar(e.signer)
    /\ e.valid_until > now
    /\ e.valid_until <= OperatorExpiry
    /\ is_name_available(t, e.name, now)

grace_deadline(row) == row.valid_until + Grace

larger(a, b) == IF a >= b THEN a ELSE b

\* Conditions under which process_renewal goes on to renew.  The deadline is
\* compared with the event's own created_at.
renewal_accepted(t, e) ==
    LET row == t[e.name] IN
    /\ row.status # "none"
    /\ row.pubkey = e.signer
    /\ e.created_at < grace_deadline(row)
    /\ e.valid_until > row.valid_until
    /\ e.valid_until <= larger(row.valid_until + MaxLease, e.created_at + MaxLease)
    /\ e.valid_until <= OperatorExpiry
=============================================================================
