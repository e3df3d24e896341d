---------------------------- MODULE NameService ----------------------------
(***************************************************************************)
(* What the bot promises of the names of a zone: who is entered in the     *)
(* book of names and until when, and whose record is served, without the   *)
(* events, the DMs and the tasks that bring it about.  Registry implements *)
(* it: what its tasks check some steps before they write, or on a snapshot *)
(* of the table, holds here at the very step.                              *)
(***************************************************************************)
EXTENDS Integers

CONSTANTS Names, Principals, Registrar, Nobody, Grace, MaxLease, OperatorExpiry

VARIABLES
    clock,
    book,     \* book[n]: who has the name, until when, and whether the lease still runs
    served,   \* served[f]: whose record is served at a name, or at the name of a key
    granted,  \* who was ever given which name
    sold,     \* names that were sold
    lapsed,   \* names of which a lease has ended
    overdue   \* names of which a lease has ended, and its grace

nameVars == <<clock, book, served, granted, sold, lapsed, overdue>>

NameInit ==
    /\ clock = 0
    /\ book = [n \in Names |-> [holder |-> Registrar, until |-> 0, status |-> "none"]]
    /\ served = [f \in Names \cup Principals |-> Nobody]
    /\ granted = {} /\ sold = {} /\ lapsed = {} /\ overdue = {}

\* The leases that have ended after a step, and those whose grace has.
Remember ==
    /\ lapsed' = lapsed \cup {n \in Names : book'[n].status # "none" /\ book'[n].until <= clock'}
    /\ overdue' = overdue \cup {n \in Names : book'[n].status # "none" /\ book'[n].until + Grace <= clock'}

PassTime == clock' = clock + 1 /\ UNCHANGED <<book, served, granted, sold>>

\* An event says that u shall have n: the registrar's, or a lease event of any key.
Sign(n, u) ==
    /\ granted' = granted \cup {<<n, u>>}
    /\ UNCHANGED <<clock, book, served, sold>>

\* Only n's entry changes: to this holder and status.
Becomes(n, holder, status) ==
    book' = [book EXCEPT ![n] = [holder |-> holder, until |-> book'[n].until, status |-> status]]

\* A name is sold to u from now on, again only after a lease of it has ended.
Sell(n, u) ==
    /\ n \in sold => n \in lapsed
    /\ Becomes(n, u, "active") /\ book'[n].until \in clock + 1 .. clock + MaxLease
    /\ granted' = granted \cup {<<n, u>>} /\ sold' = sold \cup {n}
    /\ UNCHANGED <<clock, served>>

\* Somebody who was granted the name is entered.
Enter(n, u) ==
    /\ <<n, u>> \in granted
    /\ Becomes(n, u, "active")
    /\ UNCHANGED <<clock, served, granted, sold>>

\* A renewal is for whoever has the name, and not beyond the operator's own lease.
Renew(n) ==
    /\ book[n].status # "none"
    /\ Becomes(n, book[n].holder, "active") /\ book'[n].until <= OperatorExpiry
    /\ UNCHANGED <<clock, served, granted, sold>>

EnterGrace(n) ==
    /\ book[n].status = "active" /\ n \in lapsed
    /\ book' = [book EXCEPT ![n].status = "grace"]
    /\ UNCHANGED <<clock, served, granted, sold>>

Expire(n) ==
    /\ book[n].status \in {"active", "grace"} /\ n \in overdue
    /\ book' = [book EXCEPT ![n].status = "expired"]
    /\ UNCHANGED <<clock, served, granted, sold>>

\* A key has the name that it is, and those it was granted.
MayServe(f, u) == f = u \/ <<f, u>> \in granted

Serve(f, u) ==
    /\ MayServe(f, u)
    /\ served' = [served EXCEPT ![f] = u]
    /\ UNCHANGED <<clock, book, granted, sold>>

\* A record is withdrawn by a key that may serve one, or because a lease is overdue.
Withdraw(f) ==
    /\ f \in overdue \/ \E u \in Principals : MayServe(f, u)
    /\ served' = [served EXCEPT ![f] = Nobody]
    /\ UNCHANGED <<clock, book, granted, sold>>

NameNext ==
    /\ Remember
    /\ \/ PassTime
       \/ \E n \in Names : \/ \E u \in Principals : Sign(n, u) \/ Sell(n, u) \/ Enter(n, u)
                           \/ Renew(n) \/ EnterGrace(n) \/ Expire(n)
       \/ \E f \in Names \cup Principals : Withdraw(f) \/ \E u \in Principals : Serve(f, u)

NameSpec == NameInit /\ [][NameNext]_nameVars
=============================================================================
