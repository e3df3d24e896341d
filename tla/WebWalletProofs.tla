-------------------------- MODULE WebWalletProofs --------------------------
(***************************************************************************)
(* Proofs about WebWallet, for every number of mint operations, polls and  *)
(* changes of the balance.                                                 *)
(***************************************************************************)
EXTENDS WebWallet, SequenceTheorems, TLAPS

Reader == {"init", "event", "receive"} \cup Polls
Reads == [by: Reader, at: Nat]

\* The reads r in flight over a log of n entries, while the page shows entry v
\* and the polls in W wait for a read: the read of init comes first, each
\* waiting poll has one at most, and the last read is of the last entry.
ReadsOK(r, n, v, W) ==
    /\ r \in Seq(Reads)
    /\ \A i \in 1..Len(r) :
         /\ r[i].at \in 1..n
         /\ r[i].by = "init" => i = 1 /\ v = 0
         /\ r[i].by \in Polls => r[i].by \in W
    /\ \A i, j \in 1..Len(r) : r[i].by \in Polls /\ r[i].by = r[j].by => i = j
    /\ r # <<>> => r[Len(r)].at = n

\* Reads t of entry m that are started together, by events, by a received token,
\* or by a poll that waits for its read from then on.
Started(t, m, W, V) ==
    /\ t \in Seq(Reads) /\ Len(t) > 0 /\ W \subseteq V /\ m > 0
    /\ \A i \in 1..Len(t) : /\ t[i].at = m /\ t[i].by # "init"
                            /\ t[i].by \in Polls => t[i].by \in V \ W
    /\ \A i, j \in 1..Len(t) : t[i].by \in Polls /\ t[i].by = t[j].by => i = j

LEMMA ReadsStart ==
    ASSUME NEW r, NEW n \in Nat, NEW v, NEW W, NEW m \in {n, n + 1}, NEW V, NEW t,
           ReadsOK(r, n, v, W), Started(t, m, W, V)
    PROVE  ReadsOK(r \o t, m, v, V)
<1>0. /\ t \in Seq(Reads) /\ Len(t) > 0 /\ W \subseteq V /\ m > 0
      /\ \A i \in 1..Len(t) : /\ t[i].at = m /\ t[i].by # "init"
                              /\ t[i].by \in Polls => t[i].by \in V \ W
      /\ \A i, j \in 1..Len(t) : t[i].by \in Polls /\ t[i].by = t[j].by => i = j
  BY DEF Started
<1> USE <1>0
<1>1. r \in Seq(Reads) /\ Len(r) \in Nat /\ Len(t) \in Nat
  BY LenProperties DEF ReadsOK
<1> DEFINE s == r \o t
<1>2. /\ s \in Seq(Reads) /\ Len(s) = Len(r) + Len(t)
      /\ \A i \in 1..Len(r) + Len(t) : s[i] = IF i <= Len(r) THEN r[i] ELSE t[i - Len(r)]
  BY <1>1, ConcatProperties
<1> HIDE DEF s
<1>3. \A i \in 1..Len(s) : \/ i \in 1..Len(r) /\ s[i] = r[i]
                           \/ i - Len(r) \in 1..Len(t) /\ s[i] = t[i - Len(r)] /\ i > Len(r)
  <2> SUFFICES ASSUME NEW i \in 1..Len(s)
               PROVE  \/ i \in 1..Len(r) /\ s[i] = r[i]
                      \/ i - Len(r) \in 1..Len(t) /\ s[i] = t[i - Len(r)] /\ i > Len(r)
    OBVIOUS
  <2>1. i \in Int /\ 1 <= i /\ i <= Len(r) + Len(t)
    BY <1>1, <1>2
  <2>2. CASE i <= Len(r)
    BY <1>1, <1>2, <2>1, <2>2
  <2>3. CASE ~(i <= Len(r))
    <3>1. i > Len(r) /\ i - Len(r) \in 1..Len(t)
      BY <1>1, <2>1, <2>3
    <3> QED BY <1>2, <2>3, <3>1
  <2> QED BY <2>2, <2>3
<1>4. ASSUME NEW i \in 1..Len(s)
      PROVE  /\ s[i].at \in 1..m
             /\ s[i].by = "init" => i = 1 /\ v = 0
             /\ s[i].by \in Polls => s[i].by \in V
  <2>1. CASE i \in 1..Len(r) /\ s[i] = r[i]
    BY <2>1 DEF ReadsOK
  <2>2. CASE i - Len(r) \in 1..Len(t) /\ s[i] = t[i - Len(r)]
    BY <2>2
  <2> QED BY <1>3, <2>1, <2>2
<1>5. ASSUME NEW i \in 1..Len(s), NEW j \in 1..Len(s), s[i].by \in Polls, s[i].by = s[j].by
      PROVE  i = j
  <2>1. CASE i \in 1..Len(r) /\ s[i] = r[i] /\ j \in 1..Len(r) /\ s[j] = r[j]
    BY <1>5, <2>1 DEF ReadsOK
  <2>2. CASE i \in 1..Len(r) /\ s[i] = r[i] /\ j - Len(r) \in 1..Len(t) /\ s[j] = t[j - Len(r)]
    BY <1>5, <2>2 DEF ReadsOK
  <2>3. CASE j \in 1..Len(r) /\ s[j] = r[j] /\ i - Len(r) \in 1..Len(t) /\ s[i] = t[i - Len(r)]
    BY <1>5, <2>3 DEF ReadsOK
  <2>4. CASE /\ i - Len(r) \in 1..Len(t) /\ s[i] = t[i - Len(r)]
             /\ j - Len(r) \in 1..Len(t) /\ s[j] = t[j - Len(r)]
    <3>1. i - Len(r) = j - Len(r)
      BY <1>5, <2>4
    <3> QED BY <1>1, <3>1
  <2> QED BY <1>3, <2>1, <2>2, <2>3, <2>4
<1>6. s # <<>> /\ s[Len(s)].at = m
  <2>1. Len(s) > 0 /\ Len(s) > Len(r) /\ Len(s) \in 1..Len(r) + Len(t) /\ Len(s) - Len(r) = Len(t)
    BY <1>1, <1>2
  <2>2. s[Len(s)] = t[Len(t)]
    BY <1>1, <1>2, <2>1
  <2>3. Len(t) \in 1..Len(t)
    BY <1>1
  <2>4. s # <<>>
    BY <2>1, EmptySeq
  <2> QED BY <2>2, <2>3, <2>4
<1>7. ReadsOK(s, m, v, V)
  BY <1>2, <1>4, <1>5, <1>6 DEF ReadsOK
<1> QED BY <1>7 DEF s

\* The oldest read is answered, or fails.
LEMMA ReadEnds ==
    ASSUME NEW r, NEW n \in Nat, NEW v, NEW W, NEW w,
           ReadsOK(r, n, v, W), r # <<>>
    PROVE  /\ ReadsOK(Tail(r), n, w, W \ {Head(r).by})
           /\ Tail(r) = <<>> => Head(r).at = n
           /\ Head(r) \in Reads /\ Head(r).at \in 1..n
           /\ Head(r).by = "init" => v = 0
           /\ Head(r).by \in Polls => Head(r).by \in W
<1>1. /\ r \in Seq(Reads) /\ Len(r) \in Nat \ {0} /\ Head(r) = r[1]
      /\ Tail(r) \in Seq(Reads) /\ Len(Tail(r)) = Len(r) - 1 /\ Head(r) \in Reads
      /\ \A i \in 1..Len(Tail(r)) : Tail(r)[i] = r[i + 1]
  <2>1. r \in Seq(Reads)
    BY DEF ReadsOK
  <2> QED BY <2>1, HeadTailProperties, EmptySeq, LenProperties
<1> DEFINE s == Tail(r)
<1>2. \A i \in 1..Len(s) : i + 1 \in 1..Len(r) /\ s[i] = r[i + 1] /\ i + 1 # 1
  BY <1>1
<1>3. 1 \in 1..Len(r)
  BY <1>1
<1>4. /\ Head(r).at \in 1..n /\ (Head(r).by = "init" => v = 0)
      /\ Head(r).by \in Polls => Head(r).by \in W
  BY <1>1, <1>3 DEF ReadsOK
<1> HIDE DEF s
<1>5. ASSUME NEW i \in 1..Len(s)
      PROVE  /\ s[i].at \in 1..n
             /\ s[i].by # "init"
             /\ s[i].by \in Polls => s[i].by \in W \ {Head(r).by}
  BY <1>1, <1>2, <1>3 DEF ReadsOK
<1>6. ASSUME NEW i \in 1..Len(s), NEW j \in 1..Len(s), s[i].by \in Polls, s[i].by = s[j].by
      PROVE  i = j
  <2>1. i + 1 = j + 1
    BY <1>2, <1>6 DEF ReadsOK
  <2> QED BY <2>1
<1>7. (s = <<>> => Head(r).at = n) /\ (s # <<>> => s[Len(s)].at = n)
  <2>1. CASE s = <<>>
    <3>1. Len(r) = 1
      BY <1>1, <2>1, EmptySeq DEF s
    <3>2. r[1].at = n
      BY <3>1 DEF ReadsOK
    <3> QED BY <1>1, <2>1, <3>2
  <2>2. CASE s # <<>>
    <3>1. Len(s) \in 1..Len(s) /\ Len(s) + 1 = Len(r)
      BY <1>1, <2>2, EmptySeq DEF s
    <3> QED BY <1>2, <2>2, <3>1 DEF ReadsOK
  <2> QED BY <2>1, <2>2
<1>8. ReadsOK(s, n, w, W \ {Head(r).by})
  BY <1>1, <1>5, <1>6, <1>7 DEF ReadsOK, s
<1> QED BY <1>1, <1>4, <1>7, <1>8 DEF s

----------------------------------------------------------------------------
(* The invariant. *)

\* The polls that wait for the read they started.
Waiting == {p \in Polls : polls[p].st = "refreshing"}

ReadsInv ==
    /\ ReadsOK(reads, Len(log), view, Waiting)
    /\ opened = "opening" => reads = <<>> /\ view = 0

\* A poll past its finalize is of a finalized operation; a live one is of the
\* invoice the registrar's page waits for; a call for an invoice whose page is
\* there is what the page waits for; and a paid invoice is a finalized one.
PollInv ==
    /\ \A p \in Polls :
         /\ polls[p].st # "idle" => HasManager /\ polls[p].op \in Ops
         /\ polls[p].st \in {"refreshing", "returning"} => ops[polls[p].op] = "finalized"
         /\ polls[p].live => app = "registrar" /\ topup = "waiting" /\ invoice = polls[p].op
    /\ topup = "waiting" => HasManager
    /\ app = "registrar" /\ asking = "live" => topup = "requesting"
    /\ app = "registrar" /\ topup = "done" => invoice \in Ops /\ ops[invoice] = "finalized"

WalletInv == TypeOK /\ ReadsInv /\ PollInv

PollRec == [st: {"idle", "finalizing", "refreshing", "returning"}, op: Ops \cup {None}, live: BOOLEAN]

LEMMA IdlePoll == Idle \in PollRec /\ Idle.st = "idle" /\ ~Idle.live
BY DEF Idle, PollRec

\* The log and what is appended to it.
LEMMA LogGrows ==
    ASSUME WalletInv
    PROVE  /\ Len(log) \in Nat \ {0} /\ Balance \in Nat
           /\ \A x \in Nat : /\ Append(log, x) \in Seq(Nat) /\ Append(log, x) # <<>>
                             /\ Len(Append(log, x)) = Len(log) + 1
           /\ reads \in Seq(Reads) /\ view \in 0..Len(log)
<1>1. log \in Seq(Nat) /\ log # <<>>
  BY DEF WalletInv, TypeOK
<1>2. Len(log) \in Nat \ {0}
  BY <1>1, EmptySeq
<1>3. Balance \in Nat
  BY <1>1, <1>2, ElementOfSeq DEF Balance
<1>4. \A x \in Nat : /\ Append(log, x) \in Seq(Nat) /\ Append(log, x) # <<>>
                     /\ Len(Append(log, x)) = Len(log) + 1
  BY <1>1, <1>2, AppendProperties
<1> QED BY <1>2, <1>3, <1>4 DEF WalletInv, TypeOK, Reads, Reader

\* Polls that change as a whole or one by one.
LEMMA PollsOff ==
    ASSUME WalletInv, polls' = [p \in Polls |-> [polls[p] EXCEPT !.live = FALSE]]
    PROVE  /\ polls' \in [Polls -> PollRec] /\ Waiting' = Waiting
           /\ \A p \in Polls : polls'[p].st = polls[p].st /\ polls'[p].op = polls[p].op /\ ~polls'[p].live
<1>1. \A p \in Polls : polls[p] \in PollRec
  BY DEF WalletInv, TypeOK, PollRec
<1>2. \A p \in Polls : /\ [polls[p] EXCEPT !.live = FALSE] \in PollRec
                       /\ [polls[p] EXCEPT !.live = FALSE].st = polls[p].st
                       /\ [polls[p] EXCEPT !.live = FALSE].op = polls[p].op
                       /\ ~[polls[p] EXCEPT !.live = FALSE].live
  BY <1>1 DEF PollRec
<1>3. \A p \in Polls : polls'[p] = [polls[p] EXCEPT !.live = FALSE]
  OBVIOUS
<1>4. polls' \in [Polls -> PollRec]
  BY <1>2
<1> QED BY <1>2, <1>3, <1>4 DEF Waiting

LEMMA PollMoves ==
    ASSUME WalletInv, NEW p \in Polls, NEW st \in {"idle", "finalizing", "refreshing", "returning"},
           polls' = [polls EXCEPT ![p].st = st]
    PROVE  /\ polls' \in [Polls -> PollRec]
           /\ polls'[p].st = st /\ polls'[p].op = polls[p].op /\ polls'[p].live = polls[p].live
           /\ \A q \in Polls : q # p => polls'[q] = polls[q]
<1>1. polls \in [Polls -> PollRec]
  BY DEF WalletInv, TypeOK, PollRec
<1> DEFINE next == [polls[p] EXCEPT !.st = st]
<1>2. next \in PollRec /\ next.st = st /\ next.op = polls[p].op /\ next.live = polls[p].live
  BY <1>1 DEF PollRec
<1>3. polls' = [polls EXCEPT ![p] = next]
  OBVIOUS
<1> HIDE DEF next
<1> QED BY <1>1, <1>2, <1>3

\* Steps that touch neither the wallet nor a poll that waits for a read.
LEMMA SameReads ==
    ASSUME WalletInv, UNCHANGED money, Waiting' = Waiting, opened' = opened \/ opened' # "opening"
    PROVE  ReadsInv'
BY DEF WalletInv, ReadsInv, money

LEMMA WalletInit == Init => WalletInv
<1> SUFFICES ASSUME Init PROVE WalletInv
  OBVIOUS
<1>1. polls \in [Polls -> PollRec] /\ \A p \in Polls : polls[p].st = "idle" /\ ~polls[p].live
  BY IdlePoll DEF Init
<1>2. log \in Seq(Nat) /\ log # <<>> /\ Len(log) = 1 /\ reads \in Seq(Reads) /\ Len(reads) = 0
  BY EmptySeq DEF Init
<1>3. TypeOK
  <2>1. ops \in [Ops -> OpStates]
    BY DEF Init, OpStates
  <2>2. view \in 0..Len(log)
    BY <1>2 DEF Init
  <2>3. /\ app \in Apps /\ opened \in {"opening", "reading", "open", "failed"} /\ online \in BOOLEAN
        /\ topup \in {"idle", "requesting", "waiting", "minting", "done", "error"}
        /\ invoice \in Ops \cup {None} /\ asking \in {"no", "live", "left"} /\ stale \in BOOLEAN
        /\ token \in {"idle", "sending", "left", "receiving", "refreshing"}
    BY DEF Init
  <2> QED BY <1>1, <1>2, <2>1, <2>2, <2>3 DEF TypeOK, PollRec, Reads, Reader
<1>4. ReadsInv
  BY <1>2 DEF Init, ReadsInv, ReadsOK
<1>5. PollInv
  BY <1>1, WalletAssumption DEF Init, PollInv
<1> QED BY <1>3, <1>4, <1>5 DEF WalletInv

----------------------------------------------------------------------------
(* The steps. *)

\* What does not touch the wallet: the types of the rest are enough.
LEMMA SameMoney ==
    ASSUME WalletInv, UNCHANGED <<app, money>>, Waiting' = Waiting, opened' = opened \/ opened' = "failed",
           online' \in BOOLEAN, ops' \in [Ops -> OpStates], polls' \in [Polls -> PollRec],
           topup' \in {"idle", "requesting", "waiting", "minting", "done", "error"},
           invoice' \in Ops \cup {None}, asking' \in {"no", "live", "left"}, stale' \in BOOLEAN,
           token' \in {"idle", "sending", "left", "receiving", "refreshing"}, PollInv'
    PROVE  WalletInv'
<1>1. TypeOK'
  BY DEF WalletInv, TypeOK, money, PollRec
<1>2. ReadsInv'
  BY SameReads
<1> QED BY <1>1, <1>2 DEF WalletInv

\* What starts reads t, with or without a change of the balance.
LEMMA MoneyMoves ==
    ASSUME WalletInv, UNCHANGED <<app, opened, online, view>>, HasManager,
           NEW t, reads' = reads \o t, Started(t, Len(log'), Waiting, Waiting'),
           log' = log \/ \E x \in Nat : log' = Append(log, x),
           ops' \in [Ops -> OpStates], polls' \in [Polls -> PollRec],
           topup' \in {"idle", "requesting", "waiting", "minting", "done", "error"},
           invoice' \in Ops \cup {None}, asking' \in {"no", "live", "left"}, stale' \in BOOLEAN,
           token' \in {"idle", "sending", "left", "receiving", "refreshing"}, PollInv'
    PROVE  WalletInv'
<1>1. /\ Len(log) \in Nat \ {0} /\ Len(log') \in {Len(log), Len(log) + 1}
      /\ log' \in Seq(Nat) /\ log' # <<>>
  BY LogGrows DEF WalletInv, TypeOK
<1>2. ReadsOK(reads, Len(log), view, Waiting)
  BY DEF WalletInv, ReadsInv
<1>3. ReadsOK(reads \o t, Len(log'), view, Waiting')
  BY <1>1, <1>2, ReadsStart
<1>4. ReadsInv'
  BY <1>3 DEF ReadsInv, HasManager
<1>5. TypeOK'
  <2>1. reads' \in Seq(Reads)
    BY <1>3 DEF ReadsOK
  <2>2. view' \in 0..Len(log')
    BY <1>1, LogGrows
  <2> QED BY <1>1, <2>1, <2>2 DEF WalletInv, TypeOK, PollRec, Reads, Reader
<1> QED BY <1>4, <1>5 DEF WalletInv

\* A read that is appended is one that starts.
LEMMA Single ==
    ASSUME NEW by \in Reader, NEW n \in Nat \ {0}, by # "init"
    PROVE  /\ \A r \in Seq(Reads) : Append(r, Read(by, n)) = r \o <<Read(by, n)>>
           /\ \A W, V : W \subseteq V /\ (by \in Polls => by \in V \ W) => Started(<<Read(by, n)>>, n, W, V)
<1>1. Read(by, n) \in Reads /\ Read(by, n).by = by /\ Read(by, n).at = n
  BY DEF Read, Reads
<1>2. <<Read(by, n)>> \in Seq(Reads) /\ Len(<<Read(by, n)>>) = 1 /\ <<Read(by, n)>>[1] = Read(by, n)
  BY <1>1
<1>3. \A r \in Seq(Reads) : Append(r, Read(by, n)) = r \o <<Read(by, n)>>
  BY <1>1, AppendIsConcat
<1>4. \A W, V : W \subseteq V /\ (by \in Polls => by \in V \ W) => Started(<<Read(by, n)>>, n, W, V)
  BY <1>1, <1>2 DEF Started
<1> QED BY <1>3, <1>4

\* Two reads at once, the second for an event or a received token.
LEMMA Pair ==
    ASSUME NEW by \in {"event", "receive"}, NEW n \in Nat \ {0}, NEW W
    PROVE  Started(<<Read("event", n), Read(by, n)>>, n, W, W)
<1> DEFINE t == <<Read("event", n), Read(by, n)>>
<1>1. /\ t \in Seq(Reads) /\ Len(t) = 2
      /\ t[1].by = "event" /\ t[1].at = n /\ t[2].by = by /\ t[2].at = n
  BY DEF Read, Reads, Reader
<1>2. "event" \notin Polls /\ by \notin Polls
  BY WalletAssumption
<1> HIDE DEF t
<1>3. Started(t, n, W, W)
  BY <1>1, <1>2 DEF Started
<1> QED BY <1>3 DEF t

LEMMA InitFailsKeeps == ASSUME WalletInv, InitFails PROVE WalletInv'
<1>1. /\ UNCHANGED <<app, money, ops, page>> /\ opened = "opening" /\ opened' = "failed"
      /\ online' \in BOOLEAN
  BY DEF InitFails
<1>2. PollInv'
  BY <1>1 DEF WalletInv, PollInv, HasManager, page
<1>3. Waiting' = Waiting
  BY <1>1 DEF Waiting, page
<1> QED BY <1>1, <1>2, <1>3, SameMoney DEF WalletInv, TypeOK, page, PollRec

LEMMA RenderKeeps == ASSUME WalletInv, Render PROVE WalletInv'
<1>1. /\ UNCHANGED <<app, opened, online, money, ops, topup, invoice, asking, token>>
      /\ polls' = [p \in Polls |-> [polls[p] EXCEPT !.live = FALSE]] /\ stale' \in BOOLEAN
  BY DEF Render
<1>2. PollInv'
  BY <1>1, PollsOff DEF WalletInv, PollInv, HasManager
<1> QED BY <1>1, <1>2, PollsOff, SameMoney DEF WalletInv, TypeOK

LEMMA LeaveKeeps == ASSUME WalletInv, LeavePage PROVE WalletInv'
<1>1. /\ UNCHANGED <<app, opened, online, money, ops, stale>>
      /\ polls' = [p \in Polls |-> [polls[p] EXCEPT !.live = FALSE]]
      /\ topup' = IF app = "registrar" THEN "idle" ELSE topup
      /\ invoice' = None /\ asking' \in {"no", "live", "left"} /\ asking' # "live"
      /\ token' \in {"left", token}
  BY DEF LeavePage, WalletInv, TypeOK
<1>2. PollInv'
  BY <1>1, PollsOff DEF WalletInv, PollInv, HasManager
<1> QED BY <1>1, <1>2, PollsOff, SameMoney DEF WalletInv, TypeOK

\* An operation moves on in the background, without a change of the balance.
LEMMA MintKeeps ==
    ASSUME WalletInv, NEW o \in Ops, PayerPays(o) \/ OpExecutes(o) \/ OpFails(o) PROVE WalletInv'
<1>1. /\ UNCHANGED <<app, opened, online, money, invoice, asking, polls, stale, token>>
      /\ ops[o] # "finalized"
      /\ \E st \in OpStates : ops' = [ops EXCEPT ![o] = st]
      /\ topup' \in {topup, "minting", "error"} /\ (topup' # topup => app = "frontend")
  BY DEF PayerPays, OpExecutes, OpFails, page, OpStates
<1>2. ops' \in [Ops -> OpStates] /\ \A q \in Ops : ops[q] = "finalized" => ops'[q] = "finalized"
  BY <1>1 DEF WalletInv, TypeOK
<1>3. PollInv'
  BY <1>1, <1>2 DEF WalletInv, PollInv, HasManager
<1>4. Waiting' = Waiting
  BY <1>1 DEF Waiting
<1> QED BY <1>1, <1>2, <1>3, <1>4, SameMoney DEF WalletInv, TypeOK, PollRec

\* A page asks for an invoice, or drops a paid one.
LEMMA AskKeeps ==
    ASSUME WalletInv, handleGenerateInvoice \/ handleTopUp \/ NewTopUp PROVE WalletInv'
<1>1. /\ UNCHANGED <<app, opened, online, money, ops, polls, stale, token>>
      /\ topup' \in {"requesting", "idle"} /\ invoice' = None
      /\ asking' \in {"live", asking} /\ (asking' = "live" => topup' = "requesting" \/ asking = "live")
      /\ topup' = "idle" => asking' = asking /\ topup = "done" /\ app = "registrar"
      /\ app = "registrar" => topup # "waiting"
  BY DEF handleGenerateInvoice, handleTopUp, NewTopUp, registrar_can_top_up
<1>2. PollInv'
  BY <1>1 DEF WalletInv, PollInv, HasManager
<1>3. Waiting' = Waiting
  BY <1>1 DEF Waiting
<1> QED BY <1>1, <1>2, <1>3, SameMoney DEF WalletInv, TypeOK, PollRec

\* The mint answers.
LEMMA InvoiceKeeps == ASSUME WalletInv, topUp \/ TopUpFails PROVE WalletInv'
<1>1. /\ UNCHANGED <<app, opened, online, money, polls, stale, token>> /\ asking' = "no"
      /\ \/ ops' = ops
         \/ \E o \in Ops : ops[o] = "none" /\ ops' = [ops EXCEPT ![o] = "pending"]
      /\ topup' \in {topup, "waiting", "error"} /\ invoice' \in Ops \cup {None}
      /\ topup' = "waiting" => HasManager \/ topup' = topup
      /\ app = "registrar" /\ asking # "live" => topup' = topup /\ invoice' = invoice
      /\ asking = "live" => topup' # "done"
  BY DEF topUp, TopUpFails, WalletInv, TypeOK
<1>2. ops' \in [Ops -> OpStates] /\ \A q \in Ops : ops[q] = "finalized" => ops'[q] = "finalized"
  BY <1>1 DEF WalletInv, TypeOK, OpStates
<1>3. PollInv'
  BY <1>1, <1>2 DEF WalletInv, PollInv, HasManager
<1>4. Waiting' = Waiting
  BY <1>1 DEF Waiting
<1> QED BY <1>1, <1>2, <1>3, <1>4, SameMoney DEF WalletInv, TypeOK, PollRec

\* Tokens are about to be sent or received, or it fails.
LEMMA TokenKeeps == ASSUME WalletInv, handleSend \/ handleReceive \/ TokenFails PROVE WalletInv'
<1>1. /\ UNCHANGED <<app, opened, online, money, ops, topup, invoice, asking, polls, stale>>
      /\ token' \in {"idle", "sending", "receiving"}
  BY DEF handleSend, handleReceive, TokenFails
<1>2. PollInv'
  BY <1>1 DEF WalletInv, PollInv, HasManager
<1>3. Waiting' = Waiting
  BY <1>1 DEF Waiting
<1> QED BY <1>1, <1>2, <1>3, SameMoney DEF WalletInv, TypeOK, PollRec

\* A poll starts, or finalize throws.
LEMMA PollKeeps == ASSUME WalletInv, NEW p \in Polls, poll(p) \/ CheckFails(p) PROVE WalletInv'
<1> DEFINE asked == [st |-> "finalizing", op |-> invoice, live |-> TRUE]
<1>1. PICK next \in {asked, Idle} :
        /\ polls' = [polls EXCEPT ![p] = next] /\ polls[p].st \in {"idle", "finalizing"}
        /\ next = Idle \/ (next = asked /\ app = "registrar" /\ topup = "waiting" /\ invoice \in Ops)
        /\ UNCHANGED <<app, opened, online, money, ops, topup, invoice, asking, stale, token>>
  <2>1. CASE poll(p)
    <3>1. app = "registrar" /\ topup = "waiting" /\ invoice \in Ops
      BY <2>1 DEF poll, WalletInv, TypeOK
    <3> QED BY <2>1, <3>1 DEF poll
  <2>2. CASE CheckFails(p)
    BY <2>2 DEF CheckFails
  <2> QED BY <2>1, <2>2
<1>2. asked.st = "finalizing" /\ asked.op = invoice /\ asked.live /\ (invoice \in Ops => asked \in PollRec)
  BY DEF PollRec
<1> HIDE DEF asked
<1>3. next \in PollRec /\ next.st \in {"idle", "finalizing"}
  BY <1>1, <1>2, IdlePoll
<1>4. /\ polls' \in [Polls -> PollRec] /\ polls'[p] = next
      /\ \A q \in Polls : q # p => polls'[q] = polls[q]
  BY <1>1, <1>3 DEF WalletInv, TypeOK, PollRec
<1>5. Waiting' = Waiting
  BY <1>1, <1>3, <1>4 DEF Waiting
<1>6. PollInv'
  BY <1>1, <1>2, <1>3, <1>4, IdlePoll DEF WalletInv, PollInv, HasManager
<1> QED BY <1>1, <1>4, <1>5, <1>6, SameMoney DEF WalletInv, TypeOK

\* The poll's finalize succeeds, and its read starts.
LEMMA CheckKeeps == ASSUME WalletInv, NEW p \in Polls, checkTopUpStatus(p) PROVE WalletInv'
<1> DEFINE o == polls[p].op
           n == Len(log)
<1>1. /\ polls[p].st = "finalizing" /\ polls' = [polls EXCEPT ![p].st = "refreshing"]
      /\ UNCHANGED <<app, opened, online, topup, invoice, asking, stale, token, view>>
      /\ \/ /\ ops[o] = "finalized" /\ reads' = Append(reads, Read(p, n)) /\ UNCHANGED <<log, ops>>
         \/ /\ ops[o] = "paid" /\ ops' = [ops EXCEPT ![o] = "finalized"]
            /\ log' = Append(log, Balance + 1)
            /\ reads' = reads \o <<Event, Event, Read(p, n + 1)>>
  BY DEF checkTopUpStatus
<1>2. o \in Ops /\ HasManager /\ opened # "opening"
  BY <1>1 DEF WalletInv, PollInv, HasManager
<1>3. ops' \in [Ops -> OpStates] /\ ops'[o] = "finalized" /\ \A q \in Ops : ops[q] = "finalized" => ops'[q] = "finalized"
  BY <1>1, <1>2 DEF WalletInv, TypeOK, OpStates
<1>4. /\ polls' \in [Polls -> PollRec]
      /\ polls'[p].st = "refreshing" /\ polls'[p].op = o /\ polls'[p].live = polls[p].live
      /\ \A q \in Polls : q # p => polls'[q] = polls[q]
  BY <1>1, PollMoves
<1>5. Waiting' = Waiting \cup {p} /\ p \notin Waiting
  BY <1>1, <1>4 DEF Waiting
<1>6. PollInv'
  BY <1>1, <1>2, <1>3, <1>4 DEF WalletInv, PollInv, HasManager
<1>7. n \in Nat \ {0} /\ Balance + 1 \in Nat /\ p \in Reader \ {"init", "event", "receive"}
  BY LogGrows, WalletAssumption DEF Reader
<1>8. reads \in Seq(Reads)
  BY LogGrows
<1>9. PICK t : reads' = reads \o t /\ Started(t, Len(log'), Waiting, Waiting')
  <2>1. CASE reads' = Append(reads, Read(p, n)) /\ log' = log
    BY <1>5, <1>7, <1>8, <2>1, Single
  <2>2. CASE log' = Append(log, Balance + 1) /\ reads' = reads \o <<Event, Event, Read(p, n + 1)>>
    <3> DEFINE t == <<Event, Event, Read(p, n + 1)>>
    <3>1. /\ t \in Seq(Reads) /\ Len(t) = 3 /\ \A i \in 1..3 : t[i].at = n + 1
          /\ t[1].by = "event" /\ t[2].by = "event" /\ t[3].by = p
      BY <1>7 DEF Event, Read, Reads, Reader
    <3> HIDE DEF t
    <3>2. "event" \notin Polls
      BY WalletAssumption
    <3>3. Started(t, n + 1, Waiting, Waiting')
      BY <1>5, <1>7, <3>1, <3>2 DEF Started
    <3>4. Len(log') = n + 1
      BY <2>2, <1>7, LogGrows
    <3>5. reads' = reads \o t
      BY <2>2 DEF t
    <3>6. Started(t, Len(log'), Waiting, Waiting')
      BY <3>3, <3>4
    <3> QED BY <3>5, <3>6
  <2> QED BY <1>1, <2>1, <2>2
<1>10. log' = log \/ \E x \in Nat : log' = Append(log, x)
  BY <1>1, <1>7
<1> HIDE DEF o, n
<1>11. /\ topup' \in {"idle", "requesting", "waiting", "minting", "done", "error"}
       /\ invoice' \in Ops \cup {None} /\ asking' \in {"no", "live", "left"} /\ stale' \in BOOLEAN
       /\ token' \in {"idle", "sending", "left", "receiving", "refreshing"}
  BY <1>1 DEF WalletInv, TypeOK
<1> QED BY <1>1, <1>2, <1>3, <1>4, <1>6, <1>9, <1>10, <1>11, MoneyMoves

\* The poll returns.
LEMMA ReturnKeeps == ASSUME WalletInv, NEW p \in Polls, PollReturns(p) PROVE WalletInv'
<1>1. UNCHANGED <<app, opened, online, view, log, ops, invoice, asking, stale, token>> /\ polls[p].st = "returning"
  BY DEF PollReturns
<1>2. polls[p].op \in Ops /\ HasManager /\ ops[polls[p].op] = "finalized"
  BY <1>1 DEF WalletInv, PollInv
<1>3. CASE polls[p].live
  <2>1. /\ topup' = "done" /\ reads' = Append(reads, Read("event", Len(log)))
        /\ polls' = [q \in Polls |-> IF q = p THEN Idle ELSE [polls[q] EXCEPT !.live = FALSE]]
    BY <1>3 DEF PollReturns
  <2>2. \A q \in Polls : /\ [polls[q] EXCEPT !.live = FALSE] \in PollRec
                         /\ [polls[q] EXCEPT !.live = FALSE].st = polls[q].st
                         /\ [polls[q] EXCEPT !.live = FALSE].op = polls[q].op
                         /\ ~[polls[q] EXCEPT !.live = FALSE].live
    BY DEF WalletInv, TypeOK, PollRec
  <2>3. /\ polls' \in [Polls -> PollRec] /\ polls'[p] = Idle
        /\ \A q \in Polls : ~polls'[q].live /\ (q # p => polls'[q].st = polls[q].st /\ polls'[q].op = polls[q].op)
    BY <2>1, <2>2, IdlePoll
  <2>4. Waiting' = Waiting
    BY <1>1, <2>3, IdlePoll DEF Waiting
  <2>5. PollInv'
    BY <1>1, <1>2, <1>3, <2>1, <2>3, IdlePoll DEF WalletInv, PollInv, HasManager
  <2>6. reads \in Seq(Reads) /\ Len(log) \in Nat \ {0} /\ "event" \in Reader \ Polls
    BY LogGrows, WalletAssumption DEF Reader
  <2>7. PICK t : reads' = reads \o t /\ Started(t, Len(log'), Waiting, Waiting')
    BY <1>1, <2>1, <2>4, <2>6, Single
  <2> QED BY <1>1, <1>2, <2>1, <2>3, <2>5, <2>7, MoneyMoves DEF WalletInv, TypeOK
<1>4. CASE ~polls[p].live
  <2>1. polls' = [polls EXCEPT ![p] = Idle] /\ UNCHANGED <<topup, reads>>
    BY <1>4 DEF PollReturns
  <2>2. /\ polls' \in [Polls -> PollRec] /\ polls'[p] = Idle
        /\ \A q \in Polls : q # p => polls'[q] = polls[q]
    BY <2>1, IdlePoll DEF WalletInv, TypeOK, PollRec
  <2>3. Waiting' = Waiting
    BY <1>1, <2>2, IdlePoll DEF Waiting
  <2>4. PollInv'
    BY <1>1, <2>1, <2>2, IdlePoll DEF WalletInv, PollInv, HasManager
  <2> QED BY <1>1, <2>1, <2>2, <2>3, <2>4, SameMoney DEF WalletInv, TypeOK, money
<1> QED BY <1>3, <1>4

\* The balance changes in the background or by a token.
LEMMA ChangeKeeps ==
    ASSUME WalletInv, sendTokens \/ receiveTokens \/ (\E o \in Ops : OpFinalizes(o)) PROVE WalletInv'
<1>1. Len(log) \in Nat \ {0} /\ Balance \in Nat /\ reads \in Seq(Reads)
  BY LogGrows
<1>2. /\ UNCHANGED <<app, opened, online, view, invoice, asking, polls, stale>> /\ HasManager
      /\ \E x \in Nat : log' = Append(log, x)
      /\ token' \in {"idle", "refreshing", token}
      /\ \/ reads' = reads \o <<Event>>
         \/ reads' = reads \o <<Event, Event>>
         \/ reads' = reads \o <<Event, Read("receive", Len(log) + 1)>>
         \/ reads' = Append(reads, Event)
  <2>1. CASE sendTokens
    <3>1. Balance > 0 /\ log' = Append(log, Balance - 1) /\ reads' = reads \o <<Event>>
      BY <2>1 DEF sendTokens, Changed
    <3>2. Balance - 1 \in Nat
      BY <1>1, <3>1
    <3> QED BY <2>1, <3>1, <3>2 DEF sendTokens, Changed
  <2>2. CASE receiveTokens
    <3>1. Balance + 1 \in Nat
      BY <1>1
    <3> QED BY <2>2, <3>1 DEF receiveTokens
  <2>3. CASE \E o \in Ops : OpFinalizes(o)
    <3>1. Balance + 1 \in Nat
      BY <1>1
    <3> QED BY <2>3, <3>1 DEF OpFinalizes, Changed
  <2> QED BY <2>1, <2>2, <2>3
<1>3. /\ ops' \in [Ops -> OpStates] /\ \A q \in Ops : ops[q] = "finalized" => ops'[q] = "finalized"
      /\ topup' \in {topup, "done"} /\ (topup' # topup => app = "frontend")
  BY DEF sendTokens, receiveTokens, OpFinalizes, Finalized, WalletInv, TypeOK, OpStates
<1>4. Waiting' = Waiting
  BY <1>2 DEF Waiting
<1>5. PollInv'
  BY <1>2, <1>3 DEF WalletInv, PollInv, HasManager
<1>6. PICK t : reads' = reads \o t /\ Started(t, Len(log'), Waiting, Waiting')
  <2>1. Len(log') = Len(log) + 1 /\ Len(log) + 1 \in Nat \ {0}
    BY <1>1, <1>2, LogGrows
  <2>2. "event" \in Reader \ Polls
    BY WalletAssumption DEF Reader
  <2>3. Started(<<Event>>, Len(log) + 1, Waiting, Waiting)
    BY <2>1, <2>2, Single DEF Event
  <2>4. Append(reads, Event) = reads \o <<Event>>
    BY <1>1, <2>1, <2>2, Single DEF Event
  <2>5. /\ Started(<<Event, Event>>, Len(log) + 1, Waiting, Waiting)
        /\ Started(<<Event, Read("receive", Len(log) + 1)>>, Len(log) + 1, Waiting, Waiting)
    BY <2>1, Pair DEF Event
  <2> QED BY <1>2, <1>4, <2>1, <2>3, <2>4, <2>5
<1> QED BY <1>2, <1>3, <1>5, <1>6, MoneyMoves DEF WalletInv, TypeOK, PollRec

\* The manager is there, and its first read starts.
LEMMA OpenKeeps == ASSUME WalletInv, createWalletManager PROVE WalletInv'
<1>1. /\ opened = "opening" /\ UNCHANGED <<app, log, view, ops, topup, invoice, asking, polls, stale, token>>
      /\ online' \in BOOLEAN /\ opened' \in {"reading", "open"}
      /\ reads' = reads \/ reads' = Append(reads, Read("init", Len(log)))
  BY DEF createWalletManager, registrar_init, frontend_init, page
<1>2. reads = <<>> /\ view = 0 /\ Len(log) \in Nat \ {0}
  BY <1>1, LogGrows DEF WalletInv, ReadsInv
<1>3. Waiting' = Waiting
  BY <1>1 DEF Waiting
<1>4. ReadsOK(reads', Len(log), 0, Waiting)
  <2>1. CASE reads' = reads
    BY <1>2, <2>1 DEF WalletInv, ReadsInv
  <2>2. CASE reads' = Append(reads, Read("init", Len(log)))
    <3> DEFINE r == Append(<<>>, Read("init", Len(log)))
    <3>1. Read("init", Len(log)) \in Reads
      BY <1>2 DEF Read, Reads, Reader
    <3>2. <<>> \in Seq(Reads) /\ Len(<<>>) = 0
      BY EmptySeq
    <3>3. r \in Seq(Reads) /\ Len(r) = 1 /\ r[1] = Read("init", Len(log)) /\ r # <<>>
      BY <3>1, <3>2, AppendProperties
    <3> HIDE DEF r
    <3>4. r[1].by = "init" /\ r[1].at = Len(log) /\ "init" \notin Polls
      BY <3>3, WalletAssumption DEF Read
    <3>5. ReadsOK(r, Len(log), 0, Waiting)
      BY <1>2, <3>3, <3>4 DEF ReadsOK
    <3> QED BY <1>2, <2>2, <3>5 DEF r
  <2> QED BY <1>1, <2>1, <2>2
<1>5. ReadsInv'
  BY <1>1, <1>2, <1>3, <1>4 DEF ReadsInv
<1>6. TypeOK'
  <2>1. reads' \in Seq(Reads)
    BY <1>4 DEF ReadsOK
  <2> QED BY <1>1, <2>1 DEF WalletInv, TypeOK, Reads, Reader
<1>7. PollInv'
  BY <1>1 DEF WalletInv, PollInv, HasManager
<1> QED BY <1>5, <1>6, <1>7 DEF WalletInv

\* A read ends, and who waits for it goes on.
LEMMA ReadKeeps == ASSUME WalletInv, refreshBalance \/ ReadFails PROVE WalletInv'
<1> DEFINE h == Head(reads)
<1>1. /\ reads # <<>> /\ reads' = Tail(reads)
      /\ UNCHANGED <<app, online, log, ops, topup, invoice, asking>>
      /\ Resume(h.by) /\ stale' \in BOOLEAN
      /\ view' = h.at \/ view' \in {0, view}
  BY DEF refreshBalance, ReadFails, WalletInv, TypeOK
<1>2. Len(log) \in Nat \ {0} /\ ReadsOK(reads, Len(log), view, Waiting)
  BY LogGrows DEF WalletInv, ReadsInv
<1>3. /\ h \in Reads /\ h.at \in 1..Len(log)
      /\ h.by = "init" => view = 0
      /\ h.by \in Polls => h.by \in Waiting
  BY <1>1, <1>2, ReadEnds
<1>4. ReadsOK(reads', Len(log), view', Waiting \ {h.by})
  BY <1>1, <1>2, <1>3, ReadEnds
<1>5. /\ opened' \in {opened, "open"} /\ opened # "opening" /\ (HasManager => HasManager')
      /\ token' \in {"idle", token}
  BY <1>1 DEF Resume, WalletInv, ReadsInv, HasManager
<1> HIDE DEF h
<1>6. /\ polls' \in [Polls -> PollRec] /\ Waiting' = Waiting \ {h.by}
      /\ \A q \in Polls : /\ polls'[q].op = polls[q].op /\ polls'[q].live = polls[q].live
                          /\ \/ polls'[q].st = polls[q].st
                             \/ polls[q].st = "refreshing" /\ polls'[q].st = "returning"
  <2>1. CASE h.by \in Polls
    <3>1. polls' = [polls EXCEPT ![h.by].st = "returning"] /\ polls[h.by].st = "refreshing"
      BY <1>1, <1>3, <2>1 DEF Resume, Waiting
    <3>2. /\ polls' \in [Polls -> PollRec]
          /\ polls'[h.by].st = "returning" /\ polls'[h.by].op = polls[h.by].op
          /\ polls'[h.by].live = polls[h.by].live
          /\ \A q \in Polls : q # h.by => polls'[q] = polls[q]
      BY <2>1, <3>1, PollMoves
    <3>3. Waiting' = Waiting \ {h.by}
      BY <2>1, <3>1, <3>2 DEF Waiting
    <3> QED BY <2>1, <3>1, <3>2, <3>3
  <2>2. CASE h.by \notin Polls
    <3>1. polls' = polls
      BY <1>1, <2>2 DEF Resume
    <3>2. Waiting' = Waiting \ {h.by}
      BY <2>2, <3>1 DEF Waiting
    <3> QED BY <3>1, <3>2 DEF WalletInv, TypeOK, PollRec
  <2> QED BY <2>1, <2>2
<1>7. PollInv'
  BY <1>1, <1>5, <1>6 DEF WalletInv, PollInv
<1>8. TypeOK'
  <2>1. reads' \in Seq(Reads)
    BY <1>4 DEF ReadsOK
  <2>2. view' \in 0..Len(log)
    <3>1. view \in 0..Len(log)
      BY LogGrows
    <3> QED BY <1>1, <1>2, <1>3, <3>1
  <2> QED BY <1>1, <1>5, <1>6, <2>1, <2>2 DEF WalletInv, TypeOK, PollRec, Reads, Reader
<1>9. ReadsInv'
  BY <1>1, <1>4, <1>5, <1>6 DEF ReadsInv
<1> QED BY <1>7, <1>8, <1>9 DEF WalletInv

----------------------------------------------------------------------------
(* Together. *)

LEMMA WalletNext == ASSUME WalletInv, [Next]_vars PROVE WalletInv'
<1>1. CASE Provider
  BY <1>1, OpenKeeps, InitFailsKeeps, ReadKeeps, RenderKeeps DEF Provider
<1>2. CASE Mint
  BY <1>2, MintKeeps, ChangeKeeps DEF Mint
<1>3. CASE TopUpPage
  BY <1>3, AskKeeps, InvoiceKeeps, PollKeeps, CheckKeeps, ReturnKeeps DEF TopUpPage
<1>4. CASE TokenPage
  BY <1>4, TokenKeeps, ChangeKeeps DEF TokenPage
<1>5. CASE UNCHANGED vars
  <2>1. Waiting' = Waiting /\ PollInv'
    BY <1>5 DEF vars, page, Waiting, WalletInv, PollInv, HasManager
  <2> QED BY <1>5, <2>1, SameMoney DEF vars, page, WalletInv, TypeOK, PollRec
<1> QED BY <1>1, <1>2, <1>3, <1>4, <1>5, LeaveKeeps DEF Next

LEMMA WalletHolds == Spec => []WalletInv
BY WalletInit, WalletNext, PTL DEF Spec

\* Every variable keeps its type.
THEOREM TypeCorrect == Spec => []TypeOK
<1>1. WalletInv => TypeOK
  BY DEF WalletInv
<1> QED BY <1>1, WalletHolds, PTL

\* What the registrar calls paid was paid and minted, however many polls of this
\* invoice and of earlier ones return, in whatever order.
THEOREM PaidFinalized == Spec => []PaidIsFinalized
<1>1. WalletInv => PaidIsFinalized
  BY WalletAssumption DEF WalletInv, PollInv, PaidIsFinalized
<1> QED BY <1>1, WalletHolds, PTL

\* Only the end of a read takes one out of flight; what changes the balance
\* starts reads.
LEMMA Quiet ==
    ASSUME WalletInv, [Next]_vars, ~refreshBalance, ~ReadFails, reads' = <<>>
    PROVE  reads = <<>> /\ UNCHANGED <<log, view>>
<1>1. Len(log) \in Nat \ {0} /\ reads \in Seq(Reads)
  BY LogGrows
<1>2. \A by \in Reader, n \in Nat : Read(by, n) \in Reads /\ Append(reads, Read(by, n)) # <<>>
  <2>1. ASSUME NEW by \in Reader, NEW n \in Nat
        PROVE  Read(by, n) \in Reads /\ Append(reads, Read(by, n)) # <<>>
    <3>1. Read(by, n) \in Reads
      BY DEF Read, Reads
    <3> QED BY <1>1, <3>1, AppendProperties
  <2> QED BY <2>1
<1>3. \A t \in Seq(Reads) : t # <<>> => reads \o t # <<>>
  <2>1. ASSUME NEW t \in Seq(Reads), t # <<>> PROVE reads \o t # <<>>
    <3>1. Len(t) > 0 /\ Len(reads \o t) = Len(reads) + Len(t) /\ Len(reads) \in Nat
      BY <1>1, <2>1, ConcatProperties, EmptySeq, LenProperties
    <3>2. Len(reads \o t) # 0
      BY <2>1, <3>1, LenProperties
    <3> QED BY <3>2, EmptySeq
  <2> QED BY <2>1
<1>4. "event" \in Reader /\ "receive" \in Reader /\ "init" \in Reader /\ Polls \subseteq Reader
  BY DEF Reader
<1>5. Event \in Reads /\ Len(log) + 1 \in Nat
  BY <1>1, <1>2, <1>4 DEF Event
<1>6. CASE createWalletManager \/ (\E p \in Polls : checkTopUpStatus(p) \/ PollReturns(p)) \/ receiveTokens
  <2>1. CASE createWalletManager
    BY <1>1, <1>2, <1>4, <2>1 DEF createWalletManager, registrar_init, frontend_init
  <2>2. ASSUME NEW p \in Polls, checkTopUpStatus(p) PROVE FALSE
    <3>1. CASE reads' = Append(reads, Read(p, Len(log)))
      BY <1>1, <1>2, <1>4, <3>1
    <3>2. CASE reads' = reads \o <<Event, Event, Read(p, Len(log) + 1)>>
      <4>1. <<Event, Event, Read(p, Len(log) + 1)>> \in Seq(Reads)
        BY <1>2, <1>4, <1>5
      <4> QED BY <1>3, <3>2, <4>1
    <3> QED BY <2>2, <3>1, <3>2 DEF checkTopUpStatus
  <2>3. ASSUME NEW p \in Polls, PollReturns(p) PROVE reads = <<>> /\ UNCHANGED <<log, view>>
    BY <1>1, <1>2, <1>4, <2>3 DEF PollReturns
  <2>4. CASE receiveTokens
    <3>1. <<Event, Read("receive", Len(log) + 1)>> \in Seq(Reads)
      BY <1>2, <1>4, <1>5
    <3>2. Append(reads, Event) # <<>>
      BY <1>2, <1>4, <1>5 DEF Event
    <3> QED BY <1>3, <2>4, <3>1, <3>2 DEF receiveTokens
  <2> QED BY <1>6, <2>1, <2>2, <2>3, <2>4
<1>7. CASE sendTokens \/ \E o \in Ops : OpFinalizes(o)
  <2>1. <<Event>> \in Seq(Reads) /\ <<Event, Event>> \in Seq(Reads)
    BY <1>5
  <2> QED BY <1>3, <1>7, <2>1 DEF sendTokens, OpFinalizes, Changed
<1>8. CASE InitFails \/ Render \/ LeavePage \/ UNCHANGED vars
  BY <1>8 DEF InitFails, Render, LeavePage, vars, money
<1>9. CASE \/ handleGenerateInvoice \/ handleTopUp \/ topUp \/ TopUpFails \/ NewTopUp
           \/ \E p \in Polls : poll(p) \/ CheckFails(p)
  BY <1>9 DEF handleGenerateInvoice, handleTopUp, topUp, TopUpFails, NewTopUp, poll, CheckFails, money
<1>10. CASE handleSend \/ handleReceive \/ TokenFails \/ \E o \in Ops : PayerPays(o) \/ OpExecutes(o) \/ OpFails(o)
  BY <1>10 DEF handleSend, handleReceive, TokenFails, PayerPays, OpExecutes, OpFails, money
<1> QED BY <1>6, <1>7, <1>8, <1>9, <1>10 DEF Next, Provider, Mint, TopUpPage, TokenPage

\* A step that leaves no read in flight leaves the wallet's balance on the page,
\* unless the last read failed, or there was none and nothing changed.
THEOREM ShownCurrent == Spec => ShownIsCurrent
<1> DEFINE Shown ==
      reads' = <<>> =>
        \/ balance' = Balance'
        \/ reads # <<>> /\ ReadFails
        \/ reads = <<>> /\ UNCHANGED <<log, view>>
<1>1. ASSUME WalletInv, WalletInv', [Next]_vars PROVE [Shown]_vars
  <2> SUFFICES ASSUME reads' = <<>>, ~(reads # <<>> /\ ReadFails),
                      ~(reads = <<>> /\ UNCHANGED <<log, view>>), ~UNCHANGED vars
               PROVE  balance' = Balance'
    OBVIOUS
  <2>1. CASE refreshBalance
    <3>1. reads # <<>> /\ view' = Head(reads).at /\ Tail(reads) = <<>> /\ log' = log
      BY <2>1 DEF refreshBalance
    <3>2. Len(log) \in Nat \ {0} /\ ReadsOK(reads, Len(log), view, Waiting)
      BY <1>1, LogGrows DEF WalletInv, ReadsInv
    <3>3. view' = Len(log') /\ view' # 0
      BY <3>1, <3>2, ReadEnds
    <3> QED BY <3>3 DEF balance, Balance
  <2>2. CASE ~refreshBalance
    <3>1. ~ReadFails
      BY DEF ReadFails
    <3> QED BY <1>1, <2>2, <3>1, Quiet
  <2> QED BY <2>1, <2>2
<1>2. WalletInv /\ WalletInv' /\ [Next]_vars => [Shown]_vars
  BY <1>1
<1> QED BY <1>2, WalletHolds, PTL DEF Spec, ShownIsCurrent
=============================================================================
