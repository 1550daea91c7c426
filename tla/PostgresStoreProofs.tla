------------------------ MODULE PostgresStoreProofs -------------------------
(***************************************************************************)
(* Proofs about the PostgreSQL store: with any number of calls, players    *)
(* and tables, failing where they may, its transactions implement the      *)
(* whole transfers of WalletLedger, a buy-in is handed out once, and a     *)
(* request that is repeated but not run twice at once is charged once.     *)
(*                                                                         *)
(* The argument is what a call may rely on between its lock and its        *)
(* commit: the wallet still holds the balance it read (Paying), the row it *)
(* is to consume is still pending (Taking), the id it drew is still        *)
(* unused (IdsUnused), and nobody else buys in for the player and table as *)
(* long as no two such calls ever met (ChargedOnce).                       *)
(***************************************************************************)
EXTENDS PostgresStoreProperties, SumProofs

\* A call between its lock on the wallet and its commit.
Paying ==
    \A c \in Calls : At(c, "commit") =>
        LET p == call[c].player
        IN  /\ walletLock[p] = c
            /\ HasWallet(p)
            /\ wallets[p] = call[c].balance
            /\ wallets[p] >= call[c].amount

\* A call between its lock on a buy-in and its commit.
Taking ==
    \A c \in Calls : At(c, "mark") =>
        /\ call[c].id \in BuyInIds
        /\ rowLock[call[c].id] = c
        /\ IsPending(call[c].id)

\* The sequence gives no id twice.
IdsUnused ==
    /\ \A b \in BuyInIds : b > lastId => buyIns[b] = NoRow
    /\ \A c \in Calls : At(c, "commit") =>
            /\ call[c].id \in 1 .. lastId
            /\ buyIns[call[c].id] = NoRow
            /\ \A d \in Calls : At(d, "commit") /\ d # c => call[d].id # call[c].id

Handed == \A b \in BuyInIds :
            /\ handed[b] \in {0, 1}
            /\ handed[b] = 1 => buyIns[b].status = "consumed"

Buying(c, p, t) ==
    /\ call[c].at \in {"look", "lock", "commit"}
    /\ call[c].op = "CreateBuyIn"
    /\ call[c].player = p
    /\ call[c].table = t

\* As long as no two calls of a player for a table met: there is one at most
\* under way, and nothing pending once it has looked.
ChargedOnce ==
    /\ \A c \in Calls : call[c].at \in {"look", "lock", "commit"}
                            => call[c].op = "CreateBuyIn"
    /\ \A p \in PlayerIds, t \in TableIds : <<p, t>> \notin overlapped =>
        /\ \A c, d \in Calls : Buying(c, p, t) /\ Buying(d, p, t) => c = d
        /\ \A c \in Calls : Buying(c, p, t) /\ ~ At(c, "look")
                => PendingOf(p, t) = {}
        /\ \A b, d \in PendingOf(p, t) : b = d

IInv == TypeOK /\ Paying /\ Taking /\ IdsUnused /\ Handed /\ ChargedOnce

-----------------------------------------------------------------------------
(* The records.                                                            *)

LEMMA UnusedIsCall == Unused \in CallRecord
<1>1. /\ (CHOOSE p \in PlayerIds : TRUE) \in PlayerIds
      /\ (CHOOSE t \in TableIds : TRUE) \in TableIds
      /\ (CHOOSE a \in Amounts : TRUE) \in Amounts
  BY RoomsAssumption
<1> QED
  BY <1>1 DEF Unused, CallRecord, Ops

\* No number of a call is NoCall, amounts are positive, and NoRow is no row.
LEMMA Numbers ==
    /\ \A c \in Calls : c \in Nat /\ c # NoCall
    /\ \A a \in Amounts : a \in Nat /\ a > 0
    /\ \A b \in BuyInIds : b \in Nat /\ b > 0
    /\ NoRow.status = "none"
BY AmountsAssumption, MaxCallsAssumption, MaxBuyInsAssumption
   DEF Calls, NoCall, BuyInIds, NoRow

LEMMA InitIInv == Init => IInv
<1> SUFFICES ASSUME Init PROVE IInv
  OBVIOUS
<1> USE DEF Init, LedgerInit
<1>1. TypeOK
  BY UnusedIsCall, MaxBuyInsAssumption
     DEF TypeOK, LedgerTypeOK, NoWallet, NoCall, BuyInIds
<1>2. \A c \in Calls : call[c].at = "new"
  BY DEF Unused
<1>3. \A p \in PlayerIds, t \in TableIds : PendingOf(p, t) = {}
  BY Numbers DEF PendingOf, IsPending
<1>4. Paying /\ Taking /\ IdsUnused
  BY <1>2 DEF Paying, Taking, IdsUnused, At
<1>5. Handed /\ ChargedOnce
  BY <1>2, <1>3 DEF Handed, ChargedOnce, Buying
<1> QED
  BY <1>1, <1>4, <1>5 DEF IInv

\* The call that takes a step is the only one it changes.
LEMMA End1 ==
    ASSUME TypeOK, NEW c \in Calls, End(c)
    PROVE  /\ call' \in [Calls -> CallRecord]
           /\ call'[c].at = "done"
           /\ \A d \in Calls : d # c => call'[d] = call[d]
<1>1. [Unused EXCEPT !.at = "done"] \in CallRecord
  BY UnusedIsCall DEF CallRecord
<1>2. [Unused EXCEPT !.at = "done"].at = "done"
  BY UnusedIsCall DEF CallRecord
<1> QED
  BY <1>1, <1>2 DEF End, TypeOK

\* A lock of another call stays with it.
LEMMA Unlock1 ==
    ASSUME TypeOK, NEW c \in Calls, Unlock(c)
    PROVE  /\ walletLock' \in [PlayerIds -> Calls \cup {NoCall}]
           /\ rowLock' \in [BuyInIds -> Calls \cup {NoCall}]
           /\ \A p \in PlayerIds : \A d \in Calls :
                    d # c /\ walletLock[p] = d => walletLock'[p] = d
           /\ \A b \in BuyInIds : \A d \in Calls :
                    d # c /\ rowLock[b] = d => rowLock'[b] = d
BY DEF Unlock, TypeOK

-----------------------------------------------------------------------------
(* The steps.                                                              *)

\* A call that goes on, or ends, without a commit.
LEMMA QuietKeepsIInv ==
    ASSUME IInv, NEW c \in Calls,
           UNCHANGED <<ledgerVars, lastId, history>>,
           call' \in [Calls -> CallRecord],
           walletLock' \in [PlayerIds -> Calls \cup {NoCall}],
           rowLock' \in [BuyInIds -> Calls \cup {NoCall}],
           \A d \in Calls : d # c => call'[d] = call[d],
           \A p \in PlayerIds : \A d \in Calls :
                d # c /\ walletLock[p] = d => walletLock'[p] = d,
           \A b \in BuyInIds : \A d \in Calls :
                d # c /\ rowLock[b] = d => rowLock'[b] = d,
           call'[c].at \notin {"commit", "mark", "look"},
           call'[c].at = "lock" =>
                /\ call[c].at = "look"
                /\ call'[c] = [call[c] EXCEPT !.at = "lock"]
                /\ PendingOf(call[c].player, call[c].table) = {}
    PROVE  IInv'
<1>1. TypeOK /\ Paying /\ Taking /\ IdsUnused /\ Handed /\ ChargedOnce
  BY DEF IInv
<1>2. UNCHANGED <<wallets, buyIns, lastId, paidIn, handed, overlapped>>
  BY DEF ledgerVars, history
<1>3. TypeOK'
  BY <1>1, <1>2 DEF TypeOK, LedgerTypeOK
<1>4. Paying'
  BY <1>1, <1>2 DEF Paying, At, HasWallet, TypeOK, CallRecord
<1>5. Taking'
  BY <1>1, <1>2 DEF Taking, At, IsPending
<1>6. IdsUnused' /\ Handed'
  BY <1>1, <1>2 DEF IdsUnused, At, Handed
<1>7. \A p \in PlayerIds, t \in TableIds : PendingOf(p, t)' = PendingOf(p, t)
  BY <1>2 DEF PendingOf, IsPending
<1>8. \A p \in PlayerIds, t \in TableIds : \A d \in Calls :
            Buying(d, p, t)' => Buying(d, p, t)
  BY <1>1 DEF Buying, TypeOK, CallRecord
<1>9. ChargedOnce'
  <2>1. \A d \in Calls : call'[d].at \in {"look", "lock", "commit"}
            => call'[d].op = "CreateBuyIn"
    BY <1>1 DEF ChargedOnce, TypeOK, CallRecord
  <2>2. ASSUME NEW p \in PlayerIds, NEW t \in TableIds, <<p, t>> \notin overlapped'
        PROVE  /\ \A b, d \in Calls : Buying(b, p, t)' /\ Buying(d, p, t)' => b = d
               /\ \A d \in Calls : Buying(d, p, t)' /\ call'[d].at # "look"
                        => PendingOf(p, t)' = {}
               /\ \A b, d \in PendingOf(p, t)' : b = d
    <3>1. <<p, t>> \notin overlapped
      BY <1>2, <2>2
    <3>2. \A b, d \in Calls : Buying(b, p, t) /\ Buying(d, p, t) => b = d
      BY <1>1, <3>1 DEF ChargedOnce
    <3>3. \A d \in Calls : Buying(d, p, t) /\ call[d].at # "look"
                => PendingOf(p, t) = {}
      BY <1>1, <3>1 DEF ChargedOnce, At
    <3>4. \A b, d \in PendingOf(p, t) : b = d
      BY <1>1, <3>1 DEF ChargedOnce
    <3>5. ASSUME NEW d \in Calls, Buying(d, p, t)', call'[d].at # "look"
          PROVE  PendingOf(p, t) = {}
      <4>1. CASE d # c
        BY <1>8, <3>3, <3>5, <4>1
      <4>2. CASE d = c
        <5>1. call'[c].at = "lock" /\ call'[c].player = p /\ call'[c].table = t
          BY <3>5, <4>2 DEF Buying
        <5>2. call[c].player = p /\ call[c].table = t
          BY <1>1, <5>1 DEF TypeOK, CallRecord
        <5> QED
          BY <5>1, <5>2
      <4> QED
        BY <4>1, <4>2
    <3> QED
      BY <1>7, <1>8, <3>2, <3>4, <3>5
  <2> QED
    BY <2>1, <2>2 DEF ChargedOnce, At
<1> QED
  BY <1>3, <1>4, <1>5, <1>6, <1>9 DEF IInv

LEMMA FailKeepsIInv ==
    ASSUME IInv, NEW c \in Calls, Fail(c)
    PROVE  IInv'
<1>1. TypeOK /\ End(c) /\ Unlock(c) /\ UNCHANGED <<ledgerVars, lastId, history>>
  BY DEF IInv, Fail
<1> QED
  BY <1>1, End1, Unlock1, QuietKeepsIInv

\* A caller that gives up on a commit leaves everything else as it was.
LEMMA GiveUpKeepsIInv ==
    ASSUME IInv, NEW c \in Calls, GiveUp(c)
    PROVE  IInv'
<1> DEFINE next == [call[c] EXCEPT !.waiting = FALSE]
<1>1. /\ TypeOK /\ Paying /\ Taking /\ IdsUnused /\ Handed /\ ChargedOnce
      /\ call' = [call EXCEPT ![c] = next]
      /\ UNCHANGED <<wallets, buyIns, walletLock, rowLock, lastId, paidIn, handed,
                     overlapped>>
  BY DEF IInv, GiveUp, ledgerVars, lockVars, history
<1>2. /\ next \in CallRecord
      /\ next.at = call[c].at /\ next.op = call[c].op
      /\ next.player = call[c].player /\ next.table = call[c].table
      /\ next.amount = call[c].amount /\ next.balance = call[c].balance
      /\ next.id = call[c].id
  BY <1>1 DEF TypeOK, CallRecord
<1> HIDE DEF next
<1>3. /\ call' \in [Calls -> CallRecord]
      /\ \A d \in Calls :
            /\ call'[d].at = call[d].at /\ call'[d].op = call[d].op
            /\ call'[d].player = call[d].player /\ call'[d].table = call[d].table
            /\ call'[d].amount = call[d].amount /\ call'[d].balance = call[d].balance
            /\ call'[d].id = call[d].id
  BY <1>1, <1>2 DEF TypeOK
<1>4. TypeOK'
  BY <1>1, <1>3 DEF TypeOK, LedgerTypeOK
<1>5. Paying' /\ Taking'
  BY <1>1, <1>3 DEF Paying, Taking, At, HasWallet, IsPending
<1>6. IdsUnused' /\ Handed'
  BY <1>1, <1>3 DEF IdsUnused, Handed, At
<1>7. ChargedOnce'
  <2>1. /\ \A p \in PlayerIds, t \in TableIds : PendingOf(p, t)' = PendingOf(p, t)
        /\ \A d \in Calls, p \in PlayerIds, t \in TableIds :
                Buying(d, p, t)' = Buying(d, p, t)
    BY <1>1, <1>3 DEF PendingOf, IsPending, Buying
  <2> QED
    BY <1>1, <1>3, <2>1 DEF ChargedOnce, At
<1> QED
  BY <1>4, <1>5, <1>6, <1>7 DEF IInv

LEMMA LookKeepsIInv ==
    ASSUME IInv, NEW c \in Calls, LookForPending(c)
    PROVE  IInv'
<1>1. /\ TypeOK /\ call[c].at = "look"
      /\ UNCHANGED <<walletLock, rowLock>>
      /\ UNCHANGED <<ledgerVars, lastId, history>>
  BY DEF IInv, LookForPending, At, lockVars
<1>2. CASE /\ PendingOf(call[c].player, call[c].table) = {}
           /\ Goto(c, "lock")
  <2>1. /\ call' = [call EXCEPT ![c] = [call[c] EXCEPT !.at = "lock"]]
        /\ [call[c] EXCEPT !.at = "lock"] \in CallRecord
        /\ [call[c] EXCEPT !.at = "lock"].at = "lock"
    BY <1>1, <1>2 DEF Goto, TypeOK, CallRecord
  <2>2. /\ call' \in [Calls -> CallRecord]
        /\ call'[c] = [call[c] EXCEPT !.at = "lock"]
        /\ call'[c].at = "lock"
        /\ \A d \in Calls : d # c => call'[d] = call[d]
    BY <1>1, <2>1 DEF TypeOK
  <2> QED
    BY <1>1, <1>2, <2>2, QuietKeepsIInv DEF TypeOK
<1>3. CASE End(c)
  BY <1>1, <1>3, End1, QuietKeepsIInv DEF TypeOK
<1> QED
  BY <1>2, <1>3 DEF LookForPending

LEMMA ScanKeepsIInv ==
    ASSUME IInv, NEW c \in Calls, ScanPending(c)
    PROVE  IInv'
<1> DEFINE seen == PendingOf(call[c].player, call[c].table)
           next == [call[c] EXCEPT !.at = "take", !.seen = seen]
<1>1. /\ TypeOK /\ UNCHANGED <<walletLock, rowLock>>
      /\ UNCHANGED <<ledgerVars, lastId, history>>
      /\ call' = [call EXCEPT ![c] = next]
  BY DEF IInv, ScanPending, lockVars
<1>2. seen \subseteq BuyInIds
  BY DEF PendingOf
<1>3. next \in CallRecord /\ next.at = "take"
  BY <1>1, <1>2 DEF TypeOK, CallRecord
<1>4. /\ call' \in [Calls -> CallRecord]
      /\ call'[c].at = "take"
      /\ \A d \in Calls : d # c => call'[d] = call[d]
  BY <1>1, <1>3 DEF TypeOK
<1> QED
  BY <1>1, <1>4, QuietKeepsIInv DEF TypeOK

\* A call begins: it is not buying in where another one is, or the two have met.
LEMMA BeginKeepsIInv ==
    ASSUME IInv, NEW c \in Calls, NEW op \in Ops, NEW p \in PlayerIds,
           NEW t \in TableIds, NEW amount \in Amounts, Begin(c, op, p, t, amount)
    PROVE  IInv'
<1> DEFINE begun == [Unused EXCEPT !.op = op, !.player = p, !.table = t,
                                   !.amount = amount, !.at = FirstStatement(op)]
           met == /\ op = "CreateBuyIn"
                  /\ \E d \in Calls : /\ Running(d)
                                      /\ call[d].op = op
                                      /\ call[d].player = p
                                      /\ call[d].table = t
<1>1. /\ TypeOK /\ Paying /\ Taking /\ IdsUnused /\ Handed /\ ChargedOnce
  BY DEF IInv
<1>2. /\ call' = [call EXCEPT ![c] = begun]
      /\ overlapped' = IF met THEN overlapped \cup {<<p, t>>} ELSE overlapped
      /\ call[c].at = "new"
      /\ UNCHANGED <<wallets, buyIns, walletLock, rowLock, lastId, paidIn, handed>>
  BY DEF Begin, At, ledgerVars, lockVars
<1>3. /\ FirstStatement(op) \in {"insert", "look", "scan"}
      /\ FirstStatement(op) = "look" => op = "CreateBuyIn"
  BY DEF Ops, FirstStatement
<1>4. /\ begun \in CallRecord
      /\ begun.at = FirstStatement(op) /\ begun.op = op
      /\ begun.player = p /\ begun.table = t
  BY <1>3, UnusedIsCall DEF CallRecord
<1>5. /\ call' \in [Calls -> CallRecord]
      /\ call'[c] = begun
      /\ \A d \in Calls : d # c => call'[d] = call[d]
  BY <1>1, <1>2, <1>4 DEF TypeOK
<1>6. TypeOK'
  BY <1>1, <1>2, <1>5 DEF TypeOK, LedgerTypeOK
<1>7. Paying' /\ Taking' /\ IdsUnused' /\ Handed'
  BY <1>1, <1>2, <1>3, <1>4, <1>5
     DEF Paying, Taking, IdsUnused, Handed, At, HasWallet, IsPending, TypeOK, CallRecord
<1>8. ChargedOnce'
  <2>1. \A d \in Calls : call'[d].at \in {"look", "lock", "commit"}
            => call'[d].op = "CreateBuyIn"
    BY <1>1, <1>3, <1>4, <1>5 DEF ChargedOnce
  <2>2. \A q \in PlayerIds, u \in TableIds : PendingOf(q, u)' = PendingOf(q, u)
    BY <1>2 DEF PendingOf, IsPending
  <2>3. ASSUME NEW q \in PlayerIds, NEW u \in TableIds, <<q, u>> \notin overlapped'
        PROVE  /\ \A b, d \in Calls : Buying(b, q, u)' /\ Buying(d, q, u)' => b = d
               /\ \A d \in Calls : Buying(d, q, u)' /\ call'[d].at # "look"
                        => PendingOf(q, u) = {}
               /\ \A b, d \in PendingOf(q, u) : b = d
    <3>1. <<q, u>> \notin overlapped
      BY <1>2, <2>3
    <3>2. /\ \A b, d \in Calls : Buying(b, q, u) /\ Buying(d, q, u) => b = d
          /\ \A d \in Calls : Buying(d, q, u) /\ call[d].at # "look"
                => PendingOf(q, u) = {}
          /\ \A b, d \in PendingOf(q, u) : b = d
      BY <1>1, <3>1 DEF ChargedOnce, At
    <3>3. \A d \in Calls : d # c => (Buying(d, q, u)' <=> Buying(d, q, u))
      BY <1>5 DEF Buying
    <3>4. Buying(c, q, u)' => q = p /\ u = t /\ op = "CreateBuyIn" /\ call'[c].at = "look"
      BY <1>3, <1>4, <1>5 DEF Buying
    <3>5. ASSUME Buying(c, q, u)', NEW d \in Calls, d # c PROVE ~ Buying(d, q, u)
      <4>1. q = p /\ u = t /\ op = "CreateBuyIn" /\ ~ met
        BY <1>2, <2>3, <3>4, <3>5
      <4>2. Buying(d, p, t) => Running(d) /\ call[d].op = op
                /\ call[d].player = p /\ call[d].table = t
        BY <4>1 DEF Buying, Running
      <4> QED
        BY <4>1, <4>2
    <3> QED
      BY <3>2, <3>3, <3>4, <3>5, <1>5
  <2> QED
    BY <2>1, <2>2, <2>3 DEF ChargedOnce, At
<1> QED
  BY <1>6, <1>7, <1>8 DEF IInv

\* EnsureWallet and CreditWallet write wallets nobody holds.
LEMMA WalletStepKeepsIInv ==
    ASSUME IInv, NEW c \in Calls, InsertWallet(c) \/ AddToWallet(c)
    PROVE  IInv' /\ [LedgerNext]_ledgerVars
<1> DEFINE p == call[c].player
           amount == call[c].amount
           balance == IF call[c].op = "EnsureWallet" THEN InitialBalance ELSE 0
<1>1. /\ TypeOK /\ Paying /\ Taking /\ IdsUnused /\ Handed /\ ChargedOnce
  BY DEF IInv
<1>2. /\ p \in PlayerIds /\ amount \in Amounts
      /\ InitialBalance \in Nat /\ balance \in {0, InitialBalance}
      /\ NoWallet \notin Nat
  BY <1>1, InitialBalanceAssumption DEF TypeOK, CallRecord, NoWallet
<1>3. /\ UNCHANGED <<walletLock, rowLock, lastId, handed, overlapped>>
      /\ call[c].at \in {"insert", "update"}
  BY DEF InsertWallet, AddToWallet, lockVars, At
<1>4. /\ call' \in [Calls -> CallRecord]
      /\ call'[c].at \in {"update", "done"}
      /\ \A d \in Calls : d # c => call'[d] = call[d]
  <2>1. CASE End(c)
    BY <1>1, <2>1, End1
  <2>2. CASE Goto(c, "update")
    <3>1. /\ call' = [call EXCEPT ![c] = [call[c] EXCEPT !.at = "update"]]
          /\ [call[c] EXCEPT !.at = "update"] \in CallRecord
          /\ [call[c] EXCEPT !.at = "update"].at = "update"
      BY <1>1, <2>2 DEF Goto, TypeOK, CallRecord
    <3> QED
      BY <1>1, <3>1 DEF TypeOK
  <2> QED
    BY <2>1, <2>2 DEF InsertWallet, AddToWallet
<1>5. \/ /\ Open(p, balance)
         /\ paidIn' = [paidIn EXCEPT ![p] = paidIn[p] + balance]
      \/ UNCHANGED <<ledgerVars, paidIn>>
      \/ /\ walletLock[p] = NoCall /\ Credit(p, amount)
         /\ paidIn' = [paidIn EXCEPT ![p] = paidIn[p] + amount]
  BY DEF InsertWallet, AddToWallet
<1>6. UNCHANGED buyIns
  BY <1>5 DEF Open, Credit, ledgerVars
<1>7. TypeOK'
  <2>1. wallets' \in [PlayerIds -> Nat \cup {NoWallet}]
    BY <1>1, <1>2, <1>5, Numbers
       DEF Open, Credit, ledgerVars, TypeOK, LedgerTypeOK, HasWallet
  <2>2. paidIn' \in [PlayerIds -> Nat]
    BY <1>1, <1>2, <1>5, Numbers DEF TypeOK
  <2> QED
    BY <1>1, <1>3, <1>4, <1>6, <2>1, <2>2 DEF TypeOK, LedgerTypeOK
<1>8. \A d \in Calls : call'[d].at \in {"look", "lock", "commit", "mark"} =>
            d # c /\ call'[d] = call[d]
  BY <1>4
<1>9. Paying'
  <2> SUFFICES ASSUME NEW d \in Calls, call'[d].at = "commit"
               PROVE  /\ wallets'[call[d].player] = wallets[call[d].player]
    BY <1>1, <1>3, <1>8 DEF Paying, At, HasWallet
  <2>1. /\ call[d].player \in PlayerIds
        /\ walletLock[call[d].player] = d /\ d # NoCall
        /\ wallets[call[d].player] # NoWallet
    BY <1>1, <1>8, Numbers DEF Paying, At, HasWallet, TypeOK, CallRecord
  <2> QED
    BY <1>1, <1>2, <1>5, <2>1
       DEF Open, Credit, ledgerVars, HasWallet, TypeOK, LedgerTypeOK
<1>10. Taking' /\ IdsUnused' /\ Handed'
  BY <1>1, <1>3, <1>6, <1>8 DEF Taking, IdsUnused, Handed, At, IsPending
<1>11. ChargedOnce'
  <2>1. \A d \in Calls, q \in PlayerIds, u \in TableIds :
            Buying(d, q, u)' => Buying(d, q, u) /\ call'[d] = call[d]
    BY <1>8 DEF Buying
  <2>2. \A q \in PlayerIds, u \in TableIds : PendingOf(q, u)' = PendingOf(q, u)
    BY <1>6 DEF PendingOf, IsPending
  <2>3. \A d \in Calls : call'[d].at \in {"look", "lock", "commit"}
            => call'[d].op = "CreateBuyIn"
    BY <1>1, <1>8 DEF ChargedOnce
  <2> QED
    BY <1>1, <1>3, <2>1, <2>2, <2>3 DEF ChargedOnce, At
<1>12. [LedgerNext]_ledgerVars
  BY <1>2, <1>5 DEF LedgerNext, ledgerVars
<1> QED
  BY <1>7, <1>9, <1>10, <1>11, <1>12 DEF IInv

LEMMA LockKeepsIInv ==
    ASSUME IInv, NEW c \in Calls, LockWallet(c)
    PROVE  IInv'
<1> DEFINE p == call[c].player
           amount == call[c].amount
           locked == [call[c] EXCEPT !.at = "commit", !.id = lastId + 1,
                                     !.balance = wallets[p]]
<1>1. /\ TypeOK /\ Paying /\ Taking /\ IdsUnused /\ Handed /\ ChargedOnce
      /\ p \in PlayerIds /\ amount \in Amounts
      /\ lastId \in Nat /\ MaxBuyIns \in Nat
  BY MaxBuyInsAssumption DEF IInv, TypeOK, CallRecord
<1>2. /\ call[c].at = "lock" /\ walletLock[p] = NoCall
      /\ UNCHANGED <<wallets, buyIns, rowLock, paidIn, handed, overlapped>>
  BY DEF LockWallet, At, ledgerVars, history
<1>3. CASE End(c) /\ UNCHANGED <<walletLock, lastId>>
  BY <1>1, <1>2, <1>3, End1, QuietKeepsIInv DEF TypeOK, ledgerVars, history
<1>4. CASE /\ HasWallet(p) /\ wallets[p] >= amount
           /\ lastId < MaxBuyIns
           /\ walletLock' = [walletLock EXCEPT ![p] = c]
           /\ lastId' = lastId + 1
           /\ call' = [call EXCEPT ![c] = locked]
  <2>1. lastId + 1 \in BuyInIds /\ wallets[p] \in Nat
    BY <1>1, <1>4 DEF BuyInIds, HasWallet, TypeOK, LedgerTypeOK
  <2>2. /\ locked \in CallRecord
        /\ locked.at = "commit" /\ locked.id = lastId + 1
        /\ locked.balance = wallets[p] /\ locked.player = p
        /\ locked.amount = amount /\ locked.op = call[c].op
        /\ locked.table = call[c].table
    BY <1>1, <2>1 DEF TypeOK, CallRecord
  <2>3. /\ call' \in [Calls -> CallRecord] /\ call'[c] = locked
        /\ \A d \in Calls : d # c => call'[d] = call[d]
    BY <1>1, <1>4, <2>2 DEF TypeOK
  <2>4. /\ walletLock' \in [PlayerIds -> Calls \cup {NoCall}]
        /\ walletLock'[p] = c
        /\ \A q \in PlayerIds : q # p => walletLock'[q] = walletLock[q]
    BY <1>1, <1>4 DEF TypeOK
  <2>5. TypeOK'
    BY <1>1, <1>2, <1>4, <2>1, <2>3, <2>4 DEF TypeOK, LedgerTypeOK, BuyInIds
  <2>6. Paying'
    <3> SUFFICES ASSUME NEW d \in Calls, call'[d].at = "commit"
                 PROVE  LET q == call'[d].player
                        IN  /\ walletLock'[q] = d
                            /\ wallets[q] # NoWallet
                            /\ wallets[q] = call'[d].balance
                            /\ wallets[q] >= call'[d].amount
      BY <1>2 DEF Paying, At, HasWallet
    <3>1. CASE d = c
      BY <1>4, <2>2, <2>3, <2>4, <3>1 DEF HasWallet
    <3>2. CASE d # c
      <4>1. call'[d] = call[d] /\ call[d].player \in PlayerIds
        BY <1>1, <2>3, <3>2 DEF TypeOK, CallRecord
      <4>2. walletLock[call[d].player] = d /\ d # NoCall
        BY <1>1, <4>1, Numbers DEF Paying, At
      <4> QED
        BY <1>1, <1>2, <2>4, <4>1, <4>2 DEF Paying, At, HasWallet
    <3> QED
      BY <3>1, <3>2
  <2>7. Taking' /\ Handed'
    <3>1. \A d \in Calls : call'[d].at = "mark" => d # c /\ call'[d] = call[d]
      BY <2>2, <2>3
    <3> QED
      BY <1>1, <1>2, <3>1 DEF Taking, Handed, At, IsPending
  <2>8. IdsUnused'
    <3>1. \A d \in Calls : d # c /\ call[d].at = "commit"
            => call[d].id \in 1 .. lastId /\ buyIns[call[d].id] = NoRow
      BY <1>1 DEF IdsUnused, At
    <3>2. \A b \in BuyInIds : b > lastId => buyIns[b] = NoRow
      BY <1>1 DEF IdsUnused
    <3>3. buyIns[lastId + 1] = NoRow
      BY <1>1, <2>1, <3>2
    <3>4. \A b \in BuyInIds : b > lastId' => buyIns'[b] = NoRow
      BY <1>1, <1>2, <1>4, <3>2 DEF BuyInIds
    <3>5. ASSUME NEW d \in Calls, call'[d].at = "commit"
          PROVE  /\ call'[d].id \in 1 .. lastId'
                 /\ buyIns'[call'[d].id] = NoRow
                 /\ \A e \in Calls : call'[e].at = "commit" /\ e # d
                        => call'[e].id # call'[d].id
      <4>1. CASE d = c
        BY <1>1, <1>2, <1>4, <2>2, <2>3, <3>1, <3>3, <4>1
      <4>2. CASE d # c
        <5>1. /\ call'[d] = call[d] /\ call[d].id \in 1 .. lastId
              /\ buyIns'[call[d].id] = NoRow
          BY <1>2, <2>3, <3>1, <3>5, <4>2
        <5>2. \A e \in Calls : e # c /\ call[e].at = "commit" /\ e # d
                    => call[e].id # call[d].id
          BY <1>1, <3>5, <5>1 DEF IdsUnused, At
        <5>3. \A e \in Calls : call'[e].at = "commit" /\ e # d
                    => call'[e].id # call[d].id
          <6> SUFFICES ASSUME NEW e \in Calls, call'[e].at = "commit", e # d
                       PROVE  call'[e].id # call[d].id
            OBVIOUS
          <6>1. CASE e = c
            <7>1. call'[e].id = lastId + 1
              BY <2>2, <2>3, <6>1
            <7>2. call[d].id # lastId + 1
              <8> DEFINE i == call[d].id
              <8>1. i \in 1 .. lastId /\ lastId \in Nat
                BY <1>1, <5>1
              <8> HIDE DEF i
              <8>2. i # lastId + 1
                BY <8>1
              <8> QED
                BY <8>2 DEF i
            <7> QED
              BY <7>1, <7>2
          <6>2. CASE e # c
            BY <2>3, <5>2, <6>2
          <6> QED
            BY <6>1, <6>2
        <5>4. call[d].id \in 1 .. lastId'
          BY <1>1, <1>4, <5>1
        <5> QED
          BY <5>1, <5>3, <5>4
      <4> QED
        BY <4>1, <4>2
    <3> QED
      BY <3>4, <3>5 DEF IdsUnused, At
  <2>9. ChargedOnce'
    <3>1. \A d \in Calls, q \in PlayerIds, u \in TableIds :
            /\ Buying(d, q, u)' => Buying(d, q, u)
            /\ Buying(d, q, u)' /\ call'[d].at # "look" => call[d].at # "look"
      <4> SUFFICES ASSUME NEW d \in Calls, NEW q \in PlayerIds,
                          NEW u \in TableIds, Buying(d, q, u)'
                   PROVE  /\ Buying(d, q, u)
                          /\ call'[d].at # "look" => call[d].at # "look"
        OBVIOUS
      <4>1. CASE d = c
        <5>1. call[c].op = "CreateBuyIn" /\ call[c].player = q
              /\ call[c].table = u
          BY <2>2, <2>3, <4>1 DEF Buying
        <5> QED
          BY <1>2, <4>1, <5>1 DEF Buying
      <4>2. CASE d # c
        BY <2>3, <4>2 DEF Buying
      <4> QED
        BY <4>1, <4>2
    <3>2. \A q \in PlayerIds, u \in TableIds : PendingOf(q, u)' = PendingOf(q, u)
      BY <1>2 DEF PendingOf, IsPending
    <3>3. \A d \in Calls : call'[d].at \in {"look", "lock", "commit"}
            => call'[d].op = "CreateBuyIn"
      BY <1>1, <1>2, <2>2, <2>3 DEF ChargedOnce
    <3> QED
      BY <1>1, <1>2, <3>1, <3>2, <3>3 DEF ChargedOnce, At
  <2> QED
    BY <2>5, <2>6, <2>7, <2>8, <2>9 DEF IInv
<1>5. call[c] \in CallRecord
  BY <1>1 DEF TypeOK
<1> QED
  BY <1>1, <1>3, <1>4, <1>5 DEF LockWallet, TypeOK, CallRecord

LEMMA CommitBuyInKeepsIInv ==
    ASSUME IInv, NEW c \in Calls, CommitBuyIn(c)
    PROVE  IInv' /\ [LedgerNext]_ledgerVars
<1> DEFINE p == call[c].player
           t == call[c].table
           amount == call[c].amount
           b == call[c].id
           row == [player |-> p, table |-> t, amount |-> amount,
                   status |-> "pending"]
<1>1. /\ TypeOK /\ Paying /\ Taking /\ IdsUnused /\ Handed /\ ChargedOnce
  BY DEF IInv
<1>2. /\ call[c].at = "commit"
      /\ wallets' = [wallets EXCEPT ![p] = call[c].balance - amount]
      /\ buyIns' = [buyIns EXCEPT ![b] = row]
      /\ End(c) /\ Unlock(c)
      /\ UNCHANGED <<lastId, paidIn, handed, overlapped>>
  BY DEF CommitBuyIn, At, history
<1>3. /\ p \in PlayerIds /\ t \in TableIds /\ amount \in Amounts
      /\ lastId \in 0 .. MaxBuyIns /\ MaxBuyIns \in Nat
  BY <1>1, MaxBuyInsAssumption DEF TypeOK, CallRecord
<1>4. /\ walletLock[p] = c /\ HasWallet(p) /\ wallets[p] = call[c].balance
      /\ wallets[p] >= amount
      /\ b \in BuyInIds /\ b <= lastId /\ buyIns[b] = NoRow
  BY <1>1, <1>2, <1>3 DEF Paying, IdsUnused, At, BuyInIds
<1>5. /\ call' \in [Calls -> CallRecord] /\ call'[c].at = "done"
      /\ \A d \in Calls : d # c => call'[d] = call[d]
  BY <1>1, <1>2, End1
<1>6. /\ walletLock' \in [PlayerIds -> Calls \cup {NoCall}]
      /\ rowLock' \in [BuyInIds -> Calls \cup {NoCall}]
      /\ \A q \in PlayerIds : \A d \in Calls :
            d # c /\ walletLock[q] = d => walletLock'[q] = d
      /\ \A i \in BuyInIds : \A d \in Calls :
            d # c /\ rowLock[i] = d => rowLock'[i] = d
  BY <1>1, <1>2, Unlock1
<1>7. /\ row \in Row /\ row.status = "pending" /\ row # NoRow
      /\ \A i \in BuyInIds : buyIns'[i] = IF i = b THEN row ELSE buyIns[i]
      /\ \A q \in PlayerIds : q # p => wallets'[q] = wallets[q]
      /\ NoRow.status = "none"
  BY <1>1, <1>2, <1>3, Numbers DEF Row, TypeOK, LedgerTypeOK
<1>8. TypeOK'
  <2>1. call[c].balance - amount \in Nat
    BY <1>1, <1>3, <1>4, Numbers DEF TypeOK, CallRecord
  <2>2. /\ wallets' \in [PlayerIds -> Nat \cup {NoWallet}]
        /\ buyIns' \in [BuyInIds -> Row \cup {NoRow}]
    BY <1>1, <1>2, <1>7, <2>1 DEF TypeOK, LedgerTypeOK
  <2> QED
    BY <1>1, <1>2, <1>5, <1>6, <2>2 DEF TypeOK, LedgerTypeOK
<1>9. Paying'
  <2> SUFFICES ASSUME NEW d \in Calls, call'[d].at = "commit"
               PROVE  LET q == call[d].player
                      IN  /\ walletLock'[q] = d
                          /\ wallets'[q] = wallets[q]
                          /\ call'[d] = call[d]
    BY <1>1 DEF Paying, At, HasWallet
  <2>1. /\ d # c /\ call'[d] = call[d]
        /\ call[d].player \in PlayerIds /\ walletLock[call[d].player] = d
    BY <1>1, <1>5 DEF Paying, At, TypeOK, CallRecord
  <2> QED
    BY <1>4, <1>6, <1>7, <2>1
<1>10. Taking'
  <2> SUFFICES ASSUME NEW d \in Calls, call'[d].at = "mark"
               PROVE  /\ call'[d] = call[d] /\ call[d].id \in BuyInIds
                      /\ rowLock'[call[d].id] = d
                      /\ buyIns'[call[d].id].status = "pending"
    BY DEF Taking, At, IsPending
  <2>1. /\ d # c /\ call'[d] = call[d] /\ call[d].id \in BuyInIds
        /\ rowLock[call[d].id] = d /\ buyIns[call[d].id].status = "pending"
    BY <1>1, <1>5 DEF Taking, At, IsPending
  <2> QED
    BY <1>4, <1>6, <1>7, <2>1
<1>11. IdsUnused'
  <2>1. \A i \in BuyInIds : i > lastId => buyIns'[i] = NoRow
    BY <1>1, <1>3, <1>4, <1>7 DEF IdsUnused, BuyInIds
  <2>2. ASSUME NEW d \in Calls, call'[d].at = "commit"
        PROVE  /\ call'[d].id \in 1 .. lastId
               /\ buyIns'[call'[d].id] = NoRow
               /\ \A e \in Calls : call'[e].at = "commit" /\ e # d
                        => call'[e].id # call'[d].id
    <3>1. d # c /\ call'[d] = call[d]
      BY <1>5, <2>2
    <3>2. /\ call[d].id \in 1 .. lastId /\ buyIns[call[d].id] = NoRow
          /\ call[d].id # b
      BY <1>1, <1>2, <2>2, <3>1 DEF IdsUnused, At
    <3>3. call[d].id \in BuyInIds
      BY <1>3, <3>2 DEF BuyInIds
    <3>4. \A e \in Calls : call'[e].at = "commit" => e # c /\ call'[e] = call[e]
      BY <1>5
    <3> QED
      BY <1>1, <1>7, <2>2, <3>1, <3>2, <3>3, <3>4 DEF IdsUnused, At
  <2> QED
    BY <1>2, <2>1, <2>2 DEF IdsUnused, At
<1>12. Handed'
  BY <1>1, <1>2, <1>4, <1>7 DEF Handed
<1>13. ChargedOnce'
  <2>1. \A d \in Calls : call'[d].at \in {"look", "lock", "commit"}
            => d # c /\ call'[d] = call[d] /\ call'[d].op = "CreateBuyIn"
    BY <1>1, <1>5 DEF ChargedOnce
  <2>2. Buying(c, p, t)
    BY <1>1, <1>2 DEF Buying, ChargedOnce
  <2>3. ASSUME NEW q \in PlayerIds, NEW u \in TableIds, <<q, u>> \notin overlapped
        PROVE  /\ \A d, e \in Calls : Buying(d, q, u)' /\ Buying(e, q, u)' => d = e
               /\ \A d \in Calls : Buying(d, q, u)' /\ call'[d].at # "look"
                        => PendingOf(q, u)' = {}
               /\ \A i, j \in PendingOf(q, u)' : i = j
    <3>1. /\ \A d, e \in Calls : Buying(d, q, u) /\ Buying(e, q, u) => d = e
          /\ \A d \in Calls : Buying(d, q, u) /\ call[d].at # "look"
                => PendingOf(q, u) = {}
          /\ \A i, j \in PendingOf(q, u) : i = j
      BY <1>1, <2>3 DEF ChargedOnce, At
    <3>2. \A d \in Calls : Buying(d, q, u)' => Buying(d, q, u) /\ d # c
                                    /\ call'[d] = call[d]
      BY <2>1 DEF Buying
    <3>3. CASE q = p /\ u = t
      <4>1. PendingOf(q, u) = {} /\ \A d \in Calls : ~ Buying(d, q, u)'
        BY <1>2, <2>2, <3>1, <3>2, <3>3
      <4>2. \A i \in PendingOf(q, u)' : i = b
        BY <1>7, <4>1 DEF PendingOf, IsPending
      <4> QED
        BY <4>1, <4>2
    <3>4. CASE ~ (q = p /\ u = t)
      <4>1. PendingOf(q, u)' = PendingOf(q, u)
        BY <1>4, <1>7, <3>4 DEF PendingOf, IsPending
      <4> QED
        BY <3>1, <3>2, <4>1
    <3> QED
      BY <3>3, <3>4
  <2> QED
    BY <1>2, <2>1, <2>3 DEF ChargedOnce, At
<1>14. Charge(p, t, amount, b)
  BY <1>2, <1>4 DEF Charge
<1> QED
  BY <1>3, <1>4, <1>8, <1>9, <1>10, <1>11, <1>12, <1>13, <1>14 DEF IInv, LedgerNext

LEMMA TakeKeepsIInv ==
    ASSUME IInv, NEW c \in Calls, TakePending(c)
    PROVE  IInv'
<1> DEFINE seen == call[c].seen
           marked(b) == [call[c] EXCEPT !.at = "mark", !.id = b]
           again(b) == [call[c] EXCEPT !.seen = seen \ {b}]
<1>1. /\ TypeOK /\ Paying /\ Taking /\ IdsUnused /\ Handed /\ ChargedOnce
      /\ call[c] \in CallRecord
  BY DEF IInv, TypeOK
<1>2. /\ call[c].at = "take"
      /\ UNCHANGED <<wallets, buyIns, walletLock, lastId, paidIn, handed,
                     overlapped>>
      /\ UNCHANGED <<ledgerVars, lastId, history>>
  BY DEF TakePending, At, ledgerVars, history
<1>3. CASE End(c) /\ UNCHANGED rowLock
  BY <1>1, <1>2, <1>3, End1, QuietKeepsIInv DEF TypeOK
<1>4. ASSUME NEW b \in seen, call' = [call EXCEPT ![c] = again(b)],
             UNCHANGED rowLock
      PROVE  IInv'
  <2>1. again(b) \in CallRecord /\ again(b).at = "take"
    BY <1>1, <1>2 DEF CallRecord
  <2>2. /\ call' \in [Calls -> CallRecord]
        /\ call'[c].at = "take"
        /\ \A d \in Calls : d # c => call'[d] = call[d]
    BY <1>1, <1>4, <2>1 DEF TypeOK
  <2> QED
    BY <1>1, <1>2, <1>4, <2>2, QuietKeepsIInv DEF TypeOK
<1>5. ASSUME NEW b \in seen, rowLock[b] = NoCall, IsPending(b),
             rowLock' = [rowLock EXCEPT ![b] = c],
             call' = [call EXCEPT ![c] = marked(b)]
      PROVE  IInv'
  <2> b \in BuyInIds
    BY <1>1 DEF CallRecord
  <2>1. marked(b) \in CallRecord /\ marked(b).at = "mark" /\ marked(b).id = b
    BY <1>1, <1>5 DEF CallRecord
  <2>2. /\ call' \in [Calls -> CallRecord]
        /\ call'[c].at = "mark" /\ call'[c].id = b
        /\ \A d \in Calls : d # c => call'[d] = call[d]
    BY <1>1, <1>5, <2>1 DEF TypeOK
  <2>3. /\ rowLock' \in [BuyInIds -> Calls \cup {NoCall}]
        /\ rowLock'[b] = c
        /\ \A i \in BuyInIds : i # b => rowLock'[i] = rowLock[i]
    BY <1>1, <1>5 DEF TypeOK
  <2>4. TypeOK'
    BY <1>1, <1>2, <2>2, <2>3 DEF TypeOK, LedgerTypeOK
  <2>5. \A d \in Calls : call'[d].at \in {"look", "lock", "commit"} =>
            d # c /\ call'[d] = call[d]
    BY <2>2
  <2>6. Paying' /\ IdsUnused' /\ Handed'
    BY <1>1, <1>2, <2>5 DEF Paying, IdsUnused, Handed, At, HasWallet
  <2>7. Taking'
    <3> SUFFICES ASSUME NEW d \in Calls, call'[d].at = "mark"
                 PROVE  /\ call'[d].id \in BuyInIds
                        /\ rowLock'[call'[d].id] = d
                        /\ IsPending(call'[d].id)
      BY <1>2 DEF Taking, At, IsPending
    <3>1. CASE d = c
      BY <1>5, <2>2, <2>3, <3>1
    <3>2. CASE d # c
      <4>1. /\ call'[d] = call[d] /\ call[d].id \in BuyInIds
            /\ rowLock[call[d].id] = d /\ IsPending(call[d].id) /\ d # NoCall
        BY <1>1, <2>2, <3>2, Numbers DEF Taking, At
      <4> QED
        BY <1>5, <2>3, <4>1
    <3> QED
      BY <3>1, <3>2
  <2>8. ChargedOnce'
    <3>1. \A d \in Calls, q \in PlayerIds, u \in TableIds :
            Buying(d, q, u)' => Buying(d, q, u) /\ call'[d] = call[d]
      BY <2>5 DEF Buying
    <3>2. \A q \in PlayerIds, u \in TableIds : PendingOf(q, u)' = PendingOf(q, u)
      BY <1>2 DEF PendingOf, IsPending
    <3>3. \A d \in Calls : call'[d].at \in {"look", "lock", "commit"}
            => call'[d].op = "CreateBuyIn"
      BY <1>1, <2>5 DEF ChargedOnce
    <3> QED
      BY <1>1, <1>2, <3>1, <3>2, <3>3 DEF ChargedOnce, At
  <2> QED
    BY <2>4, <2>6, <2>7, <2>8 DEF IInv
<1> QED
  BY <1>1, <1>3, <1>4, <1>5 DEF TakePending, TypeOK, CallRecord

LEMMA CommitConsumeKeepsIInv ==
    ASSUME IInv, NEW c \in Calls, CommitConsume(c)
    PROVE  IInv' /\ [LedgerNext]_ledgerVars
<1> DEFINE b == call[c].id
           row == [buyIns[b] EXCEPT !.status = "consumed"]
<1>1. /\ TypeOK /\ Paying /\ Taking /\ IdsUnused /\ Handed /\ ChargedOnce
  BY DEF IInv
<1>2. /\ call[c].at = "mark"
      /\ buyIns' = [buyIns EXCEPT ![b] = row]
      /\ \/ handed' = [handed EXCEPT ![b] = handed[b] + 1]
         \/ UNCHANGED handed
      /\ End(c) /\ Unlock(c)
      /\ UNCHANGED <<wallets, lastId, paidIn, overlapped>>
  BY DEF CommitConsume, At
<1>3. /\ b \in BuyInIds /\ rowLock[b] = c
      /\ buyIns[b].status = "pending" /\ buyIns[b] # NoRow
  BY <1>1, <1>2, Numbers DEF Taking, At, IsPending
<1>4. buyIns[b] \in Row
  BY <1>1, <1>3 DEF TypeOK, LedgerTypeOK
<1>5. /\ row \in Row /\ row.status = "consumed"
      /\ \A i \in BuyInIds : buyIns'[i] = IF i = b THEN row ELSE buyIns[i]
  BY <1>1, <1>2, <1>4 DEF Row, TypeOK, LedgerTypeOK
<1>6. /\ call' \in [Calls -> CallRecord] /\ call'[c].at = "done"
      /\ \A d \in Calls : d # c => call'[d] = call[d]
  BY <1>1, <1>2, End1
<1>7. /\ walletLock' \in [PlayerIds -> Calls \cup {NoCall}]
      /\ rowLock' \in [BuyInIds -> Calls \cup {NoCall}]
      /\ \A q \in PlayerIds : \A d \in Calls :
            d # c /\ walletLock[q] = d => walletLock'[q] = d
      /\ \A i \in BuyInIds : \A d \in Calls :
            d # c /\ rowLock[i] = d => rowLock'[i] = d
  BY <1>1, <1>2, Unlock1
<1>8. handed[b] = 0
  BY <1>1, <1>3 DEF Handed
<1>9. TypeOK'
  <2>1. buyIns' \in [BuyInIds -> Row \cup {NoRow}]
    BY <1>1, <1>2, <1>5 DEF TypeOK, LedgerTypeOK
  <2>2. handed' \in [BuyInIds -> Nat]
    BY <1>1, <1>2, <1>8 DEF TypeOK
  <2> QED
    BY <1>1, <1>2, <1>6, <1>7, <2>1, <2>2 DEF TypeOK, LedgerTypeOK
<1>10. \A d \in Calls : call'[d].at \in {"look", "lock", "commit", "mark"} =>
            d # c /\ call'[d] = call[d]
  BY <1>6
<1>11. Paying'
  <2> SUFFICES ASSUME NEW d \in Calls, call'[d].at = "commit"
               PROVE  walletLock'[call[d].player] = d
    BY <1>1, <1>2, <1>10 DEF Paying, At, HasWallet
  <2>1. /\ call[d].player \in PlayerIds /\ walletLock[call[d].player] = d
        /\ d # c
    BY <1>1, <1>10 DEF Paying, At, TypeOK, CallRecord
  <2> QED
    BY <1>7, <2>1
<1>12. Taking'
  <2> SUFFICES ASSUME NEW d \in Calls, call'[d].at = "mark"
               PROVE  /\ call'[d] = call[d] /\ call[d].id \in BuyInIds
                      /\ rowLock'[call[d].id] = d
                      /\ buyIns'[call[d].id].status = "pending"
    BY DEF Taking, At, IsPending
  <2>1. /\ d # c /\ call'[d] = call[d] /\ call[d].id \in BuyInIds
        /\ rowLock[call[d].id] = d /\ buyIns[call[d].id].status = "pending"
    BY <1>1, <1>10 DEF Taking, At, IsPending
  <2> QED
    BY <1>3, <1>5, <1>7, <2>1
<1>13. IdsUnused'
  <2>1. \A i \in BuyInIds : i > lastId => buyIns'[i] = NoRow
    BY <1>1, <1>3, <1>5 DEF IdsUnused
  <2>2. ASSUME NEW d \in Calls, call'[d].at = "commit"
        PROVE  /\ call'[d].id \in 1 .. lastId
               /\ buyIns'[call'[d].id] = NoRow
               /\ \A e \in Calls : call'[e].at = "commit" /\ e # d
                        => call'[e].id # call'[d].id
    <3>1. d # c /\ call'[d] = call[d]
      BY <1>10, <2>2
    <3>2. call[d].id \in 1 .. lastId /\ buyIns[call[d].id] = NoRow
      BY <1>1, <2>2, <3>1 DEF IdsUnused, At
    <3>3. call[d].id \in BuyInIds
      BY <1>1, <3>2, MaxBuyInsAssumption DEF TypeOK, BuyInIds
    <3>4. buyIns'[call[d].id] = NoRow
      BY <1>3, <1>5, <3>2, <3>3
    <3>5. \A e \in Calls : call'[e].at = "commit" /\ e # d
                => call[e].id # call[d].id /\ call'[e] = call[e]
      BY <1>1, <1>10, <2>2, <3>1 DEF IdsUnused, At
    <3> QED
      BY <3>1, <3>2, <3>4, <3>5
  <2> QED
    BY <1>2, <2>1, <2>2 DEF IdsUnused, At
<1>14. Handed'
  <2> SUFFICES ASSUME NEW i \in BuyInIds
               PROVE  /\ handed'[i] \in {0, 1}
                      /\ handed'[i] = 1 => buyIns'[i].status = "consumed"
    BY DEF Handed
  <2>1. CASE i = b
    <3>1. buyIns'[i].status = "consumed"
      BY <1>5, <2>1
    <3>2. handed'[b] \in {0, 1}
      BY <1>1, <1>2, <1>3, <1>8 DEF TypeOK
    <3> QED
      BY <2>1, <3>1, <3>2
  <2>2. CASE i # b
    <3>1. handed'[i] = handed[i]
      BY <1>1, <1>2, <2>2 DEF TypeOK
    <3> QED
      BY <1>1, <1>5, <2>2, <3>1 DEF Handed
  <2> QED
    BY <2>1, <2>2
<1>15. ChargedOnce'
  <2>1. \A d \in Calls, q \in PlayerIds, u \in TableIds :
            Buying(d, q, u)' => Buying(d, q, u) /\ call'[d] = call[d]
    BY <1>10 DEF Buying
  <2>2. \A q \in PlayerIds, u \in TableIds :
            PendingOf(q, u)' \subseteq PendingOf(q, u)
    BY <1>5 DEF PendingOf, IsPending
  <2>3. \A d \in Calls : call'[d].at \in {"look", "lock", "commit"}
            => call'[d].op = "CreateBuyIn"
    BY <1>1, <1>10 DEF ChargedOnce
  <2>4. ASSUME NEW q \in PlayerIds, NEW u \in TableIds, <<q, u>> \notin overlapped
        PROVE  /\ \A d, e \in Calls : Buying(d, q, u)' /\ Buying(e, q, u)' => d = e
               /\ \A d \in Calls : Buying(d, q, u)' /\ call'[d].at # "look"
                        => PendingOf(q, u)' = {}
               /\ \A i, j \in PendingOf(q, u)' : i = j
    <3>1. /\ \A d, e \in Calls : Buying(d, q, u) /\ Buying(e, q, u) => d = e
          /\ \A d \in Calls : Buying(d, q, u) /\ call[d].at # "look"
                => PendingOf(q, u) = {}
          /\ \A i, j \in PendingOf(q, u) : i = j
      BY <1>1, <2>4 DEF ChargedOnce, At
    <3>2. PendingOf(q, u) = {} => PendingOf(q, u)' = {}
      BY <2>2
    <3>3. \A i, j \in PendingOf(q, u)' : i = j
      BY <2>2, <3>1
    <3> QED
      BY <2>1, <3>1, <3>2, <3>3
  <2> QED
    BY <1>2, <2>3, <2>4 DEF ChargedOnce, At
<1>16. Consume(b)
  BY <1>2, <1>3 DEF Consume, IsPending
<1> QED
  BY <1>3, <1>9, <1>11, <1>12, <1>13, <1>14, <1>15, <1>16 DEF IInv, LedgerNext

-----------------------------------------------------------------------------
(* The specification.                                                      *)

LEMMA NextKeepsIInv ==
    ASSUME IInv, [Next]_vars
    PROVE  IInv' /\ [LedgerNext]_ledgerVars
<1>1. ASSUME NEW c \in Calls, NEW op \in Ops, NEW p \in PlayerIds,
             NEW t \in TableIds, NEW amount \in Amounts,
             Begin(c, op, p, t, amount)
      PROVE  IInv' /\ [LedgerNext]_ledgerVars
  BY <1>1, BeginKeepsIInv DEF Begin
<1>2. ASSUME NEW c \in Calls, Fail(c)
      PROVE  IInv' /\ [LedgerNext]_ledgerVars
  BY <1>2, FailKeepsIInv DEF Fail
<1>2a. ASSUME NEW c \in Calls, GiveUp(c)
       PROVE  IInv' /\ [LedgerNext]_ledgerVars
  BY <1>2a, GiveUpKeepsIInv DEF GiveUp
<1>3. ASSUME NEW c \in Calls, Step(c)
      PROVE  IInv' /\ [LedgerNext]_ledgerVars
  <2>1. CASE InsertWallet(c) \/ AddToWallet(c)
    BY <2>1, WalletStepKeepsIInv
  <2>2. CASE LookForPending(c)
    BY <2>2, LookKeepsIInv DEF LookForPending
  <2>3. CASE LockWallet(c)
    BY <2>3, LockKeepsIInv DEF LockWallet
  <2>4. CASE CommitBuyIn(c)
    BY <2>4, CommitBuyInKeepsIInv
  <2>5. CASE ScanPending(c)
    BY <2>5, ScanKeepsIInv DEF ScanPending
  <2>6. CASE TakePending(c)
    BY <2>6, TakeKeepsIInv DEF TakePending
  <2>7. CASE CommitConsume(c)
    BY <2>7, CommitConsumeKeepsIInv
  <2> QED
    BY <1>3, <2>1, <2>2, <2>3, <2>4, <2>5, <2>6, <2>7 DEF Step
<1>4. CASE UNCHANGED vars
  <2>1. UNCHANGED <<wallets, buyIns, walletLock, rowLock, lastId, call, paidIn,
                    handed, overlapped>>
    BY <1>4 DEF vars
  <2>2. TypeOK'
    BY <2>1 DEF IInv, TypeOK, LedgerTypeOK
  <2>3. Paying' /\ Taking' /\ IdsUnused' /\ Handed'
    BY <2>1 DEF IInv, Paying, Taking, IdsUnused, Handed, At, HasWallet, IsPending
  <2>4. ChargedOnce'
    BY <2>1 DEF IInv, ChargedOnce, Buying, PendingOf, IsPending, At
  <2> QED
    BY <2>1, <2>2, <2>3, <2>4 DEF IInv, ledgerVars
<1> QED
  BY <1>1, <1>2, <1>2a, <1>3, <1>4 DEF Next

LEMMA AlwaysIInv == Spec => []IInv
<1>1. Init => IInv
  BY InitIInv
<1>2. IInv /\ [Next]_vars => IInv'
  BY NextKeepsIInv
<1> QED
  BY <1>1, <1>2, PTL DEF Spec

\* Every variable of the store keeps its type (postgres_event_store.go).
THEOREM TypeCorrect == Spec => []TypeOK
<1>1. IInv => TypeOK
  BY DEF IInv
<1> QED
  BY <1>1, AlwaysIInv, PTL

\* However many calls of ConsumePendingBuyIn race for a buy-in, and wherever
\* they fail, one caller gets it (postgres_event_store.go 332-371).
THEOREM HandedOutOnce == Spec => []HandedOnce
<1>1. IInv => HandedOnce
  BY DEF IInv, Handed, HandedOnce
<1> QED
  BY <1>1, AlwaysIInv, PTL

\* A CreateBuyIn repeated after the first has ended, also one whose commit
\* nobody heard of, finds the pending buy-in and charges nothing
\* (postgres_event_store.go 238-266).
THEOREM RetriesChargedOnce == Spec => []RetriesChargeOnce
<1>1. IInv => RetriesChargeOnce
  BY DEF IInv, ChargedOnce, RetriesChargeOnce
<1> QED
  BY <1>1, AlwaysIInv, PTL

\* The store's statements and locks implement the whole transfers its callers
\* rely on: of every step, the wallets and buy-ins see one transfer or nothing.
THEOREM StoreImplementsLedger == Spec => ImplementsLedger
<1>1. Init => LedgerInit
  BY DEF Init
<1>2. IInv /\ [Next]_vars => [LedgerNext]_ledgerVars
  BY NextKeepsIInv
<1> QED
  BY <1>1, <1>2, AlwaysIInv, PTL DEF Spec, ImplementsLedger, LedgerSpec

-----------------------------------------------------------------------------
(* The chips of a player.                                                  *)

\* A player without a wallet has put nothing in and paid for nothing.
Balance(p) == IF HasWallet(p) THEN wallets[p] ELSE 0

Conserved == \A p \in PlayerIds : Balance(p) + SumFunction(Charged(p)) = paidIn[p]

(* What was charged is a number for each buy-in.                           *)
LEMMA ChargesAreNumbers ==
    ASSUME LedgerTypeOK, NEW p \in PlayerIds
    PROVE  /\ DOMAIN Charged(p) = BuyInIds
           /\ \A b \in BuyInIds : Charged(p)[b] \in Nat
BY Numbers DEF Charged, LedgerTypeOK, Row

LEMMA BuyInIdsFinite == IsFiniteSet(BuyInIds)
BY MaxBuyInsAssumption, FS_Interval DEF BuyInIds

(* A new row adds its amount to what its player was charged, and nothing   *)
(* to what others were.                                                    *)
LEMMA NewRowIsCharged ==
    ASSUME LedgerTypeOK, LedgerTypeOK', NEW b \in BuyInIds, buyIns[b] = NoRow,
           NEW row \in Row, row # NoRow, buyIns' = [buyIns EXCEPT ![b] = row],
           NEW p \in PlayerIds
    PROVE  /\ SumFunction(Charged(p)) \in Int
           /\ SumFunction(Charged(p)') =
                SumFunction(Charged(p)) + (IF row.player = p THEN row.amount ELSE 0)
<1>1. /\ DOMAIN Charged(p) = BuyInIds /\ DOMAIN Charged(p)' = BuyInIds
      /\ \A d \in BuyInIds : Charged(p)[d] \in Int /\ Charged(p)'[d] \in Int
  BY ChargesAreNumbers, Numbers DEF Charged, LedgerTypeOK, Row
<1>2. /\ buyIns'[b] = row
      /\ \A d \in BuyInIds \ {b} : buyIns'[d] = buyIns[d]
  BY DEF LedgerTypeOK
<1>3. /\ \A d \in BuyInIds \ {b} : Charged(p)'[d] = Charged(p)[d]
      /\ Charged(p)[b] = 0
      /\ Charged(p)'[b] = IF row.player = p THEN row.amount ELSE 0
  BY <1>2 DEF Charged
<1> QED
  BY <1>1, <1>3, BuyInIdsFinite, SumChangesAt DEF SumFunction

(* A row that changes its status only is charged as before.                *)
LEMMA StatusIsNotCharged ==
    ASSUME LedgerTypeOK, NEW b \in BuyInIds, IsPending(b),
           buyIns' = [buyIns EXCEPT ![b].status = "consumed"],
           NEW p \in PlayerIds
    PROVE  Charged(p)' = Charged(p)
<1>1. buyIns[b] \in Row
  BY Numbers DEF LedgerTypeOK, IsPending
<1>2. /\ buyIns'[b] = [buyIns[b] EXCEPT !.status = "consumed"]
      /\ \A d \in BuyInIds \ {b} : buyIns'[d] = buyIns[d]
  BY DEF LedgerTypeOK
<1>3. /\ buyIns'[b].player = buyIns[b].player
      /\ buyIns'[b].amount = buyIns[b].amount
      /\ buyIns'[b] # NoRow /\ buyIns[b] # NoRow
  <2>1. "player" \in DOMAIN buyIns[b] /\ "player" \in DOMAIN buyIns'[b]
    BY <1>1, <1>2 DEF Row
  <2>2. "player" \notin DOMAIN NoRow
    BY DEF NoRow
  <2> QED
    BY <1>1, <1>2, <2>1, <2>2 DEF Row
<1> QED
  BY <1>2, <1>3 DEF Charged

LEMMA NextConserves ==
    ASSUME IInv, IInv', Conserved, [Next]_vars
    PROVE  Conserved'
<1>1. /\ LedgerTypeOK /\ LedgerTypeOK'
      /\ paidIn \in [PlayerIds -> Nat]
      /\ call \in [Calls -> CallRecord]
      /\ \A p \in PlayerIds : wallets[p] \in Nat \cup {NoWallet}
  BY DEF IInv, TypeOK, LedgerTypeOK
<1>2. CASE UNCHANGED <<wallets, buyIns, paidIn>>
  BY <1>2 DEF Conserved, Balance, HasWallet, Charged
<1>3. ASSUME NEW c \in Calls, InsertWallet(c)
      PROVE  Conserved'
  <2> DEFINE p == call[c].player
             balance == IF call[c].op = "EnsureWallet" THEN InitialBalance ELSE 0
  <2>1. p \in PlayerIds /\ balance \in Nat
    BY <1>1, InitialBalanceAssumption DEF CallRecord
  <2>2. CASE UNCHANGED <<ledgerVars, paidIn>>
    BY <1>2, <2>2 DEF ledgerVars
  <2>3. CASE Open(p, balance) /\ paidIn' = [paidIn EXCEPT ![p] = paidIn[p] + balance]
    <3>1. /\ wallets' = [wallets EXCEPT ![p] = balance] /\ buyIns' = buyIns
          /\ wallets[p] = NoWallet
      BY <2>3 DEF Open, HasWallet
    <3> HIDE DEF p, balance
    <3>2. SUFFICES ASSUME NEW q \in PlayerIds
                   PROVE  Balance(q)' + SumFunction(Charged(q))' = paidIn'[q]
      BY DEF Conserved
    <3>3. Charged(q)' = Charged(q) /\ SumFunction(Charged(q)) \in Int
      BY <1>1, <3>1, ChargesAreNumbers, BuyInIdsFinite, SumFacts DEF Charged, SumFunction
    <3>4. Balance(q) + SumFunction(Charged(q)) = paidIn[q]
      BY DEF Conserved
    <3>5. CASE q = p
      <4>1. Balance(q) = 0 /\ Balance(q)' = balance /\ paidIn'[q] = paidIn[q] + balance
        BY <1>1, <2>1, <2>3, <3>1, <3>5 DEF Balance, HasWallet, LedgerTypeOK, NoWallet
      <4> QED
        BY <1>1, <2>1, <3>3, <3>4, <4>1
    <3>6. CASE q # p
      BY <1>1, <2>3, <3>1, <3>3, <3>4, <3>6 DEF Balance, HasWallet, LedgerTypeOK
    <3> QED
      BY <3>5, <3>6
  <2> QED
    BY <1>3, <2>2, <2>3 DEF InsertWallet
<1>4. ASSUME NEW c \in Calls, AddToWallet(c)
      PROVE  Conserved'
  <2> DEFINE p == call[c].player
             amount == call[c].amount
  <2>1. p \in PlayerIds /\ amount \in Nat
    BY <1>1, Numbers DEF CallRecord
  <2>2. /\ wallets' = [wallets EXCEPT ![p] = wallets[p] + amount] /\ buyIns' = buyIns
        /\ paidIn' = [paidIn EXCEPT ![p] = paidIn[p] + amount]
        /\ wallets[p] \in Nat
    BY <1>1, <1>4, <2>1 DEF AddToWallet, Credit, HasWallet
  <2> HIDE DEF p, amount
  <2>3. SUFFICES ASSUME NEW q \in PlayerIds
                 PROVE  Balance(q)' + SumFunction(Charged(q))' = paidIn'[q]
    BY DEF Conserved
  <2>4. Charged(q)' = Charged(q) /\ SumFunction(Charged(q)) \in Int
    BY <1>1, <2>2, ChargesAreNumbers, BuyInIdsFinite, SumFacts DEF Charged, SumFunction
  <2>5. Balance(q) + SumFunction(Charged(q)) = paidIn[q]
    BY DEF Conserved
  <2>6. CASE q = p
    <3>1. Balance(q) = wallets[q] /\ Balance(q)' = wallets[q] + amount
      BY <1>1, <2>1, <2>2, <2>6 DEF Balance, HasWallet, LedgerTypeOK, NoWallet
    <3>2. paidIn'[q] = paidIn[q] + amount
      BY <1>1, <2>2, <2>6
    <3> QED
      BY <1>1, <2>1, <2>2, <2>4, <2>5, <2>6, <3>1, <3>2
  <2>7. CASE q # p
    BY <1>1, <2>2, <2>4, <2>5, <2>7 DEF Balance, HasWallet, LedgerTypeOK
  <2> QED
    BY <2>6, <2>7
<1>5. ASSUME NEW c \in Calls, CommitBuyIn(c)
      PROVE  Conserved'
  <2> DEFINE p == call[c].player
             amount == call[c].amount
             b == call[c].id
             row == [player |-> p, table |-> call[c].table, amount |-> amount,
                     status |-> "pending"]
  <2>1. /\ p \in PlayerIds /\ amount \in Nat /\ row \in Row
    BY <1>1, Numbers DEF CallRecord, Row
  <2>2. row # NoRow /\ row.player = p /\ row.amount = amount
    BY Numbers
  <2>3. /\ wallets[p] = call[c].balance /\ wallets[p] \in Nat /\ wallets[p] >= amount
        /\ b \in BuyInIds /\ buyIns[b] = NoRow
    BY <1>1, <1>5, <2>1, MaxBuyInsAssumption
       DEF CommitBuyIn, IInv, Paying, IdsUnused, HasWallet, TypeOK, BuyInIds
  <2>4. /\ wallets' = [wallets EXCEPT ![p] = wallets[p] - amount]
        /\ buyIns' = [buyIns EXCEPT ![b] = row]
        /\ paidIn' = paidIn
    BY <1>5, <2>3 DEF CommitBuyIn, history
  <2> HIDE DEF p, amount, b, row
  <2>5. SUFFICES ASSUME NEW q \in PlayerIds
                 PROVE  Balance(q)' + SumFunction(Charged(q))' = paidIn'[q]
    BY DEF Conserved
  <2>6. /\ SumFunction(Charged(q)) \in Int
        /\ SumFunction(Charged(q)') =
                SumFunction(Charged(q)) + (IF row.player = q THEN row.amount ELSE 0)
    BY <1>1, <2>1, <2>2, <2>3, <2>4, NewRowIsCharged
  <2>7. Balance(q) + SumFunction(Charged(q)) = paidIn[q]
    BY DEF Conserved
  <2>8. CASE q = p
    <3>1. Balance(q) = wallets[q] /\ Balance(q)' = wallets[q] - amount
      BY <1>1, <2>1, <2>3, <2>4, <2>8 DEF Balance, HasWallet, LedgerTypeOK, NoWallet
    <3>2. SumFunction(Charged(q)') = SumFunction(Charged(q)) + amount
      BY <2>2, <2>6, <2>8
    <3> QED
      BY <1>1, <2>1, <2>3, <2>4, <2>6, <2>7, <2>8, <3>1, <3>2
  <2>9. CASE q # p
    <3>1. Balance(q)' = Balance(q)
      BY <1>1, <2>4, <2>9 DEF Balance, HasWallet, LedgerTypeOK
    <3> QED
      BY <2>2, <2>4, <2>6, <2>7, <2>9, <3>1
  <2> QED
    BY <2>8, <2>9
<1>6. ASSUME NEW c \in Calls, CommitConsume(c)
      PROVE  Conserved'
  <2>1. /\ call[c].id \in BuyInIds /\ IsPending(call[c].id)
        /\ buyIns' = [buyIns EXCEPT ![call[c].id].status = "consumed"]
        /\ wallets' = wallets /\ paidIn' = paidIn
    BY <1>6 DEF CommitConsume, IInv, Taking
  <2>2. \A q \in PlayerIds : Charged(q)' = Charged(q)
    BY <1>1, <2>1, StatusIsNotCharged
  <2> QED
    BY <2>1, <2>2 DEF Conserved, Balance, HasWallet
<1>7. ASSUME NEW c \in Calls,
             \/ \E op \in Ops, p \in PlayerIds, t \in TableIds, amount \in Amounts :
                    Begin(c, op, p, t, amount)
             \/ Fail(c) \/ GiveUp(c)
             \/ LookForPending(c) \/ LockWallet(c) \/ ScanPending(c) \/ TakePending(c)
      PROVE  UNCHANGED <<wallets, buyIns, paidIn>>
  BY <1>7 DEF Begin, Fail, GiveUp, LookForPending, LockWallet, ScanPending, TakePending,
              ledgerVars, history
<1>8. CASE UNCHANGED vars
  BY <1>2, <1>8 DEF vars
<1> QED
  BY <1>2, <1>3, <1>4, <1>5, <1>6, <1>7, <1>8 DEF Next, Step

\* No chip of a player is made or lost, however the calls interleave, fail or
\* commit unheard, for any number of calls, players and amounts: what was put
\* into a wallet is in it or in the player's buy-ins (postgres_event_store.go
\* 165-371).
THEOREM ChipsAlwaysConserved == Spec => []ChipsConserved
<1>1. Init => Conserved
  <2> SUFFICES ASSUME Init PROVE Conserved
    OBVIOUS
  <2>1. LedgerTypeOK /\ \A p \in PlayerIds : \A b \in BuyInIds : Charged(p)[b] = 0
    BY InitIInv DEF Init, LedgerInit, Charged, IInv, TypeOK
  <2>2. \A p \in PlayerIds : SumFunction(Charged(p)) = 0
    <3> SUFFICES ASSUME NEW p \in PlayerIds PROVE SumFunction(Charged(p)) = 0
      OBVIOUS
    <3>1. DOMAIN Charged(p) = BuyInIds
      BY DEF Charged
    <3>2. SumFunctionOnSet(Charged(p), BuyInIds) = 0
      BY <2>1, BuyInIdsFinite, SumOfZeros
    <3> QED
      BY <3>1, <3>2 DEF SumFunction
  <2>3. \A p \in PlayerIds : Balance(p) = 0 /\ paidIn[p] = 0
    BY DEF Init, LedgerInit, Balance, HasWallet
  <2>4. ASSUME NEW p \in PlayerIds
        PROVE  Balance(p) + SumFunction(Charged(p)) = paidIn[p]
    <3>1. Balance(p) = 0 /\ paidIn[p] = 0 /\ SumFunction(Charged(p)) = 0
      BY <2>2, <2>3
    <3>2. 0 + 0 = 0
      OBVIOUS
    <3> QED
      BY <3>1, <3>2, Zenon
  <2> QED
    BY <2>4 DEF Conserved
<1>2. IInv /\ IInv' /\ Conserved /\ [Next]_vars => Conserved'
  BY NextConserves
<1>3. Conserved => ChipsConserved
  BY DEF Conserved, ChipsConserved, Balance
<1> QED
  BY <1>1, <1>2, <1>3, AlwaysIInv, PTL DEF Spec
=============================================================================
