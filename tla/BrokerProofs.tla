---------------------------- MODULE BrokerProofs ----------------------------
(***************************************************************************)
(* Proofs about Broker, for every set of orders and every bound.  The      *)
(* inductive invariant Inv says of each record, on disk or in memory, that *)
(* the operations it has left behind really ended outside (RecordOK), and  *)
(* that an open order's sequence number is an entry of the book.  Crashes  *)
(* and overwritten entries keep it: every record that is read back is one  *)
(* that was written, and what happened outside is never undone.            *)
(*                                                                         *)
(* OnceInv adds what a record that has still to give a command implies:    *)
(* nothing of it took effect but what was lost, and nothing of the later   *)
(* operations.  An open order is the only one of its id, and the entry of  *)
(* the book that a restart reads is at the operation the order is at.      *)
(***************************************************************************)
EXTENDS Broker, TLAPS

\* The part of the type invariant about the outside.
WorldOK ==
    /\ effects \in [OrderOps -> [Orders -> Nat]]
    /\ lost \in [OrderOps -> [Orders -> Nat]]
    /\ credited \in [Orders -> SUBSET Nat]
    /\ filled \in [Orders -> SUBSET Nat]
    /\ balance \in Nat

\* The operations that record r has left behind have ended outside, where c and f
\* are the credited deposits and the filled exchanges.
Progress(r, c, f) ==
    /\ r.stage # "makingDeposit" => Deposit[r.id] = "none" \/ c[r.id] # {}
    /\ r.stage \in {"withdrawing", "completed"} => f[r.id] # {}

\* A record is one of an order that asks for the operations it carries out.
Asked(r) ==
    /\ r.op["makingDeposit"].stage = "skip" => Deposit[r.id] = "none"
    /\ r.op["makingDeposit"].stage \in {"check", "execute"} => r.id \in Makers
    /\ r.op["withdrawing"].stage = "skip" <=> r.id \notin Withdraw

\* The part of NoPhantom about one record, where e are the effects.
Real(r, e) ==
    /\ r.txid <= e["makingDeposit"][r.id]
    /\ r.marketId <= e["exchanging"][r.id]
    /\ r.id \in Makers /\ r.op["makingDeposit"].stage \in {"verify", "confirm"} => r.txid > 0
    /\ r.op["exchanging"].stage \in {"verify", "done"} => r.marketId > 0
    /\ r.op["withdrawing"].stage = "verify" => e["withdrawing"][r.id] > 0

\* The part of ConvertedOnce about one record.
Amount(r) ==
    r.id \in Withdraw =>
        r.amount = IF r.op["withdrawing"].stage = "check" THEN Percent
                                                          ELSE Percent * Quantity[r.id]

RecordOK(r, e, c, f) == Progress(r, c, f) /\ Asked(r) /\ Real(r, e) /\ Amount(r)

Inv ==
    /\ TypeOK
    /\ \A i \in DOMAIN book : RecordOK(book[i], effects, credited, filled)
    /\ \A o \in open :
        RecordOK(o, effects, credited, filled) /\ o.sequence + 1 \in DOMAIN book

\* What has happened outside stays.
Grows ==
    /\ \A k \in OrderOps, g \in Orders : effects[k][g] <= effects'[k][g]
    /\ \A g \in Orders : credited[g] \subseteq credited'[g] /\ filled[g] \subseteq filled'[g]

-----------------------------------------------------------------------------
(* Records *)

LEMMA RecordStays ==
    ASSUME WorldOK, WorldOK', Grows,
           NEW r \in BrokerOrder, RecordOK(r, effects, credited, filled)
    PROVE  RecordOK(r, effects', credited', filled')
<1>1. r.id \in Orders /\ r.txid \in Nat /\ r.marketId \in Nat
  BY DEF BrokerOrder
<1>2. Progress(r, credited', filled')
  BY <1>1 DEF RecordOK, Progress, Grows
<1>3. Real(r, effects')
  <2>1. \A k \in OrderOps : /\ effects[k][r.id] \in Nat /\ effects'[k][r.id] \in Nat
                            /\ effects[k][r.id] <= effects'[k][r.id]
    BY <1>1 DEF WorldOK, Grows
  <2> QED
    BY <1>1, <2>1 DEF RecordOK, Real, OrderOps
<1> QED
  BY <1>2, <1>3 DEF RecordOK

LEMMA NewOrderOK ==
    ASSUME WorldOK, NEW g \in Orders
    PROVE  NewOrder(g) \in BrokerOrder /\ RecordOK(NewOrder(g), effects, credited, filled)
<1>1. NewOrder(g) \in BrokerOrder
  BY ConstantsOK DEF NewOrder, BrokerOrder, BrokerOp, OpStages, OpStatuses, OrderOps
<1>2. /\ NewOrder(g).id = g /\ NewOrder(g).stage = "makingDeposit"
      /\ NewOrder(g).txid = 0 /\ NewOrder(g).marketId = 0
      /\ NewOrder(g).amount = IF g \in Withdraw THEN Percent ELSE 0
      /\ NewOrder(g).op["exchanging"].stage = "check"
      /\ NewOrder(g).op["withdrawing"].stage = IF g \in Withdraw THEN "check" ELSE "skip"
      /\ NewOrder(g).op["makingDeposit"].stage =
            IF Deposit[g] = "make" THEN "check"
            ELSE IF Deposit[g] = "expect" THEN "verify" ELSE "skip"
  BY DEF NewOrder, OrderOps
<1>3. effects["makingDeposit"][g] \in Nat /\ effects["exchanging"][g] \in Nat
  BY DEF WorldOK, OrderOps
<1>4. Deposit[g] \in {"make", "expect", "none"}
  BY ConstantsOK
<1> QED
  BY <1>1, <1>2, <1>3, <1>4 DEF RecordOK, Progress, Asked, Real, Amount, Makers

\* The records At and Over make are orders with the same id and sequence.
LEMMA AtType ==
    ASSUME NEW o \in BrokerOrder, ~Completed(o), NEW s \in OpStages
    PROVE  /\ At(o, s) \in BrokerOrder
           /\ At(o, s).sequence = o.sequence
BY DEF At, Completed, BrokerOrder, BrokerOp, OpStatuses, OrderOps

LEMMA OverType ==
    ASSUME NEW o \in BrokerOrder, ~Completed(o), NEW s \in OpStages, NEW t \in OpStatuses
    PROVE  /\ Over(o, s, t) \in BrokerOrder
           /\ Over(o, s, t).sequence = o.sequence
BY DEF Over, Completed, BrokerOrder, BrokerOp, OrderOps

-----------------------------------------------------------------------------
(* The two ways a step ends *)

LEMMA ReturnInv ==
    ASSUME Inv, WorldOK', Grows,
           NEW o \in todo, NEW new \in BrokerOrder, NEW result,
           new.sequence = o.sequence, RecordOK(new, effects', credited', filled'),
           Return(o, new, result)
    PROVE  Inv'
<1> USE DEF Inv
<1>1. /\ WorldOK
      /\ o \in open /\ o \in BrokerOrder
      /\ book \in Seq(BrokerOrder)
      /\ o.sequence + 1 \in DOMAIN book
  BY DEF TypeOK, WorldOK
<1>2. /\ book' \in Seq(BrokerOrder) /\ DOMAIN book' = DOMAIN book
      /\ \A i \in DOMAIN book : book'[i] = book[i] \/ book'[i] = new
  BY <1>1 DEF Return
<1>3. open' \subseteq open \cup {new}
  BY DEF Return
<1>4. TypeOK'
  BY <1>1, <1>2, <1>3 DEF TypeOK, Return, WorldOK
<1>5. ASSUME NEW i \in DOMAIN book' PROVE RecordOK(book'[i], effects', credited', filled')
  <2>1. i \in DOMAIN book /\ (book'[i] = book[i] \/ book'[i] = new)
    BY <1>2, <1>5
  <2>2. book[i] \in BrokerOrder /\ RecordOK(book[i], effects, credited, filled)
    BY <1>1, <2>1
  <2>3. RecordOK(book[i], effects', credited', filled')
    BY <1>1, <2>2, RecordStays
  <2> QED
    BY <2>1, <2>3
<1>6. ASSUME NEW n \in open' PROVE RecordOK(n, effects', credited', filled') /\ n.sequence + 1 \in DOMAIN book'
  <2>1. CASE n = new
    BY <1>1, <1>2, <2>1
  <2>2. CASE n \in open
    BY <1>1, <1>2, <2>2, RecordStays DEF TypeOK
  <2> QED
    BY <1>3, <2>1, <2>2
<1> QED
  BY <1>4, <1>5, <1>6

LEMMA RestartInv ==
    ASSUME Inv, WorldOK', Grows, Restart
    PROVE  Inv'
<1> USE DEF Inv
<1>1. WorldOK /\ book \in Seq(BrokerOrder) /\ book' = book
  BY DEF TypeOK, WorldOK, Restart
<1>2. ASSUME NEW n \in open'
      PROVE  n \in BrokerOrder /\ RecordOK(n, effects', credited', filled') /\ n.sequence + 1 \in DOMAIN book'
  <2>1. PICK i \in DOMAIN book : n = [book[i] EXCEPT !.sequence = i - 1]
    BY <1>2 DEF Restart, Reopened
  <2>2. book[i] \in BrokerOrder /\ i \in Nat \ {0} /\ RecordOK(book[i], effects', credited', filled')
    BY <1>1, <2>1, RecordStays
  <2>3. i - 1 \in Nat /\ (i - 1) + 1 = i
    BY <2>2
  <2>6. n \in BrokerOrder /\ n.sequence = i - 1
    BY <2>1, <2>2, <2>3 DEF BrokerOrder
  <2>4. /\ n.id = book[i].id /\ n.stage = book[i].stage /\ n.op = book[i].op
        /\ n.txid = book[i].txid /\ n.marketId = book[i].marketId
        /\ n.amount = book[i].amount
    BY <2>1, <2>2 DEF BrokerOrder
  <2>5. RecordOK(n, effects', credited', filled')
    BY <2>2, <2>4 DEF RecordOK, Progress, Asked, Real, Amount
  <2> QED
    BY <1>1, <2>3, <2>5, <2>6
<1>3. TypeOK'
  <2>1. known' \subseteq Makers
    BY ConstantsOK DEF Restart
  <2>2. crashes' \in 0..MaxCrashes
    BY ConstantsOK DEF Restart, TypeOK
  <2> QED
    BY <1>1, <1>2, <2>1, <2>2 DEF TypeOK, WorldOK, Restart
<1>4. \A i \in DOMAIN book' : RecordOK(book'[i], effects', credited', filled')
  BY <1>1, RecordStays
<1> QED
  BY <1>2, <1>3, <1>4

-----------------------------------------------------------------------------
(* The steps of the loop *)

\* What the guard of a step says of the order in hand.
LEMMA InHandOK ==
    ASSUME Inv, NEW k \in OrderOps, NEW opStages, NEW o \in todo, InHand(o, k, opStages)
    PROVE  /\ o \in BrokerOrder /\ o.id \in Orders /\ ~Completed(o)
           /\ o.stage = k /\ o.op[k].stage \in opStages
           /\ RecordOK(o, effects, credited, filled)
           /\ WorldOK
BY DEF Inv, TypeOK, WorldOK, InHand, BrokerOrder, Completed, OrderOps

LEMMA AtFields ==
    ASSUME NEW o \in BrokerOrder, NEW k \in OrderOps, o.stage = k, NEW s \in OpStages
    PROVE  /\ At(o, s) \in BrokerOrder
           /\ At(o, s).id = o.id /\ At(o, s).sequence = o.sequence
           /\ At(o, s).stage = k
           /\ At(o, s).txid = o.txid /\ At(o, s).marketId = o.marketId
           /\ At(o, s).amount = o.amount
           /\ At(o, s).op[k].stage = s
           /\ \A j \in OrderOps \ {k} : At(o, s).op[j].stage = o.op[j].stage
BY DEF At, BrokerOrder, BrokerOp, OpStatuses, OrderOps

LEMMA OverFields ==
    ASSUME NEW o \in BrokerOrder, NEW k \in OrderOps, o.stage = k,
           NEW s \in OpStages, NEW t \in OpStatuses
    PROVE  /\ Over(o, s, t) \in BrokerOrder
           /\ Over(o, s, t).id = o.id /\ Over(o, s, t).sequence = o.sequence
           /\ k = "makingDeposit" => Over(o, s, t).stage = "exchanging"
           /\ k = "exchanging" => Over(o, s, t).stage = "withdrawing"
           /\ k = "withdrawing" => Over(o, s, t).stage = "completed"
           /\ Over(o, s, t).txid = o.txid /\ Over(o, s, t).marketId = o.marketId
           /\ Over(o, s, t).amount = o.amount
           /\ Over(o, s, t).op[k].stage = s
           /\ \A j \in OrderOps \ {k} : Over(o, s, t).op[j].stage = o.op[j].stage
BY DEF Over, BrokerOrder, BrokerOp, OrderOps

\* A step that changes nothing outside and leaves the order at a stage that
\* claims no more than before.
LEMMA StayInv ==
    ASSUME Inv, NEW k \in OrderOps, NEW opStages, NEW o \in todo, InHand(o, k, opStages),
           NEW s \in OpStages, NEW result,
           s = o.op[k].stage \/ (k = "makingDeposit" /\ o.op[k].stage = "verify" /\ s = "confirm")
             \/ (k = "withdrawing" /\ s = "confirm" /\ o.op[k].stage = "verify"),
           Return(o, At(o, s), result), UNCHANGED world
    PROVE  Inv'
<1>1. /\ o \in BrokerOrder /\ o.id \in Orders
      /\ o.stage = k /\ RecordOK(o, effects, credited, filled) /\ WorldOK
  BY InHandOK
<1>2. RecordOK(At(o, s), effects, credited, filled)
  BY <1>1, AtFields, SMTT(30) DEF RecordOK, Progress, Asked, Real, Amount, OrderOps
<1>3. WorldOK' /\ Grows
  BY <1>1 DEF WorldOK, Grows, world
<1>4. RecordOK(At(o, s), effects', credited', filled')
  BY <1>2 DEF world
<1> QED
  BY <1>1, <1>3, <1>4, AtFields, ReturnInv

\* A step that changes nothing outside and ends an operation.
LEMMA EndInv ==
    ASSUME Inv, NEW o \in todo, NEW new \in BrokerOrder, NEW result,
           new.sequence = o.sequence, RecordOK(new, effects, credited, filled),
           Return(o, new, result), UNCHANGED world
    PROVE  Inv'
<1>1. WorldOK' /\ Grows
  BY DEF Inv, TypeOK, WorldOK, Grows, world
<1>2. RecordOK(new, effects', credited', filled')
  BY DEF world
<1> QED
  BY <1>1, <1>2, ReturnInv

\* Count adds one at the order's operation and id, and nowhere else.
LEMMA CountType ==
    ASSUME NEW counter \in [OrderOps -> [Orders -> Nat]],
           NEW o \in BrokerOrder, o.stage \in OrderOps
    PROVE  /\ Count(counter, o) \in [OrderOps -> [Orders -> Nat]]
           /\ \A k \in OrderOps, g \in Orders :
                Count(counter, o)[k][g] =
                    IF k = o.stage /\ g = o.id THEN counter[k][g] + 1 ELSE counter[k][g]
           /\ \A k \in OrderOps \ {o.stage} : Count(counter, o)[k] = counter[k]
<1>1. o.id \in Orders
  BY DEF BrokerOrder
<1> DEFINE row == [counter[o.stage] EXCEPT ![o.id] = counter[o.stage][o.id] + 1]
<1>2. row \in [Orders -> Nat]
  BY <1>1
<1>3. Count(counter, o) = [counter EXCEPT ![o.stage] = row]
  BY DEF Count
<1>4. \A g \in Orders : row[g] = IF g = o.id THEN counter[o.stage][g] + 1 ELSE counter[o.stage][g]
  BY <1>1
<1> HIDE DEF row
<1> QED
  BY <1>2, <1>3, <1>4

\* Counting one more effect keeps the outside well typed.
LEMMA CountGrows ==
    ASSUME WorldOK, NEW o \in BrokerOrder, o.stage \in OrderOps,
           effects' = Count(effects, o), lost' \in {lost, Count(lost, o)},
           balance' \in Nat, UNCHANGED <<credited, filled>>
    PROVE  /\ WorldOK' /\ Grows
           /\ effects'[o.stage][o.id] = effects[o.stage][o.id] + 1
           /\ \A k \in OrderOps \ {o.stage} : effects'[k] = effects[k]
<1>1. o.id \in Orders
  BY DEF BrokerOrder
<1>2. /\ effects' \in [OrderOps -> [Orders -> Nat]]
      /\ lost' \in [OrderOps -> [Orders -> Nat]]
  BY CountType DEF WorldOK
<1>3. \A k \in OrderOps, g \in Orders :
        effects'[k][g] = IF k = o.stage /\ g = o.id THEN effects[k][g] + 1 ELSE effects[k][g]
  BY CountType DEF WorldOK
<1>4. \A k \in OrderOps \ {o.stage} : effects'[k] = effects[k]
  BY CountType DEF WorldOK
<1>5. \A k \in OrderOps, g \in Orders : effects[k][g] \in Nat
  BY DEF WorldOK
<1>6. WorldOK'
  BY <1>2 DEF WorldOK
<1>7. Grows
  BY <1>3, <1>5 DEF Grows
<1> QED
  BY <1>1, <1>3, <1>4, <1>6, <1>7

\* A call that is not answered leaves the record at execute, or the process dead.
LEMMA UnansweredInv ==
    ASSUME Inv, NEW o \in todo, o.stage \in OrderOps, NEW retry \in BrokerOrder,
           retry.sequence = o.sequence, RecordOK(retry, effects, credited, filled),
           Unanswered(o, retry), balance' \in Nat, UNCHANGED <<credited, filled>>
    PROVE  Inv'
<1>1. WorldOK /\ o \in BrokerOrder
  BY DEF Inv, TypeOK, WorldOK
<1>2. CASE UNCHANGED <<effects, lost>> /\ Return(o, retry, "IERROR")
  <2>1. WorldOK' /\ Grows
    BY <1>1, <1>2 DEF WorldOK, Grows
  <2>2. RecordOK(retry, effects', credited', filled')
    BY <1>2
  <2> QED
    BY <1>2, <2>1, <2>2, ReturnInv
<1>3. CASE effects' = Count(effects, o) /\ lost' = Count(lost, o) /\ (Return(o, retry, "IERROR") \/ Restart)
  <2>1. WorldOK' /\ Grows
    BY <1>1, <1>3, CountGrows
  <2>2. RecordOK(retry, effects', credited', filled')
    BY <1>1, <2>1, RecordStays
  <2> QED
    BY <1>3, <2>1, <2>2, ReturnInv, RestartInv
<1> QED
  BY <1>2, <1>3 DEF Unanswered

\* Every step of processOrderDeposit keeps the invariant.
LEMMA DepositInv ==
    ASSUME Inv, NEW o \in todo, ProcessDeposit(o)
    PROVE  Inv'
<1> DEFINE k == "makingDeposit"
<1> k \in OrderOps
  BY DEF OrderOps
<1> USE DEF OpStages
<1>1. CASE SkipDeposit(o)
  <2>1. InHand(o, k, {"skip"}) /\ Return(o, Over(o, "skip", "skipped"), "IOK") /\ UNCHANGED world
    BY <1>1 DEF SkipDeposit
  <2>2. /\ o \in BrokerOrder /\ o.stage = k /\ o.op[k].stage = "skip"
        /\ RecordOK(o, effects, credited, filled)
    BY <2>1, InHandOK
  <2>3. "skipped" \in OpStatuses
    BY DEF OpStatuses
  <2>4. RecordOK(Over(o, "skip", "skipped"), effects, credited, filled)
    <3> DEFINE end == Over(o, "skip", "skipped")
    <3>1. /\ end.id = o.id /\ end.stage = "exchanging"
          /\ end.txid = o.txid /\ end.marketId = o.marketId /\ end.amount = o.amount
          /\ end.op[k].stage = "skip"
          /\ \A j \in OrderOps \ {k} : end.op[j].stage = o.op[j].stage
      BY <2>2, <2>3, OverFields
    <3> HIDE DEF end
    <3>2. Progress(end, credited, filled)
      BY <2>1, <2>2, <3>1 DEF RecordOK, Progress, Asked
    <3>3. RecordOK(end, effects, credited, filled)
      BY <2>2, <3>1, <3>2 DEF RecordOK, Asked, Real, Amount, OrderOps
    <3> QED
      BY <3>3 DEF end
  <2> QED
    BY <2>1, <2>2, <2>3, <2>4, OverFields, EndInv
<1>2. CASE CheckDeposit(o)
  <2>1. InHand(o, k, {"check"}) /\ Return(o, At(o, "check"), "IAGAIN") /\ UNCHANGED world
    BY <1>2 DEF CheckDeposit
  <2>2. o.op[k].stage = "check"
    BY <2>1, InHandOK
  <2> QED
    BY <2>1, <2>2, StayInv
<1>3. CASE DepositSent(o)
  <2> DEFINE n == effects[k][o.id] + 1
             new == [At(o, "verify") EXCEPT !.txid = n]
  <2>1. /\ InHand(o, k, {"check", "execute"})
        /\ effects' = Count(effects, o) /\ lost' = lost /\ Return(o, new, "IOK")
        /\ UNCHANGED <<credited, filled, balance>>
    BY <1>3 DEF DepositSent, Answered
  <2>2. /\ o \in BrokerOrder /\ o.id \in Orders /\ o.stage = k
        /\ o.op[k].stage \in {"check", "execute"}
        /\ RecordOK(o, effects, credited, filled) /\ WorldOK
    BY <2>1, InHandOK
  <2>3. WorldOK' /\ Grows /\ effects'[k][o.id] = n
    BY <2>1, <2>2, CountGrows DEF WorldOK
  <2>4. n \in Nat /\ n > 0
    BY <2>2 DEF WorldOK
  <2>5. RecordOK(o, effects', credited', filled')
    BY <2>2, <2>3, RecordStays
  <2>6. /\ new \in BrokerOrder /\ new.id = o.id /\ new.sequence = o.sequence
        /\ new.stage = k /\ new.txid = n /\ new.marketId = o.marketId /\ new.amount = o.amount
        /\ new.op[k].stage = "verify"
        /\ \A j \in OrderOps \ {k} : new.op[j].stage = o.op[j].stage
    <3>1. At(o, "verify") \in BrokerOrder /\ new = [At(o, "verify") EXCEPT !.txid = n]
      BY <2>2, AtFields
    <3>2. /\ new \in BrokerOrder /\ new.id = At(o, "verify").id
          /\ new.sequence = At(o, "verify").sequence
          /\ new.stage = At(o, "verify").stage /\ new.txid = n
          /\ new.marketId = At(o, "verify").marketId /\ new.amount = At(o, "verify").amount
          /\ new.op = At(o, "verify").op
      BY <2>4, <3>1 DEF BrokerOrder
    <3> QED
      BY <2>2, <3>2, AtFields
  <2>7. RecordOK(new, effects', credited', filled')
    <3> HIDE DEF new
    <3>1. n <= effects'[k][o.id]
      BY <2>3, <2>4
    <3> QED
      BY <2>2, <2>4, <2>5, <2>6, <3>1 DEF RecordOK, Progress, Asked, Real, Amount, OrderOps
  <2> QED
    <3> HIDE DEF new
    <3> QED
      BY <2>1, <2>3, <2>6, <2>7, ReturnInv
<1>4. CASE DepositNotSent(o)
  <2>1. /\ InHand(o, k, {"check", "execute"}) /\ Unanswered(o, At(o, "execute"))
        /\ UNCHANGED <<credited, filled, balance>>
    BY <1>4 DEF DepositNotSent
  <2>2. /\ o \in BrokerOrder /\ o.stage = k /\ o.op[k].stage \in {"check", "execute"}
        /\ RecordOK(o, effects, credited, filled) /\ WorldOK
    BY <2>1, InHandOK
  <2>3. RecordOK(At(o, "execute"), effects, credited, filled)
    BY <2>2, AtFields DEF RecordOK, Progress, Asked, Real, Amount, OrderOps
  <2>4. balance' \in Nat
    BY <2>1, <2>2 DEF WorldOK
  <2> QED
    BY <2>1, <2>2, <2>3, <2>4, AtFields, UnansweredInv
<1>5. CASE VerifyDeposit(o)
  <2>1. InHand(o, k, {"verify"}) /\ Return(o, At(o, "verify"), "IERROR") /\ UNCHANGED world
    BY <1>5 DEF VerifyDeposit
  <2>2. o.op[k].stage = "verify"
    BY <2>1, InHandOK
  <2> QED
    BY <2>1, <2>2, StayInv
<1>6. CASE DepositPending(o)
  <2>1. InHand(o, k, {"verify", "confirm"}) /\ UNCHANGED world
    BY <1>6 DEF DepositPending
  <2>2. PICK result : Return(o, At(o, "confirm"), result)
    BY <1>6 DEF DepositPending
  <2>3. o.op[k].stage \in {"verify", "confirm"}
    BY <2>1, InHandOK
  <2> QED
    BY <2>1, <2>2, <2>3, StayInv
<1>7. CASE DepositConfirmed(o)
  <2>1. /\ InHand(o, k, {"verify", "confirm"}) /\ o.txid \in credited[o.id]
        /\ Return(o, Over(o, "confirm", "completed"), "IOK") /\ UNCHANGED world
    BY <1>7 DEF DepositConfirmed
  <2>2. /\ o \in BrokerOrder /\ o.stage = k /\ o.op[k].stage \in {"verify", "confirm"}
        /\ RecordOK(o, effects, credited, filled)
    BY <2>1, InHandOK
  <2>3. "completed" \in OpStatuses
    BY DEF OpStatuses
  <2>4. RecordOK(Over(o, "confirm", "completed"), effects, credited, filled)
    <3> DEFINE end == Over(o, "confirm", "completed")
    <3>1. /\ end.id = o.id /\ end.stage = "exchanging"
          /\ end.txid = o.txid /\ end.marketId = o.marketId /\ end.amount = o.amount
          /\ end.op[k].stage = "confirm"
          /\ \A j \in OrderOps \ {k} : end.op[j].stage = o.op[j].stage
      BY <2>2, <2>3, OverFields
    <3> HIDE DEF end
    <3>2. Progress(end, credited, filled)
      BY <2>1, <2>2, <3>1 DEF RecordOK, Progress, Asked
    <3>3. RecordOK(end, effects, credited, filled)
      BY <2>2, <3>1, <3>2 DEF RecordOK, Asked, Real, Amount, OrderOps
    <3> QED
      BY <3>3 DEF end
  <2> QED
    BY <2>1, <2>2, <2>3, <2>4, OverFields, EndInv
<1> QED
  BY <1>1, <1>2, <1>3, <1>4, <1>5, <1>6, <1>7 DEF ProcessDeposit

\* Every step of processOrderExchange keeps the invariant.
LEMMA ExchangeInv ==
    ASSUME Inv, NEW o \in todo, ProcessExchange(o)
    PROVE  Inv'
<1> DEFINE k == "exchanging"
<1> k \in OrderOps
  BY DEF OrderOps
<1> USE DEF OpStages
<1>1. CASE CheckExchange(o)
  <2>1. InHand(o, k, {"check"}) /\ Return(o, At(o, "check"), "IERROR") /\ UNCHANGED world
    BY <1>1 DEF CheckExchange
  <2>2. o.op[k].stage = "check"
    BY <2>1, InHandOK
  <2> QED
    BY <2>1, <2>2, StayInv
<1>2. CASE ExchangeCreated(o)
  <2> DEFINE n == effects[k][o.id] + 1
             new == [At(o, "verify") EXCEPT !.marketId = n, !.marketStatus = "New"]
  <2>1. /\ InHand(o, k, {"check", "execute"}) /\ balance > 0 /\ balance' = balance - 1
        /\ effects' = Count(effects, o) /\ lost' = lost /\ Return(o, new, "IOK")
        /\ UNCHANGED <<credited, filled>>
    BY <1>2 DEF ExchangeCreated, Answered
  <2>2. /\ o \in BrokerOrder /\ o.id \in Orders /\ o.stage = k
        /\ o.op[k].stage \in {"check", "execute"}
        /\ RecordOK(o, effects, credited, filled) /\ WorldOK
    BY <2>1, InHandOK
  <2>3. WorldOK' /\ Grows /\ effects'[k][o.id] = n
    BY <2>1, <2>2, CountGrows DEF WorldOK
  <2>4. n \in Nat /\ n > 0
    BY <2>2 DEF WorldOK
  <2>5. RecordOK(o, effects', credited', filled')
    BY <2>2, <2>3, RecordStays
  <2>6. /\ new \in BrokerOrder /\ new.id = o.id /\ new.sequence = o.sequence
        /\ new.stage = k /\ new.txid = o.txid /\ new.marketId = n /\ new.amount = o.amount
        /\ new.op[k].stage = "verify"
        /\ \A j \in OrderOps \ {k} : new.op[j].stage = o.op[j].stage
    <3>1. At(o, "verify") \in BrokerOrder
      BY <2>2, AtFields
    <3>2. /\ new \in BrokerOrder /\ new.id = At(o, "verify").id
          /\ new.sequence = At(o, "verify").sequence
          /\ new.stage = At(o, "verify").stage /\ new.marketId = n
          /\ new.txid = At(o, "verify").txid /\ new.amount = At(o, "verify").amount
          /\ new.op = At(o, "verify").op
      BY <2>4, <3>1 DEF BrokerOrder
    <3> QED
      BY <2>2, <3>2, AtFields
  <2>7. RecordOK(new, effects', credited', filled')
    <3> HIDE DEF new
    <3>1. n <= effects'[k][o.id]
      BY <2>3, <2>4
    <3> QED
      BY <2>2, <2>4, <2>5, <2>6, <3>1 DEF RecordOK, Progress, Asked, Real, Amount, OrderOps
  <2> QED
    <3> HIDE DEF new
    <3> QED
      BY <2>1, <2>3, <2>6, <2>7, ReturnInv
<1>3. CASE ExchangeNotCreated(o)
  <2>1. /\ InHand(o, k, {"check", "execute"}) /\ Unanswered(o, At(o, "execute"))
        /\ UNCHANGED <<credited, filled>>
        /\ balance' = balance \/ (balance > 0 /\ balance' = balance - 1)
    BY <1>3 DEF ExchangeNotCreated
  <2>2. /\ o \in BrokerOrder /\ o.stage = k /\ o.op[k].stage \in {"check", "execute"}
        /\ RecordOK(o, effects, credited, filled) /\ WorldOK
    BY <2>1, InHandOK
  <2>3. RecordOK(At(o, "execute"), effects, credited, filled)
    BY <2>2, AtFields DEF RecordOK, Progress, Asked, Real, Amount, OrderOps
  <2>4. balance' \in Nat
    BY <2>1, <2>2 DEF WorldOK
  <2> QED
    BY <2>1, <2>2, <2>3, <2>4, AtFields, UnansweredInv
<1>4. CASE VerifyExchange(o)
  <2>1. InHand(o, k, {"verify"}) /\ Return(o, At(o, "verify"), "IAGAIN") /\ UNCHANGED world
    BY <1>4 DEF VerifyExchange
  <2>2. o.op[k].stage = "verify"
    BY <2>1, InHandOK
  <2> QED
    BY <2>1, <2>2, StayInv
<1>5. CASE ExchangeFilled(o)
  <2> DEFINE end == Over(o, "done", "completed")
             new == [end EXCEPT !.marketStatus = "Filled"]
  <2>1. /\ InHand(o, k, {"verify"}) /\ o.marketId \in filled[o.id]
        /\ Return(o, new, "IOK") /\ UNCHANGED world
    BY <1>5 DEF ExchangeFilled
  <2>2. /\ o \in BrokerOrder /\ o.stage = k /\ o.op[k].stage = "verify"
        /\ RecordOK(o, effects, credited, filled)
    BY <2>1, InHandOK
  <2>3. "completed" \in OpStatuses
    BY DEF OpStatuses
  <2>4. RecordOK(end, effects, credited, filled)
    <3>1. /\ end.id = o.id /\ end.stage = "withdrawing"
          /\ end.txid = o.txid /\ end.marketId = o.marketId /\ end.amount = o.amount
          /\ end.op[k].stage = "done"
          /\ \A j \in OrderOps \ {k} : end.op[j].stage = o.op[j].stage
      BY <2>2, <2>3, OverFields
    <3> HIDE DEF end
    <3>2. Progress(end, credited, filled)
      BY <2>1, <2>2, <3>1 DEF RecordOK, Progress
    <3> QED
      BY <2>2, <3>1, <3>2 DEF RecordOK, Asked, Real, Amount, OrderOps
  <2>5. end \in BrokerOrder /\ end.sequence = o.sequence
    BY <2>2, <2>3, OverFields
  <2> HIDE DEF end
  <2>6. /\ new \in BrokerOrder /\ new.id = end.id /\ new.sequence = end.sequence
        /\ new.stage = end.stage /\ new.op = end.op /\ new.txid = end.txid
        /\ new.marketId = end.marketId /\ new.amount = end.amount
    BY <2>5 DEF BrokerOrder
  <2> HIDE DEF new
  <2>7. RecordOK(new, effects, credited, filled)
    BY <2>4, <2>6 DEF RecordOK, Progress, Asked, Real, Amount
  <2> QED
    BY <2>1, <2>5, <2>6, <2>7, EndInv
<1> QED
  BY <1>1, <1>2, <1>3, <1>4, <1>5 DEF ProcessExchange

\* Converting the percentage, for an order about to be withdrawn, gives the
\* amount that ConvertedOnce asks of an order past its check.
LEMMA ConvertedFields ==
    ASSUME NEW o \in BrokerOrder, o.stage = "withdrawing", Amount(o), Asked(o),
           o.op["withdrawing"].stage \in {"check", "execute"}
    PROVE  /\ Converted(o) \in BrokerOrder
           /\ Converted(o).id = o.id /\ Converted(o).sequence = o.sequence
           /\ Converted(o).stage = o.stage /\ Converted(o).op = o.op
           /\ Converted(o).txid = o.txid /\ Converted(o).marketId = o.marketId
           /\ o.id \in Withdraw /\ Converted(o).amount = Percent * Quantity[o.id]
<1>1. o.id \in Orders /\ o.amount \in Nat /\ Quantity[o.id] \in Nat /\ Percent \in Nat
  BY ConstantsOK DEF BrokerOrder
<1>2. o.id \in Withdraw
  BY DEF Asked
<1>3. CASE o.op["withdrawing"].stage = "check"
  <2> DEFINE product == o.amount * Quantity[o.id]
  <2>1. product \in Nat
    BY <1>1
  <2>2. o.amount = Percent
    BY <1>2, <1>3 DEF Amount
  <2>3. Converted(o) = [o EXCEPT !.amount = product]
    BY <1>3 DEF Converted
  <2>4. product = Percent * Quantity[o.id]
    BY <2>2
  <2> HIDE DEF product
  <2> QED
    BY <1>2, <2>1, <2>3, <2>4 DEF BrokerOrder
<1>4. CASE o.op["withdrawing"].stage # "check"
  <2>1. Converted(o) = o
    BY <1>4 DEF Converted
  <2> QED
    BY <1>2, <1>4, <2>1 DEF Amount
<1> QED
  BY <1>3, <1>4

\* Every step of processOrderWithdraw keeps the invariant.
LEMMA WithdrawInv ==
    ASSUME Inv, NEW o \in todo, ProcessWithdraw(o)
    PROVE  Inv'
<1> DEFINE k == "withdrawing"
<1> k \in OrderOps
  BY DEF OrderOps
<1> USE DEF OpStages
<1>1. CASE SkipWithdraw(o)
  <2> DEFINE end == Over(o, "skip", "skipped")
  <2>1. InHand(o, k, {"skip"}) /\ Return(o, end, "IOK") /\ UNCHANGED world
    BY <1>1 DEF SkipWithdraw
  <2>2. /\ o \in BrokerOrder /\ o.stage = k /\ o.op[k].stage = "skip"
        /\ RecordOK(o, effects, credited, filled)
    BY <2>1, InHandOK
  <2>3. "skipped" \in OpStatuses
    BY DEF OpStatuses
  <2>4. /\ end \in BrokerOrder /\ end.sequence = o.sequence
        /\ end.id = o.id /\ end.stage = "completed"
        /\ end.txid = o.txid /\ end.marketId = o.marketId /\ end.amount = o.amount
        /\ end.op[k].stage = "skip"
        /\ \A j \in OrderOps \ {k} : end.op[j].stage = o.op[j].stage
    BY <2>2, <2>3, OverFields
  <2> HIDE DEF end
  <2>5. RecordOK(end, effects, credited, filled)
    BY <2>2, <2>4 DEF RecordOK, Progress, Asked, Real, Amount, OrderOps
  <2> QED
    BY <2>1, <2>4, <2>5, EndInv
<1>2. CASE CheckWithdraw(o)
  <2>1. InHand(o, k, {"check"}) /\ Return(o, At(o, "check"), "IERROR") /\ UNCHANGED world
    BY <1>2 DEF CheckWithdraw
  <2>2. o.op[k].stage = "check"
    BY <2>1, InHandOK
  <2> QED
    BY <2>1, <2>2, StayInv
<1>3. CASE WithdrawCreated(o)
  <2> DEFINE new == At(Converted(o), "verify")
  <2>1. /\ InHand(o, k, {"check", "execute"})
        /\ effects' = Count(effects, o) /\ lost' = lost /\ Return(o, new, "IOK")
        /\ UNCHANGED <<credited, filled, balance>>
    BY <1>3 DEF WithdrawCreated, Answered
  <2>2. /\ o \in BrokerOrder /\ o.id \in Orders /\ o.stage = k
        /\ o.op[k].stage \in {"check", "execute"}
        /\ RecordOK(o, effects, credited, filled) /\ WorldOK
    BY <2>1, InHandOK
  <2>3. WorldOK' /\ Grows /\ effects'[k][o.id] = effects[k][o.id] + 1
    BY <2>1, <2>2, CountGrows DEF WorldOK
  <2>4. effects'[k][o.id] > 0
    BY <2>2, <2>3 DEF WorldOK
  <2>5. RecordOK(o, effects', credited', filled')
    BY <2>2, <2>3, RecordStays
  <2>6. /\ new \in BrokerOrder /\ new.id = o.id /\ new.sequence = o.sequence
        /\ new.stage = k /\ new.txid = o.txid /\ new.marketId = o.marketId
        /\ new.amount = Percent * Quantity[o.id] /\ o.id \in Withdraw
        /\ new.op[k].stage = "verify"
        /\ \A j \in OrderOps \ {k} : new.op[j].stage = o.op[j].stage
    BY <2>2, ConvertedFields, AtFields DEF RecordOK
  <2> HIDE DEF new
  <2>7. RecordOK(new, effects', credited', filled')
    BY <2>2, <2>4, <2>5, <2>6 DEF RecordOK, Progress, Asked, Real, Amount, OrderOps
  <2> QED
    BY <2>1, <2>3, <2>6, <2>7, ReturnInv
<1>4. CASE WithdrawNotCreated(o)
  <2> DEFINE retry == At(Converted(o), "execute")
  <2>1. /\ InHand(o, k, {"check", "execute"}) /\ Unanswered(o, retry)
        /\ UNCHANGED <<credited, filled, balance>>
    BY <1>4 DEF WithdrawNotCreated
  <2>2. /\ o \in BrokerOrder /\ o.stage = k /\ o.op[k].stage \in {"check", "execute"}
        /\ RecordOK(o, effects, credited, filled) /\ WorldOK
    BY <2>1, InHandOK
  <2>3. /\ retry \in BrokerOrder /\ retry.id = o.id /\ retry.sequence = o.sequence
        /\ retry.stage = k /\ retry.txid = o.txid /\ retry.marketId = o.marketId
        /\ retry.amount = Percent * Quantity[o.id] /\ o.id \in Withdraw
        /\ retry.op[k].stage = "execute"
        /\ \A j \in OrderOps \ {k} : retry.op[j].stage = o.op[j].stage
    BY <2>2, ConvertedFields, AtFields DEF RecordOK
  <2> HIDE DEF retry
  <2>4. RecordOK(retry, effects, credited, filled)
    BY <2>2, <2>3 DEF RecordOK, Progress, Asked, Real, Amount, OrderOps
  <2>5. balance' \in Nat
    BY <2>1, <2>2 DEF WorldOK
  <2> QED
    BY <2>1, <2>2, <2>3, <2>4, <2>5, UnansweredInv
<1>5. CASE VerifyWithdraw(o)
  <2>1. /\ InHand(o, k, {"verify"}) /\ UNCHANGED world
        /\ \E s \in {"verify", "confirm"}, result \in {"IAGAIN", "IOK"} : Return(o, At(o, s), result)
    BY <1>5 DEF VerifyWithdraw
  <2>2. o.op[k].stage = "verify"
    BY <2>1, InHandOK
  <2> QED
    BY <2>1, <2>2, StayInv
<1> QED
  BY <1>1, <1>2, <1>3, <1>4, <1>5 DEF ProcessWithdraw

-----------------------------------------------------------------------------
(* The other steps *)

\* placeOrder keeps the invariant: the new record claims nothing.
LEMMA PlaceOrderInv ==
    ASSUME Inv, NEW g \in Orders, PlaceOrder(g)
    PROVE  Inv'
<1> DEFINE new == NewOrder(g)
<1>1. /\ book' = Append(book, new) /\ open' \subseteq open \cup {new}
      /\ todo = {} /\ placed' = placed \cup {g}
      /\ UNCHANGED <<todo, known, effects, lost, credited, filled, balance, crashes>>
  BY DEF PlaceOrder, world
<1>2. WorldOK /\ book \in Seq(BrokerOrder) /\ open \subseteq BrokerOrder
  BY DEF Inv, TypeOK, WorldOK
<1>3. new \in BrokerOrder /\ RecordOK(new, effects, credited, filled)
  BY <1>2, NewOrderOK
<1>4. new.sequence = 0
  BY DEF NewOrder
<1> HIDE DEF new
<1>5. /\ book' \in Seq(BrokerOrder) /\ DOMAIN book' = 1..(Len(book) + 1) /\ Len(book) \in Nat
      /\ DOMAIN book = 1..Len(book)
      /\ \A i \in DOMAIN book' : book'[i] = new \/ (i \in DOMAIN book /\ book'[i] = book[i])
  BY <1>1, <1>2, <1>3
<1>6. TypeOK'
  BY <1>1, <1>2, <1>3, <1>5 DEF Inv, TypeOK
<1>7. \A i \in DOMAIN book' : RecordOK(book'[i], effects', credited', filled')
  BY <1>1, <1>3, <1>5 DEF Inv
<1>8. ASSUME NEW n \in open'
      PROVE  RecordOK(n, effects', credited', filled') /\ n.sequence + 1 \in DOMAIN book'
  <2>1. CASE n = new
    BY <1>1, <1>3, <1>4, <1>5, <2>1
  <2>2. CASE n \in open
    BY <1>1, <1>5, <2>2 DEF Inv
  <2> QED
    BY <1>1, <1>8, <2>1, <2>2
<1> QED
  BY <1>6, <1>7, <1>8 DEF Inv

\* The steps of the market keep the invariant: what it has settled stays so.
LEMMA OutsideInv ==
    ASSUME Inv, WorldOK', Grows, UNCHANGED <<book, open, todo, placed, known, crashes>>
    PROVE  Inv'
<1>1. WorldOK /\ book \in Seq(BrokerOrder) /\ open \subseteq BrokerOrder
  BY DEF Inv, TypeOK, WorldOK
<1>2. TypeOK'
  BY DEF Inv, TypeOK, WorldOK
<1>3. \A i \in DOMAIN book' : RecordOK(book'[i], effects', credited', filled')
  BY <1>1, RecordStays DEF Inv
<1>4. \A o \in open' : RecordOK(o, effects', credited', filled') /\ o.sequence + 1 \in DOMAIN book'
  BY <1>1, RecordStays DEF Inv
<1> QED
  BY <1>2, <1>3, <1>4 DEF Inv

LEMMA CreditInv ==
    ASSUME Inv, NEW g \in Orders, Credit(g)
    PROVE  Inv'
<1>1. WorldOK
  BY DEF Inv, TypeOK, WorldOK
<1>2. PICK n \in (1..effects["makingDeposit"][g]) \ credited[g] :
        credited' = [credited EXCEPT ![g] = @ \cup {n}]
  BY DEF Credit
<1>3. n \in Nat
  BY <1>1, <1>2 DEF WorldOK, OrderOps
<1>4. WorldOK' /\ Grows
  <2>1. credited' \in [Orders -> SUBSET Nat] /\ \A h \in Orders : credited[h] \subseteq credited'[h]
    BY <1>1, <1>2, <1>3 DEF WorldOK
  <2>2. UNCHANGED <<effects, lost, filled>> /\ balance' \in Nat
    BY <1>1 DEF Credit, WorldOK
  <2> QED
    BY <1>1, <2>1, <2>2 DEF WorldOK, Grows
<1> QED
  BY <1>4, OutsideInv DEF Credit

LEMMA FillInv ==
    ASSUME Inv, NEW g \in Orders, Fill(g)
    PROVE  Inv'
<1>1. WorldOK
  BY DEF Inv, TypeOK, WorldOK
<1>2. PICK n \in (1..effects["exchanging"][g]) \ filled[g] :
        filled' = [filled EXCEPT ![g] = @ \cup {n}]
  BY DEF Fill
<1>3. n \in Nat
  BY <1>1, <1>2 DEF WorldOK, OrderOps
<1>4. WorldOK' /\ Grows
  <2>1. filled' \in [Orders -> SUBSET Nat] /\ \A h \in Orders : filled[h] \subseteq filled'[h]
    BY <1>1, <1>2, <1>3 DEF WorldOK
  <2> QED
    BY <1>1, <2>1 DEF WorldOK, Grows, Fill
<1> QED
  BY <1>4, OutsideInv DEF Fill

-----------------------------------------------------------------------------
(* The invariant and what follows from it *)

LEMMA InitInv == Init => Inv
<1> SUFFICES ASSUME Init PROVE Inv
  OBVIOUS
<1>1. known \subseteq Makers
  BY ConstantsOK DEF Init
<1> QED
  BY <1>1, ConstantsOK DEF Init, Inv, TypeOK

LEMMA NextInv == Inv /\ [Next]_vars => Inv'
<1> SUFFICES ASSUME Inv, [Next]_vars PROVE Inv'
  OBVIOUS
<1>1. ASSUME NEW g \in Orders, PlaceOrder(g) PROVE Inv'
  BY <1>1, PlaceOrderInv
<1>2. ASSUME NEW g \in Orders, Credit(g) PROVE Inv'
  BY <1>2, CreditInv
<1>3. ASSUME NEW g \in Orders, Fill(g) PROVE Inv'
  BY <1>3, FillInv
<1>4. CASE BeginPass
  BY <1>4 DEF BeginPass, world, Inv, TypeOK
<1>5. ASSUME NEW o \in todo, ProcessOrder(o) PROVE Inv'
  BY <1>5, DepositInv, ExchangeInv, WithdrawInv DEF ProcessOrder
<1>6. CASE Crash
  <2>1. WorldOK' /\ Grows
    BY <1>6 DEF Crash, world, Inv, TypeOK, WorldOK, Grows
  <2> QED
    BY <1>6, <2>1, RestartInv DEF Crash
<1>7. CASE UNCHANGED vars
  BY <1>7 DEF vars, world, Inv, TypeOK
<1> QED
  BY <1>1, <1>2, <1>3, <1>4, <1>5, <1>6, <1>7 DEF Next

LEMMA InvHolds == Spec => []Inv
BY InitInv, NextInv, PTL DEF Spec

\* The type invariant holds for every set of orders, wallets and bounds.
THEOREM TypeCorrect == Spec => []TypeOK
<1>1. Inv => TypeOK
  BY DEF Inv
<1> QED
  BY <1>1, InvHolds, PTL

\* What a record says was executed took effect outside (NoPhantom), whatever
\* crashes, lost replies and overwritten entries there are.
THEOREM EffectsAreReal == Spec => []NoPhantom
<1>1. Inv => NoPhantom
  BY DEF Inv, RecordOK, Real, NoPhantom, Records
<1> QED
  BY <1>1, InvHolds, PTL

\* The percentage to withdraw is turned into an amount exactly once
\* (ConvertedOnce), however often the withdrawal is tried again.
THEOREM AmountConvertedOnce == Spec => []ConvertedOnce
<1>1. Inv => ConvertedOnce
  BY DEF Inv, RecordOK, Amount, ConvertedOnce, Records
<1> QED
  BY <1>1, InvHolds, PTL

-----------------------------------------------------------------------------
(* The broker implements the settlement *)

\* A command that takes effect is the step of Settlement for its operation.
LEMMA CountStep ==
    ASSUME Inv, NEW k \in OrderOps, NEW o \in todo, InHand(o, k, {"check", "execute"}),
           effects' = Count(effects, o), UNCHANGED <<credited, filled>>
    PROVE  Outside!Next
<1>1. /\ o \in BrokerOrder /\ o.id \in Orders /\ o.stage = k
      /\ o.op[k].stage \in {"check", "execute"}
      /\ RecordOK(o, effects, credited, filled) /\ WorldOK
  BY InHandOK
<1>2. /\ effects'[k] = [effects[k] EXCEPT ![o.id] = @ + 1]
      /\ \A j \in OrderOps \ {k} : effects'[j] = effects[j]
  BY <1>1 DEF Count, WorldOK
<1>3. CASE k = "makingDeposit"
  <2>1. Deposit[o.id] = "make"
    BY <1>1, <1>3 DEF RecordOK, Asked, Makers
  <2>2. Outside!MakeDeposit(o.id)
    BY <1>2, <1>3, <2>1 DEF Outside!MakeDeposit, OrderOps
  <2> QED
    BY <1>1, <2>2 DEF Outside!Next
<1>4. CASE k = "exchanging"
  <2>1. Deposit[o.id] = "none" \/ credited[o.id] # {}
    BY <1>1, <1>4 DEF RecordOK, Progress
  <2>2. Outside!Exchange(o.id)
    BY <1>2, <1>4, <2>1 DEF Outside!Exchange, OrderOps
  <2> QED
    BY <1>1, <2>2 DEF Outside!Next
<1>5. CASE k = "withdrawing"
  <2>1. o.id \in Withdraw /\ filled[o.id] # {}
    BY <1>1, <1>5 DEF RecordOK, Progress, Asked
  <2>2. Outside!WithdrawProceeds(o.id)
    BY <1>2, <1>5, <2>1 DEF Outside!WithdrawProceeds, OrderOps
  <2> QED
    BY <1>1, <2>2 DEF Outside!Next
<1> QED
  BY <1>3, <1>4, <1>5 DEF OrderOps

\* Every step of processOrder is a step of Settlement, or is not seen outside.
LEMMA ProcessStep ==
    ASSUME Inv, NEW o \in todo, ProcessOrder(o)
    PROVE  Outside!Next \/ UNCHANGED <<effects, credited, filled>>
<1>1. CASE UNCHANGED world
  BY <1>1 DEF world
<1>2. CASE DepositSent(o) \/ DepositNotSent(o)
  <2>1. InHand(o, "makingDeposit", {"check", "execute"}) /\ UNCHANGED <<credited, filled>>
    BY <1>2 DEF DepositSent, DepositNotSent
  <2>2. effects' = Count(effects, o) \/ effects' = effects
    BY <1>2 DEF DepositSent, DepositNotSent, Answered, Unanswered
  <2> QED
    BY <2>1, <2>2, CountStep DEF OrderOps
<1>3. CASE ExchangeCreated(o) \/ ExchangeNotCreated(o)
  <2>1. InHand(o, "exchanging", {"check", "execute"}) /\ UNCHANGED <<credited, filled>>
    BY <1>3 DEF ExchangeCreated, ExchangeNotCreated
  <2>2. effects' = Count(effects, o) \/ effects' = effects
    BY <1>3 DEF ExchangeCreated, ExchangeNotCreated, Answered, Unanswered
  <2> QED
    BY <2>1, <2>2, CountStep DEF OrderOps
<1>4. CASE WithdrawCreated(o) \/ WithdrawNotCreated(o)
  <2>1. InHand(o, "withdrawing", {"check", "execute"}) /\ UNCHANGED <<credited, filled>>
    BY <1>4 DEF WithdrawCreated, WithdrawNotCreated
  <2>2. effects' = Count(effects, o) \/ effects' = effects
    BY <1>4 DEF WithdrawCreated, WithdrawNotCreated, Answered, Unanswered
  <2> QED
    BY <2>1, <2>2, CountStep DEF OrderOps
<1> QED
  BY <1>1, <1>2, <1>3, <1>4
     DEF ProcessOrder, ProcessDeposit, ProcessExchange, ProcessWithdraw,
         SkipDeposit, CheckDeposit, VerifyDeposit, DepositPending, DepositConfirmed,
         CheckExchange, VerifyExchange, ExchangeFilled,
         SkipWithdraw, CheckWithdraw, VerifyWithdraw

LEMMA SettlementStep == Inv /\ [Next]_vars => [Outside!Next]_(Outside!vars)
<1> SUFFICES ASSUME Inv, [Next]_vars
             PROVE  Outside!Next \/ UNCHANGED Outside!vars
  OBVIOUS
<1>1. ASSUME UNCHANGED <<effects, credited, filled>> PROVE UNCHANGED Outside!vars
  BY <1>1 DEF Outside!vars
<1>2. ASSUME NEW g \in Orders, PlaceOrder(g) PROVE UNCHANGED Outside!vars
  BY <1>1, <1>2 DEF PlaceOrder, world
<1>3. ASSUME NEW g \in Orders, Credit(g) PROVE Outside!Next
  BY <1>3 DEF Credit, Outside!Credit, Outside!Next
<1>4. ASSUME NEW g \in Orders, Fill(g) PROVE Outside!Next
  BY <1>4 DEF Fill, Outside!Fill, Outside!Next
<1>5. ASSUME BeginPass \/ Crash \/ UNCHANGED vars PROVE UNCHANGED Outside!vars
  BY <1>1, <1>5 DEF BeginPass, Crash, vars, world
<1>6. ASSUME NEW o \in todo, ProcessOrder(o) PROVE Outside!Next \/ UNCHANGED Outside!vars
  BY <1>1, <1>6, ProcessStep
<1> QED
  BY <1>2, <1>3, <1>4, <1>5, <1>6 DEF Next

\* The effects on wallet and market follow Settlement (ImplementsSettlement): no
\* coin is exchanged before its deposit is confirmed, and nothing is withdrawn
\* before an exchange is filled, for every number of orders, crashes and losses.
THEOREM BrokerImplementsSettlement == Spec => ImplementsSettlement
<1>1. Init => Outside!Init
  BY DEF Init, Outside!Init, OrderOps
<1> QED
  BY <1>1, InvHolds, SettlementStep, PTL DEF Spec, ImplementsSettlement, Outside!Spec

-----------------------------------------------------------------------------
(* Commands are given once, and in order *)

\* All the orders placed are one.
Alone == \A g, h \in placed : g = h

\* Record r has still to give the command of operation k.
Before(r, k) == r.op[k].stage \in {"check", "execute"}

\* What has taken effect for the order of r, where e are the effects and l those lost:
\* of a command still to be given only what was lost, of the later operations nothing.
Owed(r, e, l) ==
    /\ \A k \in OrderOps : Before(r, k) => e[k][r.id] <= l[k][r.id]
    /\ r.stage = "makingDeposit" => e["exchanging"][r.id] = 0
    /\ r.stage \in {"makingDeposit", "exchanging"} => e["withdrawing"][r.id] = 0

\* The records are those of orders that were placed.
Numbered ==
    /\ \A i \in DOMAIN book : book[i].id \in placed
    /\ \A o \in open : o.id \in placed
    /\ \A k \in OrderOps, g \in Orders \ placed : effects[k][g] = 0

\* With one order, the book is one entry and is at the operation the order is at.
BookAlone ==
    Alone =>
        /\ Len(book) <= 1
        /\ \A i \in DOMAIN book : Owed(book[i], effects, lost)
        /\ \A o \in open : book[o.sequence + 1].stage = o.stage

OpenOnce ==
    Undisturbed =>
        /\ \A o, p \in open : o.id = p.id => o = p
        /\ \A o \in open : Owed(o, effects, lost)

OnceInv == Inv /\ Numbered /\ BookAlone /\ OpenOnce /\ AtMostOnce

LEMMA AloneIs == Undisturbed <=> crashes = 0 \/ Alone
BY DEF Undisturbed, Alone

\* Record new is what a step makes of record o: no command is owed again.
Follows(o, new) ==
    /\ new \in BrokerOrder /\ new.id = o.id /\ new.sequence = o.sequence
    /\ \A k \in OrderOps : Before(new, k) => Before(o, k)
    /\ new.stage = "makingDeposit" => o.stage = "makingDeposit"
    /\ new.stage = "exchanging" => o.stage \in {"makingDeposit", "exchanging"}

\* A step that gives no command.
QuietStep(o, new, result) ==
    /\ Return(o, new, result)
    /\ result # "IOK" => new.stage = o.stage
    /\ UNCHANGED <<effects, lost>>

\* One whose command is answered.
AnsweredStep(o, new) ==
    /\ o.stage \in OrderOps /\ Before(o, o.stage) /\ ~Before(new, o.stage) /\ new.stage = o.stage
    /\ effects' = Count(effects, o) /\ lost' = lost
    /\ Return(o, new, "IOK")

\* One whose command took effect while its result is lost.
LostStep(o, new) ==
    /\ o.stage \in OrderOps /\ Before(o, o.stage) /\ new.stage = o.stage
    /\ effects' = Count(effects, o) /\ lost' = Count(lost, o)
    /\ Return(o, new, "IERROR") \/ Restart

LEMMA AtFollows ==
    ASSUME NEW o \in BrokerOrder, NEW k \in OrderOps, o.stage = k, NEW s \in OpStages,
           s \in {"check", "execute"} => Before(o, k)
    PROVE  Follows(o, At(o, s)) /\ At(o, s).stage = o.stage
<1>1. \A j \in OrderOps : Before(At(o, s), j) => Before(o, j)
  BY AtFields DEF Before
<1> QED
  BY <1>1, AtFields DEF Follows

LEMMA OverFollows ==
    ASSUME NEW o \in BrokerOrder, NEW k \in OrderOps, o.stage = k,
           NEW s \in OpStages \ {"check", "execute"}, NEW t \in OpStatuses
    PROVE  Follows(o, Over(o, s, t))
<1>1. \A j \in OrderOps : Before(Over(o, s, t), j) => Before(o, j)
  BY OverFields DEF Before
<1> QED
  BY <1>1, OverFields DEF Follows, OrderOps

\* Changing the market's word or a number of a record changes nothing that Follows reads.
LEMMA SameFollows ==
    ASSUME NEW o \in BrokerOrder, NEW p \in BrokerOrder, NEW q \in BrokerOrder, Follows(o, p),
           q.id = p.id, q.sequence = p.sequence, q.op = p.op, q.stage = p.stage
    PROVE  Follows(o, q)
BY DEF Follows, Before

LEMMA UnansweredShape ==
    ASSUME NEW o, NEW retry, Unanswered(o, retry), o.stage \in OrderOps, Before(o, o.stage),
           retry.stage = o.stage
    PROVE  QuietStep(o, retry, "IERROR") \/ LostStep(o, retry)
BY DEF Unanswered, QuietStep, LostStep

\* Every step of processOrder is of one of the three kinds.
LEMMA DepositShape ==
    ASSUME Inv, NEW o \in todo, ProcessDeposit(o)
    PROVE  \E new : Follows(o, new) /\ (AnsweredStep(o, new) \/ LostStep(o, new)
                                        \/ \E result : QuietStep(o, new, result))
<1> DEFINE k == "makingDeposit"
<1> k \in OrderOps
  BY DEF OrderOps
<1> USE DEF OpStages, OpStatuses
<1>1. CASE SkipDeposit(o)
  <2>1. /\ InHand(o, k, {"skip"}) /\ Return(o, Over(o, "skip", "skipped"), "IOK")
        /\ UNCHANGED world
    BY <1>1 DEF SkipDeposit
  <2>2. o \in BrokerOrder /\ o.stage = k
    BY <2>1, InHandOK
  <2>3. Follows(o, Over(o, "skip", "skipped"))
    BY <2>2, OverFollows
  <2> QED
    BY <2>1, <2>3 DEF QuietStep, world
<1>2. CASE CheckDeposit(o)
  <2>1. InHand(o, k, {"check"}) /\ Return(o, At(o, "check"), "IAGAIN") /\ UNCHANGED world
    BY <1>2 DEF CheckDeposit
  <2>2. o \in BrokerOrder /\ o.stage = k /\ Before(o, k)
    BY <2>1, InHandOK DEF Before
  <2>3. Follows(o, At(o, "check")) /\ At(o, "check").stage = o.stage
    BY <2>2, AtFollows
  <2> QED
    BY <2>1, <2>3 DEF QuietStep, world
<1>3. CASE DepositSent(o)
  <2> DEFINE at == At(o, "verify")
             n == effects[k][o.id] + 1
             new == [at EXCEPT !.txid = n]
  <2>1. /\ InHand(o, k, {"check", "execute"})
        /\ effects' = Count(effects, o) /\ lost' = lost /\ Return(o, new, "IOK")
    BY <1>3 DEF DepositSent, Answered
  <2>2. /\ o \in BrokerOrder /\ o.id \in Orders /\ o.stage = k /\ Before(o, k) /\ WorldOK
    BY <2>1, InHandOK DEF Before
  <2>3. /\ at \in BrokerOrder /\ Follows(o, at) /\ at.stage = o.stage /\ at.op[k].stage = "verify"
    BY <2>2, AtFollows, AtFields
  <2>4. n \in Nat
    BY <2>2 DEF WorldOK
  <2> HIDE DEF at, n
  <2>5. /\ new \in BrokerOrder /\ new.id = at.id /\ new.sequence = at.sequence
        /\ new.op = at.op /\ new.stage = at.stage
    BY <2>3, <2>4 DEF BrokerOrder
  <2>6. Follows(o, new)
    BY <2>2, <2>3, <2>5, SameFollows
  <2>7. AnsweredStep(o, new)
    BY <2>1, <2>2, <2>3, <2>5 DEF AnsweredStep, Before
  <2> QED
    BY <2>6, <2>7
<1>4. CASE DepositNotSent(o)
  <2>1. InHand(o, k, {"check", "execute"}) /\ Unanswered(o, At(o, "execute"))
    BY <1>4 DEF DepositNotSent
  <2>2. o \in BrokerOrder /\ o.stage = k /\ Before(o, k)
    BY <2>1, InHandOK DEF Before
  <2>3. Follows(o, At(o, "execute")) /\ At(o, "execute").stage = o.stage
    BY <2>2, AtFollows
  <2> QED
    BY <2>1, <2>2, <2>3, UnansweredShape
<1>5. CASE VerifyDeposit(o)
  <2>1. InHand(o, k, {"verify"}) /\ Return(o, At(o, "verify"), "IERROR") /\ UNCHANGED world
    BY <1>5 DEF VerifyDeposit
  <2>2. o \in BrokerOrder /\ o.stage = k
    BY <2>1, InHandOK
  <2>3. Follows(o, At(o, "verify")) /\ At(o, "verify").stage = o.stage
    BY <2>2, AtFollows
  <2> QED
    BY <2>1, <2>3 DEF QuietStep, world
<1>6. CASE DepositPending(o)
  <2>1. InHand(o, k, {"verify", "confirm"}) /\ UNCHANGED world
    BY <1>6 DEF DepositPending
  <2>2. PICK result : Return(o, At(o, "confirm"), result)
    BY <1>6 DEF DepositPending
  <2>3. o \in BrokerOrder /\ o.stage = k
    BY <2>1, InHandOK
  <2>4. Follows(o, At(o, "confirm")) /\ At(o, "confirm").stage = o.stage
    BY <2>3, AtFollows
  <2> QED
    BY <2>1, <2>2, <2>4 DEF QuietStep, world
<1>7. CASE DepositConfirmed(o)
  <2>1. /\ InHand(o, k, {"verify", "confirm"})
        /\ Return(o, Over(o, "confirm", "completed"), "IOK") /\ UNCHANGED world
    BY <1>7 DEF DepositConfirmed
  <2>2. o \in BrokerOrder /\ o.stage = k
    BY <2>1, InHandOK
  <2>3. Follows(o, Over(o, "confirm", "completed"))
    BY <2>2, OverFollows
  <2> QED
    BY <2>1, <2>3 DEF QuietStep, world
<1> QED
  BY <1>1, <1>2, <1>3, <1>4, <1>5, <1>6, <1>7 DEF ProcessDeposit

LEMMA ExchangeShape ==
    ASSUME Inv, NEW o \in todo, ProcessExchange(o)
    PROVE  \E new : Follows(o, new) /\ (AnsweredStep(o, new) \/ LostStep(o, new)
                                        \/ \E result : QuietStep(o, new, result))
<1> DEFINE k == "exchanging"
<1> k \in OrderOps
  BY DEF OrderOps
<1> USE DEF OpStages, OpStatuses
<1>1. CASE CheckExchange(o)
  <2>1. InHand(o, k, {"check"}) /\ Return(o, At(o, "check"), "IERROR") /\ UNCHANGED world
    BY <1>1 DEF CheckExchange
  <2>2. o \in BrokerOrder /\ o.stage = k /\ Before(o, k)
    BY <2>1, InHandOK DEF Before
  <2>3. Follows(o, At(o, "check")) /\ At(o, "check").stage = o.stage
    BY <2>2, AtFollows
  <2> QED
    BY <2>1, <2>3 DEF QuietStep, world
<1>2. CASE ExchangeCreated(o)
  <2> DEFINE at == At(o, "verify")
             n == effects[k][o.id] + 1
             new == [at EXCEPT !.marketId = n, !.marketStatus = "New"]
  <2>1. /\ InHand(o, k, {"check", "execute"})
        /\ effects' = Count(effects, o) /\ lost' = lost /\ Return(o, new, "IOK")
    BY <1>2 DEF ExchangeCreated, Answered
  <2>2. /\ o \in BrokerOrder /\ o.id \in Orders /\ o.stage = k /\ Before(o, k) /\ WorldOK
    BY <2>1, InHandOK DEF Before
  <2>3. /\ at \in BrokerOrder /\ Follows(o, at) /\ at.stage = o.stage /\ at.op[k].stage = "verify"
    BY <2>2, AtFollows, AtFields
  <2>4. n \in Nat
    BY <2>2 DEF WorldOK
  <2> HIDE DEF at, n
  <2>5. /\ new \in BrokerOrder /\ new.id = at.id /\ new.sequence = at.sequence
        /\ new.op = at.op /\ new.stage = at.stage
    BY <2>3, <2>4 DEF BrokerOrder
  <2>6. Follows(o, new)
    BY <2>2, <2>3, <2>5, SameFollows
  <2>7. AnsweredStep(o, new)
    BY <2>1, <2>2, <2>3, <2>5 DEF AnsweredStep, Before
  <2> QED
    BY <2>6, <2>7
<1>3. CASE ExchangeNotCreated(o)
  <2>1. InHand(o, k, {"check", "execute"}) /\ Unanswered(o, At(o, "execute"))
    BY <1>3 DEF ExchangeNotCreated
  <2>2. o \in BrokerOrder /\ o.stage = k /\ Before(o, k)
    BY <2>1, InHandOK DEF Before
  <2>3. Follows(o, At(o, "execute")) /\ At(o, "execute").stage = o.stage
    BY <2>2, AtFollows
  <2> QED
    BY <2>1, <2>2, <2>3, UnansweredShape
<1>4. CASE VerifyExchange(o)
  <2>1. InHand(o, k, {"verify"}) /\ Return(o, At(o, "verify"), "IAGAIN") /\ UNCHANGED world
    BY <1>4 DEF VerifyExchange
  <2>2. o \in BrokerOrder /\ o.stage = k
    BY <2>1, InHandOK
  <2>3. Follows(o, At(o, "verify")) /\ At(o, "verify").stage = o.stage
    BY <2>2, AtFollows
  <2> QED
    BY <2>1, <2>3 DEF QuietStep, world
<1>5. CASE ExchangeFilled(o)
  <2> DEFINE over == Over(o, "done", "completed")
             new == [over EXCEPT !.marketStatus = "Filled"]
  <2>1. InHand(o, k, {"verify"}) /\ Return(o, new, "IOK") /\ UNCHANGED world
    BY <1>5 DEF ExchangeFilled
  <2>2. o \in BrokerOrder /\ o.stage = k
    BY <2>1, InHandOK
  <2>3. over \in BrokerOrder /\ Follows(o, over)
    BY <2>2, OverFollows, OverFields
  <2> HIDE DEF over
  <2>4. /\ new \in BrokerOrder /\ new.id = over.id /\ new.sequence = over.sequence
        /\ new.op = over.op /\ new.stage = over.stage
    BY <2>3 DEF BrokerOrder
  <2>5. Follows(o, new)
    BY <2>2, <2>3, <2>4, SameFollows
  <2> QED
    BY <2>1, <2>5 DEF QuietStep, world
<1> QED
  BY <1>1, <1>2, <1>3, <1>4, <1>5 DEF ProcessExchange

LEMMA WithdrawShape ==
    ASSUME Inv, NEW o \in todo, ProcessWithdraw(o)
    PROVE  \E new : Follows(o, new) /\ (AnsweredStep(o, new) \/ LostStep(o, new)
                                        \/ \E result : QuietStep(o, new, result))
<1> DEFINE k == "withdrawing"
<1> k \in OrderOps
  BY DEF OrderOps
<1> USE DEF OpStages, OpStatuses
<1>1. CASE SkipWithdraw(o)
  <2>1. /\ InHand(o, k, {"skip"}) /\ Return(o, Over(o, "skip", "skipped"), "IOK")
        /\ UNCHANGED world
    BY <1>1 DEF SkipWithdraw
  <2>2. o \in BrokerOrder /\ o.stage = k
    BY <2>1, InHandOK
  <2>3. Follows(o, Over(o, "skip", "skipped"))
    BY <2>2, OverFollows
  <2> QED
    BY <2>1, <2>3 DEF QuietStep, world
<1>2. CASE CheckWithdraw(o)
  <2>1. InHand(o, k, {"check"}) /\ Return(o, At(o, "check"), "IERROR") /\ UNCHANGED world
    BY <1>2 DEF CheckWithdraw
  <2>2. o \in BrokerOrder /\ o.stage = k /\ Before(o, k)
    BY <2>1, InHandOK DEF Before
  <2>3. Follows(o, At(o, "check")) /\ At(o, "check").stage = o.stage
    BY <2>2, AtFollows
  <2> QED
    BY <2>1, <2>3 DEF QuietStep, world
<1>3. ASSUME NEW s \in {"verify", "execute"}, InHand(o, k, {"check", "execute"})
      PROVE  /\ o \in BrokerOrder /\ o.stage = k /\ Before(o, k)
             /\ Follows(o, At(Converted(o), s)) /\ At(Converted(o), s).stage = o.stage
             /\ At(Converted(o), s).op[k].stage = s
  <2>1. /\ o \in BrokerOrder /\ o.stage = k /\ o.op[k].stage \in {"check", "execute"}
        /\ RecordOK(o, effects, credited, filled)
    BY <1>3, InHandOK
  <2>2. /\ Converted(o) \in BrokerOrder /\ Converted(o).id = o.id /\ Converted(o).stage = k
        /\ Converted(o).sequence = o.sequence /\ Converted(o).op = o.op
    BY <2>1, ConvertedFields DEF RecordOK
  <2>3. Before(o, k) /\ Before(Converted(o), k)
    BY <2>1, <2>2 DEF Before
  <2>4. /\ Follows(Converted(o), At(Converted(o), s)) /\ At(Converted(o), s).stage = k
        /\ At(Converted(o), s).op[k].stage = s
    BY <2>2, <2>3, AtFollows, AtFields
  <2>5. Follows(o, At(Converted(o), s))
    BY <2>1, <2>2, <2>4 DEF Follows, Before
  <2> QED
    BY <2>1, <2>3, <2>4, <2>5
<1>4. CASE WithdrawCreated(o)
  <2>1. /\ InHand(o, k, {"check", "execute"}) /\ effects' = Count(effects, o) /\ lost' = lost
        /\ Return(o, At(Converted(o), "verify"), "IOK")
    BY <1>4 DEF WithdrawCreated, Answered
  <2>2. AnsweredStep(o, At(Converted(o), "verify"))
    BY <1>3, <2>1 DEF AnsweredStep, Before
  <2> QED
    BY <1>3, <2>1, <2>2
<1>5. CASE WithdrawNotCreated(o)
  <2>1. InHand(o, k, {"check", "execute"}) /\ Unanswered(o, At(Converted(o), "execute"))
    BY <1>5 DEF WithdrawNotCreated
  <2>2. QuietStep(o, At(Converted(o), "execute"), "IERROR") \/ LostStep(o, At(Converted(o), "execute"))
    BY <1>3, <2>1, UnansweredShape
  <2> QED
    BY <1>3, <2>1, <2>2
<1>6. CASE VerifyWithdraw(o)
  <2>1. InHand(o, k, {"verify"}) /\ UNCHANGED world
    BY <1>6 DEF VerifyWithdraw
  <2>2. PICK s \in {"verify", "confirm"}, result \in {"IAGAIN", "IOK"} : Return(o, At(o, s), result)
    BY <1>6 DEF VerifyWithdraw
  <2>3. o \in BrokerOrder /\ o.stage = k
    BY <2>1, InHandOK
  <2>4. Follows(o, At(o, s)) /\ At(o, s).stage = o.stage
    BY <2>3, AtFollows
  <2> QED
    BY <2>1, <2>2, <2>4 DEF QuietStep, world
<1> QED
  BY <1>1, <1>2, <1>4, <1>5, <1>6 DEF ProcessWithdraw

\* The tail of the loop keeps the invariant, if what has taken effect is owed neither by
\* the new record nor, when the book is not written, by one at the stage of the old.
LEMMA ReturnOnce ==
    ASSUME Inv, Numbered, BookAlone, OpenOnce,
           NEW o \in todo, NEW new, NEW result, Follows(o, new), Return(o, new, result),
           result # "IOK" => new.stage = o.stage,
           Undisturbed => Owed(new, effects', lost'),
           \A r \in BrokerOrder :
              /\ Owed(r, effects, lost)
              /\ r.id # o.id \/ (result # "IOK" /\ r.stage = o.stage)
              => Owed(r, effects', lost'),
           \A k \in OrderOps, g \in Orders \ placed : effects'[k][g] = effects[k][g]
    PROVE  Numbered' /\ BookAlone' /\ OpenOnce'
<1>1. /\ o \in open /\ o \in BrokerOrder /\ new \in BrokerOrder
      /\ new.id = o.id /\ new.sequence = o.sequence
      /\ open \subseteq BrokerOrder /\ book \in Seq(BrokerOrder)
      /\ o.sequence + 1 \in DOMAIN book
  BY DEF Inv, TypeOK, Follows
<1>2. /\ placed' = placed /\ crashes' = crashes
      /\ open' \subseteq (open \ {o}) \cup {new}
      /\ result = "IOK" => book' = [book EXCEPT ![o.sequence + 1] = new]
      /\ result # "IOK" => book' = book
  BY DEF Return
<1>3. /\ DOMAIN book' = DOMAIN book /\ Len(book') = Len(book)
      /\ \A i \in DOMAIN book : i # o.sequence + 1 => book'[i] = book[i]
      /\ result = "IOK" => book'[o.sequence + 1] = new
  BY <1>1, <1>2
<1>4. (Undisturbed' <=> Undisturbed) /\ (Alone' <=> Alone)
  BY <1>2 DEF Undisturbed, Alone
<1>5. Numbered'
  <2>1. o.id \in placed
    BY <1>1 DEF Numbered
  <2>2. \A i \in DOMAIN book' : book'[i].id \in placed'
    BY <1>1, <1>2, <1>3, <2>1 DEF Numbered
  <2>3. \A p \in open' : p.id \in placed'
    BY <1>1, <1>2, <2>1 DEF Numbered
  <2>4. \A k \in OrderOps, g \in Orders \ placed' : effects'[k][g] = 0
    BY <1>2 DEF Numbered
  <2> QED
    BY <2>2, <2>3, <2>4 DEF Numbered
<1>6. OpenOnce'
  <2> SUFFICES ASSUME Undisturbed
               PROVE  /\ \A p, q \in open' : p.id = q.id => p = q
                      /\ \A p \in open' : Owed(p, effects', lost')
    BY <1>4 DEF OpenOnce
  <2>1. \A p \in open \ {o} : p.id # o.id
    BY <1>1 DEF OpenOnce
  <2>2. \A p, q \in open' : p.id = q.id => p = q
    BY <1>1, <1>2, <2>1 DEF OpenOnce
  <2>3. \A p \in open \ {o} : Owed(p, effects', lost')
    BY <1>1, <2>1 DEF OpenOnce
  <2> QED
    BY <1>2, <2>2, <2>3
<1>7. BookAlone'
  <2> SUFFICES ASSUME Alone
               PROVE  /\ Len(book') <= 1
                      /\ \A i \in DOMAIN book' : Owed(book'[i], effects', lost')
                      /\ \A p \in open' : book'[p.sequence + 1].stage = p.stage
    BY <1>4 DEF BookAlone
  <2>1. Undisturbed /\ Len(book) <= 1
    BY DEF Undisturbed, Alone, BookAlone
  <2>2. Len(book) \in Nat /\ DOMAIN book = 1..Len(book)
    BY <1>1
  <2>3. DOMAIN book = {o.sequence + 1}
    BY <1>1, <2>1, <2>2
  <2>4. \A p \in open : p.id = o.id
    BY <1>1 DEF Alone, Numbered
  <2>5. open' \subseteq {new}
    BY <1>1, <1>2, <2>1, <2>4 DEF OpenOnce
  <2>6. \A p \in open' : book'[p.sequence + 1].stage = p.stage
    <3>1. CASE result = "IOK"
      BY <1>1, <1>3, <2>5, <3>1
    <3>2. CASE result # "IOK"
      <4>1. book[o.sequence + 1].stage = o.stage
        BY <1>1 DEF BookAlone
      <4> QED
        BY <1>1, <1>2, <2>5, <3>2, <4>1
    <3> QED
      BY <3>1, <3>2
  <2>7. \A i \in DOMAIN book' : Owed(book'[i], effects', lost')
    <3>1. CASE result = "IOK"
      BY <1>3, <2>1, <2>3, <3>1
    <3>2. CASE result # "IOK"
      <4>1. /\ book[o.sequence + 1].stage = o.stage /\ book[o.sequence + 1] \in BrokerOrder
            /\ Owed(book[o.sequence + 1], effects, lost)
        BY <1>1 DEF BookAlone
      <4> QED
        BY <1>2, <2>3, <3>2, <4>1
    <3> QED
      BY <3>1, <3>2
  <2> QED
    BY <1>3, <2>1, <2>6, <2>7
<1> QED
  BY <1>5, <1>6, <1>7

\* A record that follows another owes no more, as long as nothing takes effect.
LEMMA OwedFollows ==
    ASSUME NEW o \in BrokerOrder, NEW new, Follows(o, new), Owed(o, effects, lost)
    PROVE  Owed(new, effects, lost)
BY DEF Follows, Owed

LEMMA QuietOnce ==
    ASSUME OnceInv, NEW o \in todo, NEW new, NEW result,
           Follows(o, new), QuietStep(o, new, result)
    PROVE  Numbered' /\ BookAlone' /\ OpenOnce' /\ AtMostOnce'
<1>1. o \in open /\ o \in BrokerOrder
  BY DEF OnceInv, Inv, TypeOK
<1>2. /\ Return(o, new, result) /\ (result # "IOK" => new.stage = o.stage)
      /\ effects' = effects /\ lost' = lost
  BY DEF QuietStep
<1>3. Undisturbed => Owed(new, effects', lost')
  BY <1>1, <1>2, OwedFollows DEF OnceInv, OpenOnce
<1>4. Numbered' /\ BookAlone' /\ OpenOnce'
  BY <1>2, <1>3, ReturnOnce DEF OnceInv
<1>5. AtMostOnce'
  <2>1. Undisturbed' <=> Undisturbed
    BY <1>2 DEF Return, Undisturbed
  <2> QED
    BY <1>2, <2>1 DEF OnceInv, AtMostOnce
<1> QED
  BY <1>4, <1>5

\* Counting an effect of o at its stage changes nothing that records of other orders,
\* or of its own order at that stage, owe, once the loss of it is counted.
LEMMA OwedStays ==
    ASSUME WorldOK, WorldOK', NEW o \in BrokerOrder, o.stage \in OrderOps,
           effects' = Count(effects, o), lost' = lost \/ lost' = Count(lost, o),
           NEW r \in BrokerOrder, Owed(r, effects, lost),
           r.id # o.id \/ (lost' = Count(lost, o) /\ r.stage = o.stage)
    PROVE  Owed(r, effects', lost')
<1>1. o.id \in Orders /\ r.id \in Orders
  BY DEF BrokerOrder
<1>2. \A k \in OrderOps, g \in Orders :
        /\ effects'[k][g] = IF k = o.stage /\ g = o.id THEN effects[k][g] + 1 ELSE effects[k][g]
        /\ lost' = Count(lost, o) =>
             lost'[k][g] = IF k = o.stage /\ g = o.id THEN lost[k][g] + 1 ELSE lost[k][g]
        /\ effects[k][g] \in Nat /\ lost[k][g] \in Nat
  <2>1. effects \in [OrderOps -> [Orders -> Nat]] /\ lost \in [OrderOps -> [Orders -> Nat]]
    BY DEF WorldOK
  <2>2. \A k \in OrderOps, g \in Orders :
          Count(effects, o)[k][g] =
              IF k = o.stage /\ g = o.id THEN effects[k][g] + 1 ELSE effects[k][g]
    BY <2>1, CountType
  <2>3. \A k \in OrderOps, g \in Orders :
          Count(lost, o)[k][g] = IF k = o.stage /\ g = o.id THEN lost[k][g] + 1 ELSE lost[k][g]
    BY <2>1, CountType
  <2> QED
    BY <2>1, <2>2, <2>3
<1>3. \A k \in OrderOps : Before(r, k) => effects'[k][r.id] <= lost'[k][r.id]
  BY <1>1, <1>2 DEF Owed
<1>4. /\ r.stage = "makingDeposit" => effects'["exchanging"][r.id] = 0
      /\ r.stage \in {"makingDeposit", "exchanging"} => effects'["withdrawing"][r.id] = 0
  BY <1>1, <1>2 DEF Owed, OrderOps
<1> QED
  BY <1>3, <1>4 DEF Owed

\* What counting an effect does to AtMostOnce and to the orders not yet placed.
LEMMA CountOnce ==
    ASSUME WorldOK, Numbered, AtMostOnce, NEW o \in BrokerOrder, o.stage \in OrderOps, o.id \in placed,
           effects' = Count(effects, o), lost' = lost \/ lost' = Count(lost, o),
           Undisturbed => lost' = Count(lost, o) \/ effects[o.stage][o.id] <= lost[o.stage][o.id]
    PROVE  /\ Undisturbed => \A k \in OrderOps, g \in Orders : effects'[k][g] <= 1 + lost'[k][g]
           /\ \A k \in OrderOps, g \in Orders \ placed : effects'[k][g] = effects[k][g]
<1>1. effects \in [OrderOps -> [Orders -> Nat]] /\ lost \in [OrderOps -> [Orders -> Nat]]
  BY DEF WorldOK
<1>2. \A k \in OrderOps, g \in Orders :
        effects'[k][g] = IF k = o.stage /\ g = o.id THEN effects[k][g] + 1 ELSE effects[k][g]
  BY <1>1, CountType
<1>3. \A k \in OrderOps, g \in Orders :
        Count(lost, o)[k][g] = IF k = o.stage /\ g = o.id THEN lost[k][g] + 1 ELSE lost[k][g]
  BY <1>1, CountType
<1>4. \A k \in OrderOps, g \in Orders \ placed : effects'[k][g] = effects[k][g]
  BY <1>2
<1>5. ASSUME Undisturbed, NEW k \in OrderOps, NEW g \in Orders
      PROVE  effects'[k][g] <= 1 + lost'[k][g]
  <2>1. /\ effects[k][g] <= 1 + lost[k][g]
        /\ effects[k][g] \in Nat /\ lost[k][g] \in Nat
    BY <1>1, <1>5 DEF AtMostOnce
  <2>2. CASE lost' = Count(lost, o)
    BY <1>2, <1>3, <2>1, <2>2
  <2>3. CASE lost' = lost /\ effects[o.stage][o.id] <= lost[o.stage][o.id]
    BY <1>2, <2>1, <2>3
  <2> QED
    BY <1>5, <2>2, <2>3
<1> QED
  BY <1>4, <1>5

\* What the invariant says of the order in hand.
LEMMA OrderInHand ==
    ASSUME OnceInv, NEW o \in todo, o.stage \in OrderOps, Before(o, o.stage)
    PROVE  /\ o \in open /\ o \in BrokerOrder /\ o.id \in placed /\ WorldOK
           /\ Undisturbed => Owed(o, effects, lost)
                             /\ effects[o.stage][o.id] <= lost[o.stage][o.id]
<1>1. o \in open /\ o \in BrokerOrder /\ o.id \in placed /\ WorldOK
  BY DEF OnceInv, Inv, TypeOK, WorldOK, Numbered
<1> QED
  BY <1>1 DEF OnceInv, OpenOnce, Owed

\* The new record of a step whose command took effect owes no more than the old.
LEMMA OwedCounted ==
    ASSUME WorldOK, WorldOK', NEW o \in BrokerOrder, o.stage \in OrderOps, o.id \in Orders,
           NEW new, Follows(o, new), new.stage = o.stage, Owed(o, effects, lost),
           effects' = Count(effects, o),
           lost' = Count(lost, o) \/ (lost' = lost /\ ~Before(new, o.stage))
    PROVE  Owed(new, effects', lost')
<1>1. effects \in [OrderOps -> [Orders -> Nat]] /\ lost \in [OrderOps -> [Orders -> Nat]]
  BY DEF WorldOK
<1>2. \A k \in OrderOps, g \in Orders :
        effects'[k][g] = IF k = o.stage /\ g = o.id THEN effects[k][g] + 1 ELSE effects[k][g]
  BY <1>1, CountType
<1>3. \A k \in OrderOps, g \in Orders :
        Count(lost, o)[k][g] = IF k = o.stage /\ g = o.id THEN lost[k][g] + 1 ELSE lost[k][g]
  BY <1>1, CountType
<1>4. new.id = o.id /\ \A k \in OrderOps : Before(new, k) => Before(o, k)
  BY DEF Follows
<1>5. ASSUME NEW k \in OrderOps, Before(new, k) PROVE effects'[k][new.id] <= lost'[k][new.id]
  <2>1. effects[k][o.id] <= lost[k][o.id] /\ effects[k][o.id] \in Nat /\ lost[k][o.id] \in Nat
    BY <1>1, <1>4, <1>5 DEF Owed
  <2>2. CASE lost' = Count(lost, o)
    BY <1>2, <1>3, <1>4, <2>1, <2>2
  <2>3. CASE lost' = lost /\ k # o.stage
    BY <1>2, <1>4, <2>1, <2>3
  <2> QED
    BY <1>5, <2>2, <2>3
<1>6. /\ new.stage = "makingDeposit" => effects'["exchanging"][new.id] = 0
      /\ new.stage \in {"makingDeposit", "exchanging"} => effects'["withdrawing"][new.id] = 0
  BY <1>2, <1>4 DEF Owed, OrderOps
<1> QED
  BY <1>5, <1>6 DEF Owed

LEMMA AnsweredOnce ==
    ASSUME OnceInv, WorldOK', NEW o \in todo, NEW new, Follows(o, new), AnsweredStep(o, new)
    PROVE  Numbered' /\ BookAlone' /\ OpenOnce' /\ AtMostOnce'
<1>1. /\ o.stage \in OrderOps /\ Before(o, o.stage) /\ ~Before(new, o.stage)
      /\ new.stage = o.stage /\ effects' = Count(effects, o) /\ lost' = lost
      /\ Return(o, new, "IOK")
  BY DEF AnsweredStep
<1>2. /\ o \in open /\ o \in BrokerOrder /\ o.id \in placed /\ WorldOK
      /\ Undisturbed => Owed(o, effects, lost) /\ effects[o.stage][o.id] <= lost[o.stage][o.id]
  BY <1>1, OrderInHand
<1>3. o.id \in Orders
  BY <1>2 DEF BrokerOrder
<1>4. Undisturbed => Owed(new, effects', lost')
  BY <1>1, <1>2, <1>3, OwedCounted
<1>5. \A r \in BrokerOrder : Owed(r, effects, lost) /\ r.id # o.id => Owed(r, effects', lost')
  BY <1>1, <1>2, OwedStays
<1>6. /\ Undisturbed => \A k \in OrderOps, g \in Orders : effects'[k][g] <= 1 + lost'[k][g]
      /\ \A k \in OrderOps, g \in Orders \ placed : effects'[k][g] = effects[k][g]
  BY <1>1, <1>2, CountOnce DEF OnceInv
<1>7. Numbered' /\ BookAlone' /\ OpenOnce'
  BY <1>1, <1>4, <1>5, <1>6, ReturnOnce DEF OnceInv
<1>8. Undisturbed' <=> Undisturbed
  BY <1>1 DEF Return, Undisturbed
<1> QED
  BY <1>6, <1>7, <1>8 DEF AtMostOnce

\* A restart reads the book: with one order the entry, which owes no more than the order.
LEMMA RestartOnce ==
    ASSUME Inv, Numbered, BookAlone, Restart,
           Alone => \A i \in DOMAIN book : Owed(book[i], effects', lost'),
           \A k \in OrderOps, g \in Orders \ placed : effects'[k][g] = effects[k][g]
    PROVE  Numbered' /\ BookAlone' /\ OpenOnce'
<1>1. book' = book /\ placed' = placed /\ crashes' = crashes + 1 /\ book \in Seq(BrokerOrder)
  BY DEF Restart, Inv, TypeOK
<1>2. ASSUME NEW p \in open'
      PROVE  \E i \in DOMAIN book : /\ p = [book[i] EXCEPT !.sequence = i - 1]
                                    /\ p.id = book[i].id /\ p.stage = book[i].stage
                                    /\ p.op = book[i].op /\ p.sequence + 1 = i
  <2>1. PICK i \in DOMAIN book : p = [book[i] EXCEPT !.sequence = i - 1]
    BY <1>2 DEF Restart, Reopened
  <2>2. book[i] \in BrokerOrder /\ i \in Nat \ {0}
    BY <1>1
  <2>3. (i - 1) + 1 = i
    BY <2>2
  <2>4. p.id = book[i].id /\ p.stage = book[i].stage /\ p.op = book[i].op
    BY <2>1, <2>2 DEF BrokerOrder
  <2>5. p.sequence = i - 1
    BY <2>1, <2>2 DEF BrokerOrder
  <2> QED
    BY <2>1, <2>3, <2>4, <2>5
<1>3. Numbered'
  BY <1>1, <1>2 DEF Numbered
<1>4. Alone' <=> Alone
  BY <1>1 DEF Alone
<1>5. BookAlone'
  BY <1>1, <1>2, <1>4 DEF BookAlone
<1>6. Undisturbed' => Alone
  <2>1. crashes' # 0
    BY <1>1 DEF Inv, TypeOK
  <2> QED
    BY <1>4, <2>1 DEF Undisturbed, Alone
<1>7. OpenOnce'
  <2> SUFFICES ASSUME Alone
               PROVE  /\ \A p, q \in open' : p.id = q.id => p = q
                      /\ \A p \in open' : Owed(p, effects', lost')
    BY <1>6 DEF OpenOnce
  <2>1. Len(book) <= 1 /\ Len(book) \in Nat /\ DOMAIN book = 1..Len(book)
    BY <1>1 DEF BookAlone
  <2>2. \A i, j \in DOMAIN book : i = j
    BY <2>1
  <2>3. \A p, q \in open' : p = q
    BY <1>2, <2>2
  <2>4. \A p \in open' : Owed(p, effects', lost')
    BY <1>2 DEF Owed, Before
  <2> QED
    BY <2>3, <2>4
<1> QED
  BY <1>3, <1>5, <1>7

LEMMA LostOnce ==
    ASSUME OnceInv, WorldOK', NEW o \in todo, NEW new, Follows(o, new), LostStep(o, new)
    PROVE  Numbered' /\ BookAlone' /\ OpenOnce' /\ AtMostOnce'
<1>1. /\ o.stage \in OrderOps /\ Before(o, o.stage) /\ new.stage = o.stage
      /\ effects' = Count(effects, o) /\ lost' = Count(lost, o)
      /\ Return(o, new, "IERROR") \/ Restart
  BY DEF LostStep
<1>2. /\ o \in open /\ o \in BrokerOrder /\ o.id \in placed /\ WorldOK
      /\ Undisturbed => Owed(o, effects, lost) /\ effects[o.stage][o.id] <= lost[o.stage][o.id]
  BY <1>1, OrderInHand
<1>3. o.id \in Orders
  BY <1>2 DEF BrokerOrder
<1>4. Undisturbed => Owed(new, effects', lost')
  BY <1>1, <1>2, <1>3, OwedCounted
<1>5. \A r \in BrokerOrder :
        Owed(r, effects, lost) /\ (r.id # o.id \/ r.stage = o.stage) => Owed(r, effects', lost')
  BY <1>1, <1>2, OwedStays
<1>6. /\ Undisturbed => \A k \in OrderOps, g \in Orders : effects'[k][g] <= 1 + lost'[k][g]
      /\ \A k \in OrderOps, g \in Orders \ placed : effects'[k][g] = effects[k][g]
  BY <1>1, <1>2, CountOnce DEF OnceInv
<1>7. CASE Return(o, new, "IERROR")
  <2>1. Numbered' /\ BookAlone' /\ OpenOnce'
    BY <1>1, <1>4, <1>5, <1>6, <1>7, ReturnOnce DEF OnceInv
  <2>2. Undisturbed' <=> Undisturbed
    BY <1>7 DEF Return, Undisturbed
  <2> QED
    BY <1>6, <2>1, <2>2 DEF AtMostOnce
<1>8. CASE Restart
  <2>1. Undisturbed' => Undisturbed
    <3>1. crashes' # 0 /\ placed' = placed
      BY <1>8 DEF Restart, OnceInv, Inv, TypeOK
    <3> QED
      BY <3>1 DEF Undisturbed
  <2>2. Alone => \A i \in DOMAIN book : Owed(book[i], effects', lost')
    <3> SUFFICES ASSUME Alone, NEW i \in DOMAIN book PROVE Owed(book[i], effects', lost')
      OBVIOUS
    <3>1. /\ book \in Seq(BrokerOrder) /\ o.sequence + 1 \in DOMAIN book
          /\ Len(book) <= 1 /\ book[o.sequence + 1].stage = o.stage
          /\ Owed(book[i], effects, lost)
      BY <1>2 DEF OnceInv, Inv, TypeOK, BookAlone
    <3>2. i = o.sequence + 1 /\ book[i] \in BrokerOrder
      <4>1. Len(book) \in Nat /\ DOMAIN book = 1..Len(book)
        BY <3>1
      <4> QED
        BY <3>1, <4>1
    <3> QED
      BY <1>5, <3>1, <3>2
  <2>3. Numbered' /\ BookAlone' /\ OpenOnce'
    BY <1>6, <1>8, <2>2, RestartOnce DEF OnceInv
  <2> QED
    BY <1>6, <2>1, <2>3 DEF AtMostOnce
<1> QED
  BY <1>1, <1>7, <1>8

\* The first order that is placed makes the book's only entry.
LEMMA PlaceOrderOnce ==
    ASSUME OnceInv, NEW g \in Orders, PlaceOrder(g)
    PROVE  Numbered' /\ BookAlone' /\ OpenOnce' /\ AtMostOnce'
<1> DEFINE new == NewOrder(g)
<1>1. /\ g \notin placed /\ placed' = placed \cup {g} /\ book' = Append(book, new)
      /\ open' \subseteq open \cup {new} /\ effects' = effects /\ lost' = lost
      /\ crashes' = crashes
  BY DEF PlaceOrder, world
<1>2. WorldOK /\ book \in Seq(BrokerOrder) /\ open \subseteq BrokerOrder
  BY DEF OnceInv, Inv, TypeOK, WorldOK
<1>3. new \in BrokerOrder
  BY <1>2, NewOrderOK
<1>4. new.id = g /\ new.sequence = 0 /\ new.stage = "makingDeposit"
  BY DEF NewOrder
<1> HIDE DEF new
<1>5. /\ DOMAIN book' = 1..(Len(book) + 1) /\ Len(book) \in Nat /\ Len(book') = Len(book) + 1
      /\ DOMAIN book = 1..Len(book) /\ book'[Len(book) + 1] = new
      /\ \A i \in DOMAIN book : book'[i] = book[i]
  BY <1>1, <1>2, <1>3
<1>6. /\ \A k \in OrderOps : effects[k][g] = 0 /\ lost[k][g] \in Nat
      /\ "exchanging" \in OrderOps /\ "withdrawing" \in OrderOps
  BY <1>1, <1>2 DEF OnceInv, Numbered, WorldOK, OrderOps
<1>7. Owed(new, effects', lost')
  BY <1>1, <1>4, <1>6 DEF Owed
<1>8. Numbered'
  <2>1. \A i \in DOMAIN book' : i \in DOMAIN book \/ i = Len(book) + 1
    BY <1>5
  <2>2. \A i \in DOMAIN book' : book'[i].id \in placed'
    BY <1>1, <1>4, <1>5, <2>1 DEF OnceInv, Numbered
  <2>3. \A o \in open' : o.id \in placed'
    BY <1>1, <1>4 DEF OnceInv, Numbered
  <2> QED
    BY <1>1, <2>2, <2>3 DEF OnceInv, Numbered
<1>9. Undisturbed' => Undisturbed
  BY <1>1 DEF Undisturbed
<1>10. OpenOnce'
  <2> SUFFICES ASSUME Undisturbed
               PROVE  /\ \A p, q \in open' : p.id = q.id => p = q
                      /\ \A p \in open' : Owed(p, effects', lost')
    BY <1>9 DEF OpenOnce
  <2>1. \A p \in open : p.id # g
    BY <1>1 DEF OnceInv, Numbered
  <2> QED
    BY <1>1, <1>4, <1>7, <2>1 DEF OnceInv, OpenOnce
<1>11. BookAlone'
  <2> SUFFICES ASSUME Alone'
               PROVE  /\ Len(book') <= 1
                      /\ \A i \in DOMAIN book' : Owed(book'[i], effects', lost')
                      /\ \A p \in open' : book'[p.sequence + 1].stage = p.stage
    BY DEF BookAlone
  <2>1. placed = {}
    BY <1>1 DEF Alone
  <2>2. DOMAIN book = {} /\ open = {}
    BY <2>1 DEF OnceInv, Numbered
  <2>3. Len(book) = 0
    BY <1>5, <2>2
  <2>4. open' \subseteq {new} /\ DOMAIN book' = {1} /\ book'[1] = new /\ Len(book') = 1
    BY <1>1, <1>5, <2>2, <2>3
  <2>5. \A p \in open' : book'[p.sequence + 1].stage = p.stage
    BY <1>4, <2>4
  <2> QED
    BY <1>7, <2>4, <2>5
<1>12. AtMostOnce'
  BY <1>1, <1>9 DEF OnceInv, AtMostOnce
<1> QED
  BY <1>8, <1>10, <1>11, <1>12

\* A step that leaves the records and the effects alone.
LEMMA AsideOnce ==
    ASSUME OnceInv, UNCHANGED <<book, open, placed, effects, lost, crashes>>
    PROVE  Numbered' /\ BookAlone' /\ OpenOnce' /\ AtMostOnce'
BY DEF OnceInv, Numbered, BookAlone, OpenOnce, AtMostOnce, Alone, Undisturbed

LEMMA InitOnce == Init => OnceInv
<1> SUFFICES ASSUME Init PROVE OnceInv
  OBVIOUS
<1>1. Inv
  BY InitInv
<1>2. /\ book = <<>> /\ open = {} /\ placed = {}
      /\ \A k \in OrderOps, g \in Orders : effects[k][g] = 0 /\ lost[k][g] = 0
  BY DEF Init
<1>3. AtMostOnce
  BY <1>2 DEF AtMostOnce
<1>4. Numbered /\ BookAlone /\ OpenOnce
  BY <1>2 DEF Numbered, BookAlone, OpenOnce
<1> QED
  BY <1>1, <1>3, <1>4 DEF OnceInv

LEMMA NextOnce == OnceInv /\ [Next]_vars => OnceInv'
<1> SUFFICES ASSUME OnceInv, [Next]_vars
             PROVE  Numbered' /\ BookAlone' /\ OpenOnce' /\ AtMostOnce'
  BY NextInv DEF OnceInv
<1>1. Inv /\ Inv' /\ WorldOK'
  BY NextInv DEF OnceInv, Inv, TypeOK, WorldOK
<1>2. ASSUME NEW g \in Orders, PlaceOrder(g) PROVE Numbered' /\ BookAlone' /\ OpenOnce' /\ AtMostOnce'
  BY <1>2, PlaceOrderOnce
<1>3. ASSUME NEW g \in Orders, Credit(g) \/ Fill(g)
      PROVE  Numbered' /\ BookAlone' /\ OpenOnce' /\ AtMostOnce'
  BY <1>3, AsideOnce DEF Credit, Fill
<1>4. ASSUME BeginPass \/ UNCHANGED vars PROVE Numbered' /\ BookAlone' /\ OpenOnce' /\ AtMostOnce'
  BY <1>4, AsideOnce DEF BeginPass, vars, world
<1>5. ASSUME NEW o \in todo, ProcessOrder(o)
      PROVE  Numbered' /\ BookAlone' /\ OpenOnce' /\ AtMostOnce'
  <2>1. PICK new : /\ Follows(o, new)
                   /\ AnsweredStep(o, new) \/ LostStep(o, new) \/ \E result : QuietStep(o, new, result)
    BY <1>1, <1>5, DepositShape, ExchangeShape, WithdrawShape DEF ProcessOrder
  <2> QED
    BY <1>1, <2>1, AnsweredOnce, LostOnce, QuietOnce
<1>6. ASSUME Crash PROVE Numbered' /\ BookAlone' /\ OpenOnce' /\ AtMostOnce'
  <2>1. Restart /\ effects' = effects /\ lost' = lost
    BY <1>6 DEF Crash, world
  <2>2. Numbered' /\ BookAlone' /\ OpenOnce'
    BY <1>1, <2>1, RestartOnce DEF OnceInv, BookAlone
  <2>3. Undisturbed' => Undisturbed
    <3>1. crashes' # 0 /\ placed' = placed
      BY <2>1 DEF Restart, OnceInv, Inv, TypeOK
    <3> QED
      BY <3>1 DEF Undisturbed
  <2> QED
    BY <2>1, <2>2, <2>3 DEF OnceInv, AtMostOnce
<1> QED
  BY <1>2, <1>3, <1>4, <1>5, <1>6 DEF Next

LEMMA OnceHolds == Spec => []OnceInv
BY InitOnce, NextOnce, PTL DEF Spec

\* For any number of crashes and lost replies, a command is given again only when the
\* result of an earlier one was lost (AtMostOnce), as long as no session reads back the
\* entries of more than one order.
THEOREM CommandsOnce == Spec => []AtMostOnce
<1>1. OnceInv => AtMostOnce
  BY DEF OnceInv
<1> QED
  BY <1>1, OnceHolds, PTL

\* An effect of a step is one of the operation that its order is at.
LEMMA StepsForward ==
    ASSUME OnceInv, [Next]_vars, Undisturbed, NEW g \in Orders
    PROVE  /\ effects["exchanging"][g] > 0 =>
                effects'["makingDeposit"][g] = effects["makingDeposit"][g]
           /\ effects["withdrawing"][g] > 0 =>
                effects'["exchanging"][g] = effects["exchanging"][g]
<1>1. CASE effects' = effects
  BY <1>1
<1>2. ASSUME NEW o \in todo, NEW new, AnsweredStep(o, new) \/ LostStep(o, new)
      PROVE  /\ effects["exchanging"][g] > 0 =>
                  effects'["makingDeposit"][g] = effects["makingDeposit"][g]
             /\ effects["withdrawing"][g] > 0 =>
                  effects'["exchanging"][g] = effects["exchanging"][g]
  <2>1. o.stage \in OrderOps /\ Before(o, o.stage) /\ effects' = Count(effects, o)
    BY <1>2 DEF AnsweredStep, LostStep
  <2>2. o \in BrokerOrder /\ WorldOK /\ Owed(o, effects, lost)
    BY <2>1, OrderInHand
  <2>3. \A k \in OrderOps :
          effects'[k][g] = IF k = o.stage /\ g = o.id THEN effects[k][g] + 1 ELSE effects[k][g]
    BY <2>1, <2>2, CountType DEF WorldOK
  <2>4. g = o.id /\ o.stage = "makingDeposit" => effects["exchanging"][g] = 0
    BY <2>2 DEF Owed
  <2>5. g = o.id /\ o.stage = "exchanging" => effects["withdrawing"][g] = 0
    BY <2>2 DEF Owed
  <2> QED
    BY <2>3, <2>4, <2>5 DEF OrderOps
<1>3. ASSUME NEW o \in todo, ProcessOrder(o)
      PROVE  effects' = effects \/ \E new : AnsweredStep(o, new) \/ LostStep(o, new)
  BY <1>3, DepositShape, ExchangeShape, WithdrawShape DEF ProcessOrder, QuietStep, OnceInv
<1>4. effects' = effects \/ \E o \in todo : ProcessOrder(o)
  BY DEF Next, PlaceOrder, Credit, Fill, BeginPass, Crash, vars, world
<1> QED
  BY <1>1, <1>2, <1>3, <1>4

\* No operation of an order takes effect after a later one has (NoStepBack), under the
\* same condition.
THEOREM OperationsInOrder == Spec => NoStepBack
<1>1. OnceInv /\ [Next]_vars =>
        [Undisturbed => \A g \in Orders :
            /\ effects["exchanging"][g] > 0 =>
                effects'["makingDeposit"][g] = effects["makingDeposit"][g]
            /\ effects["withdrawing"][g] > 0 =>
                effects'["exchanging"][g] = effects["exchanging"][g]]_effects
  BY StepsForward
<1> QED
  BY <1>1, OnceHolds, PTL DEF Spec, NoStepBack
=============================================================================
