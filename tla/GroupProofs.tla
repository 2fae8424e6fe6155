-------------------------------- MODULE GroupProofs ----------------------------
(***************************************************************************)
(* Theorems about Settlements, and about GroupMembership, which puts       *)
(* settlements, group transactions and memberships together: for any       *)
(* number of users, requests of the three kinds in flight, group           *)
(* transactions, settlements and amounts, and any opening ledger.          *)
(***************************************************************************)
EXTENDS GroupMembership, GroupTransactionsProofs

-----------------------------------------------------------------------------
(* Amounts.                                                                *)

\* The excess is part of the payment, whatever the debt.
LEMMA ExcessBound ==
  ASSUME NEW debt, NEW n \in Nat
  PROVE  Excess(debt, n) \in Nat /\ Excess(debt, n) <= n
BY DEF Excess

-----------------------------------------------------------------------------
(* The rows of a settlement.                                               *)

\* The personal rows in which a step leaves settlement y's rows as they are.
RowsKept(y) == Linked(y)' = Linked(y) /\ \A t \in Linked(y) : personal'[t] = personal[t]

\* The rows of x are the new pair i and e, and the ids were free.
NewPair(x, from, to, n, m, i, e) ==
  /\ i \in UnusedSettRows /\ e \in UnusedSettRows
  /\ Linked(x)' = {i, e}
  /\ personal'[i] = SettIncome(x, to, n, m) /\ personal'[e] = SettExpense(x, from, n, m)

\* A booked row is a personal row, linked to its settlement.
LEMMA BookedRowType ==
  ASSUME NEW x \in SettIds, NEW u \in Users, NEW n \in Nat, Stored(n) > 0,
         NEW m \in Metas \cup {None}
  PROVE  /\ SettExpense(x, u, n, m) \in PersonalRow /\ SettIncome(x, u, n, m) \in PersonalRow
         /\ SettExpense(x, u, n, m).sett = x /\ SettIncome(x, u, n, m).sett = x
<1>1. Stored(n) \in Amount
  BY StoredMonotone DEF Amount
<1> QED
  BY <1>1 DEF SettExpense, SettIncome, PersonalRow

\* BookExcess leaves x with no row or a new pair, and every other settlement alone.
LEMMA BookExcessRows ==
  ASSUME SettTypeOK,
         NEW x \in SettIds, NEW from \in Users, NEW to \in Users, NEW n \in Nat,
         NEW m \in Metas \cup {None}, BookExcess(x, from, to, n, m)
  PROVE  /\ personal' \in [RowIds -> PersonalRow \cup {NoRow}]
         /\ \A y \in SettIds \ {x} : RowsKept(y)
         /\ \/ n = 0 /\ Linked(x)' = {}
            \/ Stored(n) > 0 /\ \E i, e \in RowIds : i # e /\ NewPair(x, from, to, n, m, i, e)
<1> DEFINE kept == [t \in RowIds |-> IF t \in Linked(x) THEN NoRow ELSE personal[t]]
<1>1. personal \in [RowIds -> PersonalRow \cup {NoRow}]
  BY DEF SettTypeOK, TablesTypeOK
<1>2. kept \in [RowIds -> PersonalRow \cup {NoRow}]
  BY <1>1
<1>3. NoRow \notin PersonalRow
  BY StateAssumptions
<1>4. CASE n = 0 /\ personal' = kept
  <2>1. \A t \in RowIds : personal'[t] = IF t \in Linked(x) THEN NoRow ELSE personal[t]
    BY <1>4
  <2>2. Linked(x)' = {}
    BY <2>1 DEF Linked
  <2>3. ASSUME NEW y \in SettIds \ {x} PROVE RowsKept(y)
    BY <2>1 DEF RowsKept, Linked
  <2> QED
    BY <1>2, <1>4, <2>2, <2>3
<1>5. ASSUME Stored(n) > 0, NEW i \in UnusedSettRows, NEW e \in UnusedSettRows, i # e,
             personal' = [kept EXCEPT ![i] = SettIncome(x, to, n, m),
                                      ![e] = SettExpense(x, from, n, m)]
      PROVE  /\ personal' \in [RowIds -> PersonalRow \cup {NoRow}]
             /\ \A y \in SettIds \ {x} : RowsKept(y)
             /\ NewPair(x, from, to, n, m, i, e)
  <2>1. i \in RowIds /\ e \in RowIds /\ personal[i] = NoRow /\ personal[e] = NoRow
    BY <1>5 DEF UnusedSettRows
  <2> DEFINE inc == SettIncome(x, to, n, m)
             exp == SettExpense(x, from, n, m)
  <2>2. inc \in PersonalRow /\ exp \in PersonalRow /\ inc.sett = x /\ exp.sett = x
    BY <1>5, BookedRowType
  <2>3. personal' = [kept EXCEPT ![i] = inc, ![e] = exp]
    BY <1>5
  <2> HIDE DEF inc, exp
  <2>4. personal'[i] = inc /\ personal'[e] = exp
    BY <1>2, <1>5, <2>1, <2>3
  <2>5. \A t \in RowIds \ {i, e} :
          personal'[t] = IF t \in Linked(x) THEN NoRow ELSE personal[t]
    BY <1>2, <2>3
  <2>6. personal' \in [RowIds -> PersonalRow \cup {NoRow}]
    BY <1>2, <2>1, <2>2, <2>3
  <2>7. Linked(x)' = {i, e}
    <3>1. inc # NoRow /\ exp # NoRow
      BY <1>3, <2>2
    <3> QED
      BY <2>1, <2>2, <2>4, <2>5, <3>1 DEF Linked
  <2>8. ASSUME NEW y \in SettIds \ {x} PROVE RowsKept(y)
    <3>1. i \notin Linked(y) /\ e \notin Linked(y)
      BY <2>1 DEF Linked
    <3>2. \A t \in RowIds : t \in Linked(y)' <=> t \in Linked(y)
      BY <2>1, <2>2, <2>4, <2>5, <3>1 DEF Linked
    <3>3. Linked(y)' = Linked(y)
      BY <3>2 DEF Linked
    <3>4. \A t \in Linked(y) : personal'[t] = personal[t]
      BY <2>5, <3>1 DEF Linked
    <3> QED
      BY <3>3, <3>4 DEF RowsKept
  <2> QED
    BY <1>5, <2>4, <2>6, <2>7, <2>8 DEF NewPair, inc, exp
<1>6. \/ n = 0 /\ personal' = kept
      \/ Stored(n) > 0 /\ \E i, e \in UnusedSettRows :
           i # e /\ personal' = [kept EXCEPT ![i] = SettIncome(x, to, n, m),
                                            ![e] = SettExpense(x, from, n, m)]
  BY DEF BookExcess
<1>7. UnusedSettRows \subseteq RowIds
  BY DEF UnusedSettRows
<1> QED
  BY <1>4, <1>5, <1>6, <1>7

-----------------------------------------------------------------------------
(* Types.                                                                  *)

\* The amounts clients send are natural numbers, and NULL is none of them.
LEMMA AmountsNat == SettAmounts \subseteq Nat /\ None \notin SettAmounts
BY SettAssumptions DEF SettRequest, Amount

\* A request in flight has the fields of its kind.
LEMMA RequestFields ==
  ASSUME SettTypeOK, NEW op, NEW c \in InFlight(op)
  PROVE  /\ c \in Requesters /\ settling[c] # None /\ settling[c].op = op
         /\ op = "create" => settling[c] \in CreateSettRequest
         /\ op = "insert" => settling[c] \in InsertedSett
         /\ op = "update" => settling[c] \in UpdateSettRequest
         /\ op = "reprice" => settling[c] \in RepricedSett
         /\ op = "delete" => settling[c] \in DeleteSettRequest
         /\ op = "hide" => settling[c] \in HiddenSett
         /\ op = "delete group" => settling[c] \in CloseSettRequest
         /\ op = "close" => settling[c] \in ClosedSetts
<1>1. c \in Requesters /\ settling[c] # None /\ settling[c].op = op
  BY DEF InFlight
<1>2. settling[c] \in SettRequest
  BY <1>1 DEF SettTypeOK
<1>3. /\ \A r \in CreateSettRequest : r.op = "create"
      /\ \A r \in InsertedSett : r.op = "insert"
      /\ \A r \in UpdateSettRequest : r.op = "update"
      /\ \A r \in RepricedSett : r.op = "reprice"
      /\ \A r \in DeleteSettRequest : r.op = "delete"
      /\ \A r \in HiddenSett : r.op = "hide"
      /\ \A r \in CloseSettRequest : r.op = "delete group"
      /\ \A r \in ClosedSetts : r.op = "close"
  BY DEF CreateSettRequest, InsertedSett, UpdateSettRequest, RepricedSett,
         DeleteSettRequest, HiddenSett, CloseSettRequest, ClosedSetts
<1> QED
  BY <1>1, <1>2, <1>3 DEF SettRequest

\* What a step leaves of the tables when it writes settlements and rows only.
LEMMA TablesTyped ==
  ASSUME SettTypeOK, UNCHANGED <<clock, groupDeleted, members, gts, splits>>,
         setts' \in [SettIds -> SettRow \cup {NoRow}],
         personal' \in [RowIds -> PersonalRow \cup {NoRow}]
  PROVE  TablesTypeOK'
BY DEF SettTypeOK, TablesTypeOK

\* What a request will write is positive, and what it will book is part of it.
WithinPayment(r) ==
  r # None /\ r.op \in {"insert", "reprice"} => Stored(r.amt) > 0 /\ r.excess <= r.amt

\* The amount a commit writes was checked when the request read the debt.
SettTypeInv == SettTypeOK /\ \A c \in Requesters : WithinPayment(settling[c])

\* A request that is answered leaves the others.
LEMMA FinishTyped ==
  ASSUME SettTypeInv, NEW c \in Requesters, SettFinish(c), TablesTypeOK'
  PROVE  SettTypeInv'
BY DEF SettTypeInv, SettTypeOK, SettFinish, WithinPayment

\* A step that only starts a request or takes it further.
LEMMA RequestTyped ==
  ASSUME SettTypeInv, NEW c \in Requesters, NEW r \in SettRequest, WithinPayment(r),
         settling' = [settling EXCEPT ![c] = r], UNCHANGED <<clock, tables>>
  PROVE  SettTypeInv'
<1>1. settling' \in [Requesters -> SettRequest \cup {None}]
  BY DEF SettTypeInv, SettTypeOK
<1>2. TablesTypeOK'
  BY DEF SettTypeInv, SettTypeOK, TablesTypeOK, tables
<1>3. \A d \in Requesters : WithinPayment(settling'[d])
  BY DEF SettTypeInv, SettTypeOK
<1> QED
  BY <1>1, <1>2, <1>3 DEF SettTypeInv, SettTypeOK, WithinPayment

\* A step that takes a request in.
Receives(c) ==
  ReceiveSettlement(c) \/ ReceiveSettUpdate(c) \/ ReceiveSettDelete(c) \/ ReceiveClose(c)

Received == {"create", "update", "delete", "delete group"}

\* What a receive puts in flight has neither read the debt nor hidden rows.
LEMMA ReceivedRequest ==
  ASSUME SettTypeInv, NEW c \in Requesters, Receives(c)
  PROVE  \E r \in SettRequest : r.op \in Received /\ SettReceive(c, r)
<1>1. CASE ReceiveSettlement(c)
  <2>1. PICK from, to \in Users, n \in SettAmounts, m \in Metas \cup {None} :
          SettReceive(c, [op |-> "create", from |-> from, to |-> to, amt |-> n, meta |-> m])
    BY <1>1, Zenon DEF ReceiveSettlement
  <2>2. [op |-> "create", from |-> from, to |-> to, amt |-> n, meta |-> m] \in CreateSettRequest
    BY DEF CreateSettRequest
  <2> QED
    BY <2>1, <2>2 DEF SettRequest, Received
<1>2. CASE ReceiveSettUpdate(c)
  <2>1. PICK x \in SettIds, n \in SettAmounts \cup {None}, m \in Metas \cup {None} :
          /\ <<n, m>> # <<None, None>>
          /\ SettReceive(c, [op |-> "update", sett |-> x, amt |-> n, meta |-> m])
    BY <1>2, Zenon DEF ReceiveSettUpdate
  <2>2. [op |-> "update", sett |-> x, amt |-> n, meta |-> m] \in UpdateSettRequest
    BY <2>1 DEF UpdateSettRequest
  <2> QED
    BY <2>1, <2>2 DEF SettRequest, Received
<1>3. CASE ReceiveSettDelete(c)
  <2>1. PICK x \in SettIds : SettReceive(c, [op |-> "delete", sett |-> x])
    BY <1>3, Zenon DEF ReceiveSettDelete
  <2>2. [op |-> "delete", sett |-> x] \in DeleteSettRequest
    BY DEF DeleteSettRequest
  <2> QED
    BY <2>1, <2>2 DEF SettRequest, Received
<1>4. CASE ReceiveClose(c)
  <2>1. SettReceive(c, [op |-> "delete group"])
    BY <1>4 DEF ReceiveClose
  <2>2. [op |-> "delete group"] \in CloseSettRequest
    BY DEF CloseSettRequest
  <2> QED
    BY <2>1, <2>2 DEF SettRequest, Received
<1> QED
  BY <1>1, <1>2, <1>3, <1>4 DEF Receives

LEMMA ReceiveTyped ==
  ASSUME SettTypeInv, NEW c \in Requesters, Receives(c)
  PROVE  SettTypeInv'
<1>1. PICK r \in SettRequest : r.op \in Received /\ SettReceive(c, r)
  BY ReceivedRequest
<1> QED
  BY <1>1, RequestTyped DEF SettReceive, WithinPayment, Received

LEMMA InsertTyped ==
  ASSUME SettTypeInv, NEW c \in Requesters, InsertSettlement(c)
  PROVE  SettTypeInv'
<1> DEFINE r == settling[c]
<1>1. r \in CreateSettRequest
  BY RequestFields DEF SettTypeInv, InsertSettlement
<1>2. r.from \in Users /\ r.to \in Users /\ r.amt \in SettAmounts /\ r.meta \in Metas \cup {None}
  BY <1>1 DEF CreateSettRequest
<1>3. Excess(CreateDebt(r), r.amt) \in Nat /\ Excess(CreateDebt(r), r.amt) <= r.amt
  <2>1. r.amt \in Nat
    BY <1>2, AmountsNat
  <2> QED
    BY <2>1, ExcessBound
<1>4. PICK x \in UnusedSetts :
        settling' = [settling EXCEPT ![c] =
          [op |-> "insert", sett |-> x, from |-> r.from, to |-> r.to, amt |-> r.amt,
           meta |-> r.meta, excess |-> Excess(CreateDebt(r), r.amt)]]
  BY DEF InsertSettlement
<1>5. x \in SettIds
  BY DEF UnusedSetts
<1>6. [op |-> "insert", sett |-> x, from |-> r.from, to |-> r.to, amt |-> r.amt,
       meta |-> r.meta, excess |-> Excess(CreateDebt(r), r.amt)] \in InsertedSett
  BY <1>2, <1>3, <1>5 DEF InsertedSett
<1>7. Stored(r.amt) > 0
  BY DEF InsertSettlement
<1> QED
  BY <1>3, <1>4, <1>6, <1>7, RequestTyped DEF InsertSettlement, SettRequest, WithinPayment

LEMMA RepriceTyped ==
  ASSUME SettTypeInv, NEW c \in Requesters, RepriceSettlement(c)
  PROVE  SettTypeInv'
<1> DEFINE r == settling[c]
           q == [op |-> "reprice", sett |-> r.sett, amt |-> r.amt, meta |-> r.meta,
                 excess |-> Excess(RepriceDebt(r), r.amt)]
<1>1. r \in UpdateSettRequest
  BY RequestFields DEF SettTypeInv, RepriceSettlement
<1>2. r.sett \in SettIds /\ r.amt \in SettAmounts /\ r.meta \in Metas \cup {None}
  BY <1>1 DEF UpdateSettRequest, RepriceSettlement
<1>3. Excess(RepriceDebt(r), r.amt) \in Nat /\ Excess(RepriceDebt(r), r.amt) <= r.amt
  <2>1. r.amt \in Nat
    BY <1>2, AmountsNat
  <2> QED
    BY <2>1, ExcessBound
<1>4. q \in RepricedSett
  BY <1>2, <1>3 DEF RepricedSett
<1>5. /\ settling' = [settling EXCEPT ![c] = q] /\ UNCHANGED <<clock, tables>>
      /\ Stored(r.amt) > 0
  BY Zenon DEF RepriceSettlement
<1> QED
  BY <1>3, <1>4, <1>5, RequestTyped DEF SettRequest, WithinPayment

LEMMA HideTyped ==
  ASSUME SettTypeInv, NEW c \in Requesters, HideSettRows(c)
  PROVE  SettTypeInv'
<1>1. settling[c] \in DeleteSettRequest
  BY RequestFields DEF SettTypeInv, HideSettRows
<1>2. [op |-> "hide", sett |-> settling[c].sett, seen |-> Linked(settling[c].sett)] \in HiddenSett
  BY <1>1 DEF HiddenSett, DeleteSettRequest, Linked
<1> QED
  BY <1>2, RequestTyped DEF HideSettRows, SettRequest, WithinPayment

\* The columns an update leaves are those of a settlement.
LEMMA UpdatedSettType ==
  ASSUME NEW r, NEW row \in SettRow, setts[r.sett] = row,
         r.amt = None \/ Stored(r.amt) \in Amount, r.meta \in Metas \cup {None}
  PROVE  /\ UpdatedSett(r) \in SettRow
         /\ UpdatedSett(r).from = row.from /\ UpdatedSett(r).to = row.to
         /\ UpdatedSett(r).amt = IF r.amt = None THEN row.amt ELSE Stored(r.amt)
         /\ UpdatedSett(r).meta = IF r.meta = None THEN row.meta ELSE r.meta
         /\ UpdatedSett(r).deleted = row.deleted
BY DEF UpdatedSett, SettRow

\* A commit writes the settlement and books what it computed when it read the debt.
CommitsSett(c, x, row, n) ==
  /\ setts' = [setts EXCEPT ![x] = row]
  /\ BookExcess(x, row.from, row.to, n, row.meta)
  /\ n <= settling[c].amt /\ row.amt = Stored(settling[c].amt)
  /\ SettFinish(c) /\ UNCHANGED <<clock, groupDeleted, members, gts, splits>>

LEMMA CommitWrites ==
  ASSUME SettTypeInv, NEW c \in Requesters, CommitSettlement(c) \/ CommitReprice(c)
  PROVE  /\ settling[c].sett \in SettIds /\ settling[c].amt \in Nat
         /\ settling[c].excess \in Nat
         /\ \E row \in SettRow : CommitsSett(c, settling[c].sett, row, settling[c].excess)
<1> DEFINE r == settling[c]
<1>1. setts \in [SettIds -> SettRow \cup {NoRow}]
  BY DEF SettTypeInv, SettTypeOK, TablesTypeOK
<1>2. CASE CommitSettlement(c)
  <2> DEFINE row == [from |-> r.from, to |-> r.to, amt |-> Stored(r.amt), meta |-> r.meta,
                     deleted |-> FALSE]
  <2>1. r \in InsertedSett /\ r.op = "insert" /\ r # None
    BY <1>2, RequestFields DEF CommitSettlement, SettTypeInv
  <2>2. /\ r.sett \in SettIds /\ r.from \in Users /\ r.to \in Users /\ r.excess \in Nat
        /\ r.meta \in Metas \cup {None} /\ r.amt \in Nat
    BY <2>1, AmountsNat DEF InsertedSett
  <2>3. Stored(r.amt) > 0 /\ r.excess <= r.amt
    BY <2>1 DEF SettTypeInv, WithinPayment
  <2>4. Stored(r.amt) \in Amount
    BY <2>2, <2>3, StoredMonotone DEF Amount
  <2>5. row \in SettRow /\ row.from = r.from /\ row.to = r.to /\ row.meta = r.meta
        /\ row.amt = Stored(r.amt)
    BY <2>2, <2>4 DEF SettRow
  <2>6. CommitsSett(c, r.sett, row, r.excess)
    BY <1>2, <2>3, <2>5 DEF CommitSettlement, CommitsSett
  <2> QED
    BY <2>2, <2>5, <2>6
<1>3. CASE CommitReprice(c)
  <2>1. r \in RepricedSett /\ r.op = "reprice" /\ r # None
    BY <1>3, RequestFields DEF CommitReprice, SettTypeInv
  <2>2. /\ r.sett \in SettIds /\ r.excess \in Nat
        /\ r.meta \in Metas \cup {None} /\ r.amt \in Nat /\ r.amt # None
    BY <2>1, AmountsNat DEF RepricedSett
  <2>3. Stored(r.amt) > 0 /\ r.excess <= r.amt
    BY <2>1 DEF SettTypeInv, WithinPayment
  <2>4. Stored(r.amt) \in Amount
    BY <2>2, <2>3, StoredMonotone DEF Amount
  <2>5. setts[r.sett] \in SettRow
    BY <1>1, <1>3, <2>2 DEF CommitReprice
  <2>6. /\ UpdatedSett(r) \in SettRow /\ UpdatedSett(r).amt = Stored(r.amt)
        /\ UpdatedSett(r).from = setts[r.sett].from /\ UpdatedSett(r).to = setts[r.sett].to
    BY <2>2, <2>4, <2>5, UpdatedSettType
  <2>7. CommitsSett(c, r.sett, UpdatedSett(r), r.excess)
    BY <1>3, <2>3, <2>6 DEF CommitReprice, CommitsSett
  <2> QED
    BY <2>2, <2>6, <2>7
<1> QED
  BY <1>2, <1>3

LEMMA CommitTyped ==
  ASSUME SettTypeInv, NEW c \in Requesters, CommitSettlement(c) \/ CommitReprice(c)
  PROVE  SettTypeInv'
<1> DEFINE x == settling[c].sett
           n == settling[c].excess
<1>1. PICK row \in SettRow : CommitsSett(c, x, row, n)
  BY CommitWrites
<1>2. x \in SettIds /\ n \in Nat
  BY CommitWrites
<1>3. setts' \in [SettIds -> SettRow \cup {NoRow}]
  BY <1>1, <1>2 DEF CommitsSett, SettTypeInv, SettTypeOK, TablesTypeOK
<1>4. row.from \in Users /\ row.to \in Users /\ row.meta \in Metas \cup {None}
  BY <1>1 DEF SettRow
<1>5. BookExcess(x, row.from, row.to, n, row.meta)
  BY <1>1 DEF CommitsSett
<1>6. personal' \in [RowIds -> PersonalRow \cup {NoRow}]
  BY <1>2, <1>4, <1>5, BookExcessRows DEF SettTypeInv
<1>7. TablesTypeOK'
  BY <1>1, <1>3, <1>6, TablesTyped DEF CommitsSett, SettTypeInv
<1> QED
  BY <1>1, <1>7, FinishTyped DEF CommitsSett

LEMMA NotesTyped ==
  ASSUME SettTypeInv, NEW c \in Requesters, CommitNotes(c)
  PROVE  SettTypeInv'
<1> DEFINE r == settling[c]
<1>1. /\ setts \in [SettIds -> SettRow \cup {NoRow}]
      /\ personal \in [RowIds -> PersonalRow \cup {NoRow}]
  BY DEF SettTypeInv, SettTypeOK, TablesTypeOK
<1>2. r.sett \in SettIds /\ r.amt = None /\ r.meta \in Metas \cup {None}
  <2>1. r \in UpdateSettRequest
    BY RequestFields DEF SettTypeInv, CommitNotes
  <2> QED
    BY <2>1 DEF UpdateSettRequest, CommitNotes
<1>3. UpdatedSett(r) \in SettRow
  BY <1>1, <1>2, UpdatedSettType DEF CommitNotes
<1>4. setts' \in [SettIds -> SettRow \cup {NoRow}]
  BY <1>1, <1>2, <1>3 DEF CommitNotes
<1>5. personal' \in [RowIds -> PersonalRow \cup {NoRow}]
  <2>1. \A p \in PersonalRow : [p EXCEPT !.meta = r.meta] \in PersonalRow
    BY <1>2 DEF PersonalRow
  <2>2. \A t \in RowIds : t \in Linked(r.sett) => personal[t] \in PersonalRow
    BY <1>1 DEF Linked
  <2> QED
    BY <1>1, <2>1, <2>2 DEF CommitNotes
<1>6. TablesTypeOK'
  BY <1>4, <1>5, TablesTyped DEF CommitNotes, SettTypeInv
<1> QED
  BY <1>6, FinishTyped DEF CommitNotes

LEMMA DeleteTyped ==
  ASSUME SettTypeInv, NEW c \in Requesters, CommitSettDelete(c)
  PROVE  SettTypeInv'
<1> DEFINE r == settling[c]
<1>1. /\ setts \in [SettIds -> SettRow \cup {NoRow}]
      /\ personal \in [RowIds -> PersonalRow \cup {NoRow}]
  BY DEF SettTypeInv, SettTypeOK, TablesTypeOK
<1>2. r.sett \in SettIds
  <2>1. r \in HiddenSett
    BY RequestFields DEF SettTypeInv, CommitSettDelete
  <2> QED
    BY <2>1 DEF HiddenSett
<1>3. setts' \in [SettIds -> SettRow \cup {NoRow}]
  <2>1. \A p \in SettRow : [p EXCEPT !.deleted = TRUE] \in SettRow
    BY DEF SettRow
  <2> QED
    BY <1>1, <1>2, <2>1 DEF CommitSettDelete
<1>4. personal' \in [RowIds -> PersonalRow \cup {NoRow}]
  <2>1. \A p \in PersonalRow : [p EXCEPT !.deleted = TRUE] \in PersonalRow
    BY DEF PersonalRow
  <2>2. \A t \in RowIds : HiddenSettRow(r, t) \in PersonalRow \cup {NoRow}
    BY <1>1, <2>1 DEF Linked, HiddenSettRow
  <2> QED
    BY <2>2 DEF CommitSettDelete
<1>5. TablesTypeOK'
  BY <1>3, <1>4, TablesTyped DEF CommitSettDelete, SettTypeInv
<1> QED
  BY <1>5, FinishTyped DEF CommitSettDelete

LEMMA CloseSettlementsTyped ==
  ASSUME SettTypeInv, NEW c \in Requesters, CloseSettlements(c)
  PROVE  SettTypeInv'
<1>1. [op |-> "close", seen |-> {x \in SettIds : setts[x] # NoRow}] \in ClosedSetts
  BY DEF ClosedSetts
<1> QED
  BY <1>1, RequestTyped DEF CloseSettlements, SettRequest, WithinPayment

LEMMA DeleteGroupTyped ==
  ASSUME SettTypeInv, NEW c \in Requesters, CommitDeleteGroup(c)
  PROVE  SettTypeInv'
<1>1. /\ clock \in Nat /\ members \subseteq Users
      /\ gts \in [GtIds -> GtRow \cup {NoRow}]
      /\ splits \in [GtIds -> [Users -> SplitRow \cup {NoRow}]]
      /\ setts \in [SettIds -> SettRow \cup {NoRow}]
      /\ personal \in [RowIds -> PersonalRow \cup {NoRow}]
  BY DEF SettTypeInv, SettTypeOK, TablesTypeOK
<1>2. setts' \in [SettIds -> SettRow \cup {NoRow}]
  <2>1. \A p \in SettRow : [p EXCEPT !.deleted = TRUE] \in SettRow
    BY DEF SettRow
  <2> QED
    BY <1>1, <2>1 DEF CommitDeleteGroup, SettsClosed
<1>3. personal' \in [RowIds -> PersonalRow \cup {NoRow}]
  <2>1. \A p \in PersonalRow : [p EXCEPT !.deleted = TRUE] \in PersonalRow
    BY DEF PersonalRow
  <2> QED
    BY <1>1, <2>1 DEF CommitDeleteGroup, RowsClosed
<1>4. gts' \in [GtIds -> GtRow \cup {NoRow}]
  <2>1. \A p \in GtRow : [p EXCEPT !.deleted = TRUE, !.stamp = clock] \in GtRow
    BY <1>1 DEF GtRow
  <2> QED
    BY <1>1, <2>1 DEF CommitDeleteGroup, GtsClosed
<1>5. groupDeleted' \in BOOLEAN /\ UNCHANGED <<clock, members, splits>>
  BY DEF CommitDeleteGroup
<1>6. TablesTypeOK'
  BY <1>1, <1>2, <1>3, <1>4, <1>5 DEF TablesTypeOK
<1> QED
  BY <1>6, FinishTyped DEF CommitDeleteGroup

LEMMA EditTyped ==
  ASSUME SettTypeInv, UpdateTransaction \/ DeleteTransaction
  PROVE  SettTypeInv'
<1>1. /\ setts \in [SettIds -> SettRow \cup {NoRow}]
      /\ personal \in [RowIds -> PersonalRow \cup {NoRow}]
  BY DEF SettTypeInv, SettTypeOK, TablesTypeOK
<1>2. personal' \in [RowIds -> PersonalRow \cup {NoRow}]
  <2>1. CASE UpdateTransaction
    <3>1. PICK t \in RowIds, k \in {"expense", "income"}, n \in SettAmounts :
            /\ RowLive(t) /\ Stored(n) > 0
            /\ personal' = [personal EXCEPT ![t].kind = k, ![t].amt = Stored(n)]
      BY <2>1 DEF UpdateTransaction
    <3> DEFINE p == personal[t]
               q == [p EXCEPT !.kind = k, !.amt = Stored(n)]
    <3>2. n \in Nat
      BY <3>1, AmountsNat
    <3>3. Stored(n) \in Amount
      BY <3>1, <3>2, StoredMonotone DEF Amount
    <3>4. p \in PersonalRow
      BY <1>1, <3>1 DEF RowLive
    <3>5. q \in PersonalRow
      BY <3>1, <3>3, <3>4 DEF PersonalRow
    <3>6. personal' = [personal EXCEPT ![t] = q]
      BY <1>1, <3>1, <3>4 DEF PersonalRow
    <3> QED
      BY <1>1, <3>5, <3>6
  <2>2. CASE DeleteTransaction
    BY <1>1, <2>2 DEF DeleteTransaction
  <2> QED
    BY <2>1, <2>2
<1>3. TablesTypeOK' /\ UNCHANGED settling
  <2>1. UNCHANGED <<clock, groupDeleted, members, gts, splits, setts, settling>>
    BY DEF UpdateTransaction, DeleteTransaction
  <2> QED
    BY <1>1, <1>2, <2>1, TablesTyped DEF SettTypeInv
<1> QED
  BY <1>3 DEF SettTypeInv, SettTypeOK, WithinPayment

LEMMA SettPurgeTyped ==
  ASSUME SettTypeInv, PurgeSettledRows \/ PurgeSettlements
  PROVE  SettTypeInv'
<1>1. /\ setts \in [SettIds -> SettRow \cup {NoRow}]
      /\ personal \in [RowIds -> PersonalRow \cup {NoRow}]
  BY DEF SettTypeInv, SettTypeOK, TablesTypeOK
<1>2. CASE PurgeSettledRows
  <2>1. personal' \in [RowIds -> PersonalRow \cup {NoRow}]
    BY <1>1, <1>2 DEF PurgeSettledRows
  <2>2. UNCHANGED <<clock, groupDeleted, members, gts, splits, setts, settling>>
    BY <1>2 DEF PurgeSettledRows
  <2>3. TablesTypeOK' /\ UNCHANGED settling
    BY <1>1, <2>1, <2>2, TablesTyped DEF SettTypeInv
  <2> QED
    BY <2>3 DEF SettTypeInv, SettTypeOK, WithinPayment
<1>3. CASE PurgeSettlements
  <2>1. \A p \in PersonalRow : [p EXCEPT !.sett = None] \in PersonalRow
    BY DEF PersonalRow
  <2>2. personal' \in [RowIds -> PersonalRow \cup {NoRow}]
    BY <1>1, <1>3, <2>1 DEF PurgeSettlements
  <2>3. setts' \in [SettIds -> SettRow \cup {NoRow}]
    BY <1>1, <1>3 DEF PurgeSettlements
  <2>4. UNCHANGED <<clock, groupDeleted, members, gts, splits, settling>>
    BY <1>3 DEF PurgeSettlements
  <2>5. TablesTypeOK' /\ UNCHANGED settling
    BY <2>2, <2>3, <2>4, TablesTyped DEF SettTypeInv
  <2> QED
    BY <2>5 DEF SettTypeInv, SettTypeOK, WithinPayment
<1> QED
  BY <1>2, <1>3

LEMMA SettTypeInit == SettInit => SettTypeInv
<1> SUFFICES ASSUME SettInit PROVE SettTypeInv
  OBVIOUS
<1>1. PICK o \in Openings : gts = o.gts /\ splits = o.splits /\ personal = o.personal
  BY DEF SettInit
<1>2. o \in Opening
  BY SettAssumptions
<1>3. /\ o.gts \in [GtIds -> GtRow \cup {NoRow}]
      /\ o.splits \in [GtIds -> [Users -> SplitRow \cup {NoRow}]]
      /\ o.personal \in [RowIds -> PersonalRow \cup {NoRow}]
  BY <1>2 DEF Opening
<1>4. TablesTypeOK
  BY <1>1, <1>3 DEF SettInit, TablesTypeOK
<1>5. settling = [c \in Requesters |-> None]
  BY DEF SettInit
<1> QED
  BY <1>4, <1>5 DEF SettTypeInv, SettTypeOK, WithinPayment

LEMMA SettTypeStep == SettTypeInv /\ [SettNext]_settVars => SettTypeInv'
<1> SUFFICES ASSUME SettTypeInv, [SettNext]_settVars PROVE SettTypeInv'
  OBVIOUS
<1>1. ASSUME NEW c \in Requesters, Receives(c) PROVE SettTypeInv'
  BY <1>1, ReceiveTyped
<1>2. ASSUME NEW c \in Requesters, InsertSettlement(c) PROVE SettTypeInv'
  BY <1>2, InsertTyped
<1>3. ASSUME NEW c \in Requesters, CommitSettlement(c) \/ CommitReprice(c) PROVE SettTypeInv'
  BY <1>3, CommitTyped
<1>4. ASSUME NEW c \in Requesters, RepriceSettlement(c) PROVE SettTypeInv'
  BY <1>4, RepriceTyped
<1>5. ASSUME NEW c \in Requesters, CommitNotes(c) PROVE SettTypeInv'
  BY <1>5, NotesTyped
<1>6. ASSUME NEW c \in Requesters, HideSettRows(c) PROVE SettTypeInv'
  BY <1>6, HideTyped
<1>7. ASSUME NEW c \in Requesters, CommitSettDelete(c) PROVE SettTypeInv'
  BY <1>7, DeleteTyped
<1>8. ASSUME NEW c \in Requesters, SettAbort(c) PROVE SettTypeInv'
  <2>1. TablesTypeOK'
    BY <1>8 DEF SettAbort, SettTypeInv, SettTypeOK, TablesTypeOK, tables
  <2> QED
    BY <1>8, <2>1, FinishTyped DEF SettAbort
<1>9. CASE UpdateTransaction \/ DeleteTransaction
  BY <1>9, EditTyped
<1>10. CASE PurgeSettledRows \/ PurgeSettlements
  BY <1>10, SettPurgeTyped
<1>11. CASE UNCHANGED settVars
  BY <1>11 DEF settVars, tables, SettTypeInv, SettTypeOK, TablesTypeOK, WithinPayment
<1>12. ASSUME NEW c \in Requesters, CloseSettlements(c) PROVE SettTypeInv'
  BY <1>12, CloseSettlementsTyped
<1>13. ASSUME NEW c \in Requesters, CommitDeleteGroup(c) PROVE SettTypeInv'
  BY <1>13, DeleteGroupTyped
<1> QED
  BY <1>1, <1>2, <1>3, <1>4, <1>5, <1>6, <1>7, <1>8, <1>9, <1>10, <1>11, <1>12, <1>13
     DEF SettNext, Receives

\* The settlements, the booked rows and the requests in flight always hold rows and
\* requests of their kind; in particular no interleaving stores an amount that a
\* CHECK of the tables refuses.
THEOREM SettTypeCorrect == SettSpec => []SettTypeOK
<1>1. SettTypeInv => SettTypeOK
  BY DEF SettTypeInv
<1> QED
  BY <1>1, SettTypeInit, SettTypeStep, PTL DEF SettSpec

-----------------------------------------------------------------------------
(* PairedRows, when clients leave the booked rows alone.                   *)

\* What PairedRows says of x, and the purge job takes x's rows for no others.
MatchedRows(x) ==
  Linked(x) # {} => /\ setts[x] # NoRow
                    /\ \E i, e \in RowIds : IsPair(x, i, e)
                    /\ \A t \in Linked(x) : personal[t].gt = None

\* A settlement that is inserted but not committed is nobody else's.
NewSetts ==
  \A c \in InFlight("insert") :
    /\ setts[settling[c].sett] = NoRow
    /\ \A d \in InFlight("insert") : settling[d].sett = settling[c].sett => d = c

\* An open delete has hidden all the rows of its settlement, or they have been
\* replaced since and it has hidden none of them.
SeenWhole ==
  \A c \in InFlight("hide") :
    \/ Linked(settling[c].sett) \subseteq settling[c].seen
    \/ Linked(settling[c].sett) \cap settling[c].seen = {}

PairInv == SettTypeInv /\ NewSetts /\ SeenWhole /\ \A x \in SettIds : MatchedRows(x)

\* A settlement that a step leaves alone, with its rows, stays matched.
LEMMA MatchedKept ==
  ASSUME NEW x \in SettIds, MatchedRows(x), RowsKept(x), setts'[x] = setts[x]
  PROVE  MatchedRows(x)'
<1>1. CASE Linked(x) = {}
  BY <1>1 DEF MatchedRows, RowsKept
<1>2. CASE Linked(x) # {}
  <2>1. PICK i, e \in RowIds : IsPair(x, i, e)
    BY <1>2 DEF MatchedRows
  <2>2. personal'[i] = personal[i] /\ personal'[e] = personal[e] /\ Linked(x)' = Linked(x)
    BY <2>1 DEF IsPair, RowsKept
  <2>3. IsPair(x, i, e)'
    BY <2>1, <2>2 DEF IsPair
  <2>4. \A t \in Linked(x)' : personal'[t].gt = None
    BY <1>2 DEF MatchedRows, RowsKept
  <2> QED
    BY <1>2, <2>1, <2>3, <2>4 DEF MatchedRows
<1> QED
  BY <1>1, <1>2

\* The requests of a kind other than the one a step moves to were there before.
LEMMA InFlightKept ==
  ASSUME SettTypeInv, NEW d \in Requesters, NEW v, NEW op, v = None \/ v.op # op,
         settling' = [settling EXCEPT ![d] = v]
  PROVE  \A c \in InFlight(op)' : c \in InFlight(op) /\ settling'[c] = settling[c] /\ c # d
BY DEF SettTypeInv, SettTypeOK, InFlight

\* The step starts no insert and gives none of the open ones a row.
LEMMA NewSettsKept ==
  ASSUME NewSetts,
         \A c \in InFlight("insert")' :
           /\ c \in InFlight("insert") /\ settling'[c] = settling[c]
           /\ setts'[settling[c].sett] = setts[settling[c].sett] \/ setts'[settling[c].sett] = NoRow
  PROVE  NewSetts'
BY DEF NewSetts

\* The step starts no delete and adds no row that an open one has seen.
LEMMA SeenWholeKept ==
  ASSUME SeenWhole,
         \A c \in InFlight("hide")' : c \in InFlight("hide") /\ settling'[c] = settling[c],
         \A x : \A c \in InFlight("hide")' : settling[c].sett = x =>
           Linked(x)' \subseteq Linked(x) \/ Linked(x)' \cap settling[c].seen = {}
  PROVE  SeenWhole'
<1> SUFFICES ASSUME NEW c \in InFlight("hide")'
             PROVE  (\/ Linked(settling[c].sett) \subseteq settling[c].seen
                     \/ Linked(settling[c].sett) \cap settling[c].seen = {})'
  BY DEF SeenWhole
<1>1. c \in InFlight("hide") /\ settling'[c] = settling[c]
  OBVIOUS
<1>2. PICK x : x = settling[c].sett
  OBVIOUS
<1>3. Linked(x) \subseteq settling[c].seen \/ Linked(x) \cap settling[c].seen = {}
  BY <1>1, <1>2 DEF SeenWhole, Linked
<1>4. Linked(x)' \subseteq settling[c].seen \/ Linked(x)' \cap settling[c].seen = {}
  BY <1>2, <1>3
<1> QED
  BY <1>1, <1>2, <1>4 DEF Linked

\* A step that reads the tables and neither inserts nor hides keeps the pairs.
LEMMA ReadKeepsPairs ==
  ASSUME PairInv, SettTypeInv', NEW d \in Requesters, NEW v,
         v = None \/ v.op \notin {"insert", "hide"},
         settling' = [settling EXCEPT ![d] = v], UNCHANGED <<clock, tables>>
  PROVE  PairInv'
<1>1. UNCHANGED <<setts, personal>>
  BY DEF tables
<1>2. \A x \in SettIds : RowsKept(x)
  BY <1>1 DEF RowsKept, Linked
<1>3. \A x \in SettIds : MatchedRows(x)'
  BY <1>1, <1>2, MatchedKept DEF PairInv
<1>4. NewSetts'
  BY <1>1, InFlightKept, NewSettsKept DEF PairInv
<1>5. SeenWhole'
  <2>1. \A c \in InFlight("hide")' : c \in InFlight("hide") /\ settling'[c] = settling[c]
    BY InFlightKept DEF PairInv
  <2>2. \A x : Linked(x)' = Linked(x)
    BY <1>1 DEF Linked
  <2> QED
    BY <2>1, <2>2, SeenWholeKept DEF PairInv
<1> QED
  BY <1>3, <1>4, <1>5 DEF PairInv

\* The settlement of an open delete is one of the ids.
LEMMA HiddenSettId ==
  ASSUME SettTypeInv, NEW c \in InFlight("hide") PROVE settling[c].sett \in SettIds
<1>1. settling[c] \in HiddenSett
  BY RequestFields DEF SettTypeInv
<1> QED
  BY <1>1 DEF HiddenSett

LEMMA InsertKeepsPairs ==
  ASSUME PairInv, NEW d \in Requesters, InsertSettlement(d)
  PROVE  PairInv'
<1>1. SettTypeInv'
  BY InsertTyped DEF PairInv
<1>2. PICK x \in UnusedSetts : \E v :
        v.op = "insert" /\ v.sett = x /\ settling' = [settling EXCEPT ![d] = v]
  BY DEF InsertSettlement
<1> PICK v : v.op = "insert" /\ v.sett = x /\ settling' = [settling EXCEPT ![d] = v]
  BY <1>2
<1>3. UNCHANGED <<setts, personal>>
  BY DEF InsertSettlement, tables
<1>4. \A y \in SettIds : MatchedRows(y)'
  <2>1. \A y \in SettIds : RowsKept(y)
    BY <1>3 DEF RowsKept, Linked
  <2> QED
    BY <1>3, <2>1, MatchedKept DEF PairInv
<1>5. NewSetts'
  <2>1. settling'[d] = v /\ \A c \in Requesters \ {d} : settling'[c] = settling[c]
    BY <1>2 DEF PairInv, SettTypeInv, SettTypeOK
  <2>2. \A c \in InFlight("insert")' \ {d} :
          c \in InFlight("insert") /\ settling'[c] = settling[c] /\ settling[c].sett # x
    BY <2>1 DEF InFlight, UnusedSetts
  <2>3. setts[x] = NoRow
    BY DEF UnusedSetts
  <2> QED
    BY <1>2, <1>3, <2>1, <2>2, <2>3 DEF NewSetts, PairInv
<1>6. SeenWhole'
  <2>1. \A c \in InFlight("hide")' : c \in InFlight("hide") /\ settling'[c] = settling[c]
    <3>1. SettTypeInv /\ v.op # "hide"
      BY DEF PairInv
    <3> QED
      BY <3>1, InFlightKept
  <2>2. \A y : Linked(y)' = Linked(y)
    BY <1>3 DEF Linked
  <2> QED
    BY <2>1, <2>2, SeenWholeKept DEF PairInv
<1> QED
  BY <1>1, <1>4, <1>5, <1>6 DEF PairInv

LEMMA HideKeepsPairs ==
  ASSUME PairInv, NEW d \in Requesters, HideSettRows(d)
  PROVE  PairInv'
<1> DEFINE x == settling[d].sett
           v == [op |-> "hide", sett |-> x, seen |-> Linked(x)]
<1>1. SettTypeInv'
  BY HideTyped DEF PairInv
<1>2. settling' = [settling EXCEPT ![d] = v] /\ UNCHANGED <<setts, personal>>
  BY DEF HideSettRows, tables
<1>3. \A y \in SettIds : MatchedRows(y)'
  <2>1. \A y \in SettIds : RowsKept(y)
    BY <1>2 DEF RowsKept, Linked
  <2> QED
    BY <1>2, <2>1, MatchedKept DEF PairInv
<1>4. NewSetts'
  <2>1. v.op # "insert"
    OBVIOUS
  <2> QED
    BY <1>2, <2>1, InFlightKept, NewSettsKept DEF PairInv
<1>5. SeenWhole'
  <2>1. settling'[d] = v /\ \A c \in Requesters \ {d} : settling'[c] = settling[c]
    BY <1>2 DEF PairInv, SettTypeInv, SettTypeOK
  <2>2. \A c \in InFlight("hide")' \ {d} :
          c \in InFlight("hide") /\ settling'[c] = settling[c]
    BY <2>1 DEF InFlight
  <2>3. \A y : Linked(y)' = Linked(y)
    BY <1>2 DEF Linked
  <2>4. ASSUME NEW c \in InFlight("hide")'
        PROVE  (\/ Linked(settling[c].sett) \subseteq settling[c].seen
                \/ Linked(settling[c].sett) \cap settling[c].seen = {})'
    <3>1. CASE c = d
      BY <1>2, <2>1, <3>1 DEF Linked
    <3>2. CASE c # d
      BY <1>2, <2>2, <3>2 DEF PairInv, SeenWhole, Linked
    <3> QED
      BY <3>1, <3>2
  <2> QED
    BY <2>4 DEF SeenWhole
<1> QED
  BY <1>1, <1>3, <1>4, <1>5 DEF PairInv

\* The pair a commit inserts mirrors the settlement it writes.
LEMMA NewPairMatches ==
  ASSUME NEW x \in SettIds, NEW row \in SettRow, NEW n \in Nat, NEW a \in Nat, n <= a,
         row.amt = Stored(a), setts'[x] = row,
         NEW i \in RowIds, NEW e \in RowIds, NewPair(x, row.from, row.to, n, row.meta, i, e)
  PROVE  MatchedRows(x)'
<1>1. Stored(n) <= row.amt
  BY StoredMonotone
<1>2. IsPair(x, i, e)'
  BY <1>1 DEF IsPair, NewPair, SettIncome, SettExpense
<1>3. row # NoRow
  BY StateAssumptions
<1>4. \A t \in Linked(x)' : personal'[t].gt = None
  BY DEF NewPair, SettIncome, SettExpense
<1> QED
  BY <1>2, <1>3, <1>4 DEF MatchedRows

LEMMA CommitKeepsPairs ==
  ASSUME PairInv, NEW d \in Requesters, CommitSettlement(d) \/ CommitReprice(d)
  PROVE  PairInv'
<1>1. SettTypeInv'
  BY CommitTyped DEF PairInv
<1>2. PICK x \in SettIds, n \in Nat, a \in Nat, row \in SettRow :
        x = settling[d].sett /\ a = settling[d].amt /\ CommitsSett(d, x, row, n)
  BY CommitWrites DEF PairInv
<1>3. /\ setts' = [setts EXCEPT ![x] = row] /\ n <= a /\ row.amt = Stored(a)
      /\ settling' = [settling EXCEPT ![d] = None]
  BY <1>2 DEF CommitsSett, SettFinish
<1>4. row.from \in Users /\ row.to \in Users /\ row.meta \in Metas \cup {None}
  BY DEF SettRow
<1>5. /\ \A y \in SettIds \ {x} : RowsKept(y)
      /\ \/ Linked(x)' = {}
         \/ \E i, e \in RowIds : NewPair(x, row.from, row.to, n, row.meta, i, e)
  BY <1>2, <1>4, BookExcessRows DEF PairInv, SettTypeInv, CommitsSett
<1>6. setts'[x] = row /\ \A y \in SettIds \ {x} : setts'[y] = setts[y]
  BY <1>3 DEF PairInv, SettTypeInv, SettTypeOK, TablesTypeOK
<1>7. ASSUME NEW y \in SettIds PROVE MatchedRows(y)'
  <2>1. CASE y # x
    BY <1>5, <1>6, <2>1, MatchedKept DEF PairInv
  <2>2. CASE y = x
    <3>1. CASE Linked(x)' = {}
      BY <2>2, <3>1 DEF MatchedRows
    <3>2. CASE \E i, e \in RowIds : NewPair(x, row.from, row.to, n, row.meta, i, e)
      BY <1>3, <1>6, <2>2, <3>2, NewPairMatches
    <3> QED
      BY <1>5, <3>1, <3>2
  <2> QED
    BY <2>1, <2>2
<1>8. NewSetts'
  <2>1. \A c \in InFlight("insert")' :
          c \in InFlight("insert") /\ settling'[c] = settling[c] /\ c # d
    BY <1>3, InFlightKept DEF PairInv
  <2>2. ASSUME NEW c \in InFlight("insert")'
        PROVE  settling[c].sett # x /\ settling[c].sett \in SettIds
    <3>1. settling[c].sett \in SettIds
      <4>1. settling[c] \in InsertedSett
        BY <2>1, RequestFields DEF PairInv, SettTypeInv
      <4> QED
        BY <4>1 DEF InsertedSett
    <3>2. CASE CommitSettlement(d)
      <4>1. d \in InFlight("insert")
        BY <3>2 DEF CommitSettlement
      <4> QED
        BY <1>2, <2>1, <3>1, <4>1 DEF PairInv, NewSetts
    <3>3. CASE CommitReprice(d)
      <4>1. setts[x] # NoRow
        BY <1>2, <3>3 DEF CommitReprice
      <4> QED
        BY <2>1, <3>1, <4>1 DEF PairInv, NewSetts
    <3> QED
      BY <3>2, <3>3
  <2> QED
    BY <1>6, <2>1, <2>2, NewSettsKept DEF PairInv
<1>9. SeenWhole'
  <2>1. \A c \in InFlight("hide")' : c \in InFlight("hide") /\ settling'[c] = settling[c]
    BY <1>3, InFlightKept DEF PairInv
  <2>2. ASSUME NEW y, NEW c \in InFlight("hide")', settling[c].sett = y
        PROVE  Linked(y)' \subseteq Linked(y) \/ Linked(y)' \cap settling[c].seen = {}
    <3>1. c \in InFlight("hide") /\ y \in SettIds
      BY <2>1, <2>2, HiddenSettId DEF PairInv
    <3>2. CASE y # x
      BY <1>5, <3>1, <3>2 DEF RowsKept
    <3>3. CASE y = x
      <4>1. \A t \in UnusedSettRows : t \notin settling[c].seen
        BY <3>1 DEF UnusedSettRows
      <4> QED
        BY <1>5, <3>3, <4>1 DEF NewPair
    <3> QED
      BY <3>2, <3>3
  <2> QED
    BY <2>1, <2>2, SeenWholeKept DEF PairInv
<1> QED
  BY <1>1, <1>7, <1>8, <1>9 DEF PairInv

LEMMA NotesKeepPairs ==
  ASSUME PairInv, NEW d \in Requesters, CommitNotes(d)
  PROVE  PairInv'
<1> DEFINE r == settling[d]
<1>1. SettTypeInv'
  BY NotesTyped DEF PairInv
<1>2. /\ setts \in [SettIds -> SettRow \cup {NoRow}]
      /\ personal \in [RowIds -> PersonalRow \cup {NoRow}]
  BY DEF PairInv, SettTypeInv, SettTypeOK, TablesTypeOK
<1>3. r.sett \in SettIds /\ r.amt = None /\ r.meta \in Metas /\ setts[r.sett] # NoRow
  <2>1. r \in UpdateSettRequest
    BY RequestFields DEF PairInv, SettTypeInv, CommitNotes
  <2> QED
    BY <2>1 DEF UpdateSettRequest, CommitNotes
<1>4. r.meta # None
  BY <1>3, StateAssumptions
<1>5. PICK x \in SettIds, m \in Metas : x = r.sett /\ m = r.meta /\ m # None
  BY <1>3, <1>4
<1>6. PICK row \in SettRow :
        /\ setts' = [setts EXCEPT ![x] = row] /\ row.meta = m
        /\ row.from = setts[x].from /\ row.to = setts[x].to /\ row.amt = setts[x].amt
  <2>1. setts[x] \in SettRow
    BY <1>2, <1>3, <1>5
  <2>2. /\ UpdatedSett(r) \in SettRow /\ UpdatedSett(r).meta = m
        /\ UpdatedSett(r).from = setts[x].from /\ UpdatedSett(r).to = setts[x].to
        /\ UpdatedSett(r).amt = setts[x].amt
    BY <1>3, <1>5, <2>1, UpdatedSettType
  <2>3. setts' = [setts EXCEPT ![x] = UpdatedSett(r)]
    BY <1>5 DEF CommitNotes
  <2> QED
    BY <2>2, <2>3
<1>7. \A t \in RowIds : personal'[t] = IF t \in Linked(x) /\ RowLive(t)
                                       THEN [personal[t] EXCEPT !.meta = m] ELSE personal[t]
  BY <1>5 DEF CommitNotes
<1>8. ASSUME NEW t \in RowIds, t \in Linked(x), RowLive(t)
      PROVE  /\ personal'[t] # NoRow /\ personal'[t].meta = m
             /\ personal'[t].user = personal[t].user /\ personal'[t].kind = personal[t].kind
             /\ personal'[t].amt = personal[t].amt /\ personal'[t].sett = personal[t].sett
             /\ personal'[t].gt = personal[t].gt
             /\ personal'[t].deleted = personal[t].deleted
  <2>1. personal[t] \in PersonalRow
    BY <1>2, <1>8 DEF Linked
  <2>2. [personal[t] EXCEPT !.meta = m] \in PersonalRow
    BY <2>1 DEF PersonalRow
  <2>3. personal'[t] = [personal[t] EXCEPT !.meta = m] /\ personal'[t] # NoRow
    BY <1>7, <1>8, <2>2, StateAssumptions
  <2> QED
    BY <2>1, <2>3 DEF PersonalRow
<1>9. \A y : Linked(y)' = Linked(y)
  <2>1. \A t \in RowIds : /\ personal'[t] # NoRow <=> personal[t] # NoRow
                          /\ personal[t] # NoRow => personal'[t].sett = personal[t].sett
    BY <1>7, <1>8 DEF Linked
  <2> QED
    BY <2>1 DEF Linked
<1>10. ASSUME NEW y \in SettIds PROVE MatchedRows(y)'
  <2>1. CASE y # x
    <3>1. RowsKept(y)
      BY <1>7, <1>9, <2>1 DEF RowsKept, Linked
    <3>2. setts'[y] = setts[y]
      BY <1>2, <1>6, <2>1
    <3> QED
      BY <3>1, <3>2, MatchedKept DEF PairInv
  <2>2. CASE y = x
    <3>1. setts'[x] = row /\ row # NoRow
      BY <1>2, <1>6, StateAssumptions
    <3>2. CASE Linked(x) = {}
      BY <1>9, <2>2, <3>2 DEF MatchedRows
    <3>3. CASE Linked(x) # {}
      <4>0. \A t \in Linked(x)' : personal'[t].gt = None
        <5>1. \A t \in Linked(x) : t \in RowIds /\ personal[t].gt = None
          BY <3>3 DEF PairInv, MatchedRows, Linked
        <5>2. Linked(x)' = Linked(x)
          BY <1>9
        <5>3. \A t \in Linked(x) : personal'[t].gt = None
          BY <1>7, <1>8, <5>1
        <5> QED
          BY <5>2, <5>3
      <4>1. PICK i, e \in RowIds : IsPair(x, i, e)
        BY <3>3 DEF PairInv, MatchedRows
      <4>2. i \in Linked(x) /\ e \in Linked(x) /\ Linked(x)' = {i, e}
        BY <1>9, <4>1 DEF IsPair
      <4>3. CASE personal[i].deleted
        <5>1. personal'[i] = personal[i] /\ personal'[e] = personal[e]
          BY <1>7, <4>1, <4>3 DEF IsPair, RowLive
        <5>2. IsPair(x, i, e)'
          BY <1>6, <3>1, <4>1, <4>2, <4>3, <5>1 DEF IsPair
        <5> QED
          BY <2>2, <3>1, <4>0, <5>2 DEF MatchedRows
      <4>4. CASE ~personal[i].deleted
        <5>1. RowLive(i) /\ RowLive(e)
          BY <4>1, <4>2, <4>4 DEF IsPair, RowLive, Linked
        <5>2. IsPair(x, i, e)'
          BY <1>6, <1>8, <3>1, <4>1, <4>2, <5>1 DEF IsPair
        <5> QED
          BY <2>2, <3>1, <4>0, <5>2 DEF MatchedRows
      <4> QED
        BY <4>3, <4>4
    <3> QED
      BY <3>2, <3>3
  <2> QED
    BY <2>1, <2>2
<1>11. settling' = [settling EXCEPT ![d] = None]
  BY DEF CommitNotes, SettFinish
<1>12. NewSetts'
  <2>1. \A c \in InFlight("insert")' :
          c \in InFlight("insert") /\ settling'[c] = settling[c]
    BY <1>11, InFlightKept DEF PairInv
  <2>2. \A c \in InFlight("insert")' : settling[c].sett # x
    BY <1>3, <1>5, <2>1 DEF PairInv, NewSetts
  <2>3. \A y : y # x => setts'[y] = setts[y]
    BY <1>2, <1>6
  <2> QED
    BY <2>1, <2>2, <2>3, NewSettsKept DEF PairInv
<1>13. SeenWhole'
  <2>1. \A c \in InFlight("hide")' : c \in InFlight("hide") /\ settling'[c] = settling[c]
    BY <1>11, InFlightKept DEF PairInv
  <2> QED
    BY <1>9, <2>1, SeenWholeKept DEF PairInv
<1> QED
  BY <1>1, <1>10, <1>12, <1>13 DEF PairInv

LEMMA DeleteKeepsPairs ==
  ASSUME PairInv, NEW d \in Requesters, CommitSettDelete(d)
  PROVE  PairInv'
<1>1. SettTypeInv'
  BY DeleteTyped DEF PairInv
<1>2. /\ setts \in [SettIds -> SettRow \cup {NoRow}]
      /\ personal \in [RowIds -> PersonalRow \cup {NoRow}]
  BY DEF PairInv, SettTypeInv, SettTypeOK, TablesTypeOK
<1>3. d \in InFlight("hide")
  BY DEF CommitSettDelete
<1>4. PICK x \in SettIds : x = settling[d].sett
  BY <1>3, HiddenSettId DEF PairInv
<1> DEFINE seen == settling[d].seen
<1>5. \A t \in RowIds : personal'[t] = IF t \in seen \cap Linked(x)
                                       THEN [personal[t] EXCEPT !.deleted = TRUE] ELSE personal[t]
  BY <1>4 DEF CommitSettDelete, HiddenSettRow
<1>6. Linked(x) \subseteq seen \/ Linked(x) \cap seen = {}
  BY <1>3, <1>4 DEF PairInv, SeenWhole
<1>7. /\ \A y : y # x => setts'[y] = setts[y]
      /\ setts[x] = NoRow => setts'[x] = NoRow
      /\ setts[x] # NoRow => /\ setts'[x] # NoRow /\ setts'[x].from = setts[x].from
                             /\ setts'[x].to = setts[x].to /\ setts'[x].amt = setts[x].amt
                             /\ setts'[x].meta = setts[x].meta
  <2>1. CASE setts[x] = NoRow
    BY <1>4, <2>1 DEF CommitSettDelete
  <2>2. CASE setts[x] # NoRow
    <3> DEFINE row == [setts[x] EXCEPT !.deleted = TRUE]
    <3>1. setts[x] \in SettRow
      BY <1>2, <2>2
    <3>2. /\ row \in SettRow /\ row.from = setts[x].from /\ row.to = setts[x].to
          /\ row.amt = setts[x].amt /\ row.meta = setts[x].meta
      BY <3>1 DEF SettRow
    <3>3. setts' = [setts EXCEPT ![x] = row]
      BY <1>2, <1>4, <2>2 DEF CommitSettDelete
    <3> HIDE DEF row
    <3> QED
      BY <1>2, <2>2, <3>2, <3>3, StateAssumptions
  <2> QED
    BY <2>1, <2>2
<1>8. ASSUME NEW t \in RowIds, t \in seen \cap Linked(x)
      PROVE  /\ personal'[t] # NoRow /\ personal'[t].deleted = TRUE
             /\ personal'[t].user = personal[t].user /\ personal'[t].kind = personal[t].kind
             /\ personal'[t].amt = personal[t].amt /\ personal'[t].sett = personal[t].sett
             /\ personal'[t].gt = personal[t].gt
  <2>1. personal[t] \in PersonalRow
    BY <1>2, <1>8 DEF Linked
  <2>2. [personal[t] EXCEPT !.deleted = TRUE] \in PersonalRow
    BY <2>1 DEF PersonalRow
  <2>3. personal'[t] = [personal[t] EXCEPT !.deleted = TRUE] /\ personal'[t] # NoRow
    BY <1>5, <1>8, <2>2, StateAssumptions
  <2> QED
    BY <2>1, <2>3 DEF PersonalRow
<1> HIDE DEF seen
<1>9. \A y : Linked(y)' = Linked(y)
  <2>1. \A t \in RowIds : /\ personal'[t] # NoRow <=> personal[t] # NoRow
                          /\ personal[t] # NoRow => personal'[t].sett = personal[t].sett
    <3> TAKE t \in RowIds
    <3>1. CASE t \in seen \cap Linked(x)
      BY <1>8, <3>1 DEF Linked
    <3>2. CASE t \notin seen \cap Linked(x)
      BY <1>5, <3>2
    <3> QED
      BY <3>1, <3>2
  <2> QED
    BY <2>1 DEF Linked
<1>10. ASSUME NEW y \in SettIds PROVE MatchedRows(y)'
  <2>1. CASE y # x
    <3>1. RowsKept(y)
      BY <1>5, <1>9, <2>1 DEF RowsKept, Linked
    <3> QED
      BY <1>7, <2>1, <3>1, MatchedKept DEF PairInv
  <2>2. CASE y = x
    <3>1. CASE Linked(x) = {}
      BY <1>9, <2>2, <3>1 DEF MatchedRows
    <3>2. CASE Linked(x) # {}
      <4>0. \A t \in Linked(x)' : personal'[t].gt = None
        <5>1. \A t \in Linked(x) : t \in RowIds /\ personal[t].gt = None
          BY <3>2 DEF PairInv, MatchedRows, Linked
        <5>2. Linked(x)' = Linked(x)
          BY <1>9
        <5>3. \A t \in Linked(x) : personal'[t].gt = None
          BY <1>5, <1>8, <5>1
        <5> QED
          BY <5>2, <5>3
      <4>1. PICK i, e \in RowIds : IsPair(x, i, e)
        BY <3>2 DEF PairInv, MatchedRows
      <4>2. i \in Linked(x) /\ e \in Linked(x) /\ Linked(x)' = {i, e} /\ setts[x] # NoRow
        BY <1>9, <3>2, <4>1 DEF IsPair, PairInv, MatchedRows
      <4>3. CASE Linked(x) \subseteq seen
        <5>1. IsPair(x, i, e)'
          BY <1>7, <1>8, <4>1, <4>2, <4>3 DEF IsPair
        <5> QED
          BY <1>7, <2>2, <4>0, <4>2, <5>1 DEF MatchedRows
      <4>4. CASE Linked(x) \cap seen = {}
        <5>1. personal'[i] = personal[i] /\ personal'[e] = personal[e]
          BY <1>5, <4>2, <4>4
        <5>2. IsPair(x, i, e)'
          BY <1>7, <4>1, <4>2, <5>1 DEF IsPair
        <5> QED
          BY <1>7, <2>2, <4>0, <4>2, <5>2 DEF MatchedRows
      <4> QED
        BY <1>6, <4>3, <4>4
    <3> QED
      BY <3>1, <3>2
  <2> QED
    BY <2>1, <2>2
<1>11. settling' = [settling EXCEPT ![d] = None]
  BY DEF CommitSettDelete, SettFinish
<1>12. NewSetts'
  <2>1. \A c \in InFlight("insert")' :
          c \in InFlight("insert") /\ settling'[c] = settling[c]
    BY <1>11, InFlightKept DEF PairInv
  <2>2. \A c \in InFlight("insert")' : setts[settling[c].sett] = NoRow
    BY <2>1 DEF PairInv, NewSetts
  <2> QED
    BY <1>7, <2>1, <2>2, NewSettsKept DEF PairInv
<1>13. SeenWhole'
  <2>1. \A c \in InFlight("hide")' : c \in InFlight("hide") /\ settling'[c] = settling[c]
    BY <1>11, InFlightKept DEF PairInv
  <2> QED
    BY <1>9, <2>1, SeenWholeKept DEF PairInv
<1> QED
  BY <1>1, <1>10, <1>12, <1>13 DEF PairInv

\* What the deletion of a group leaves of settlements and of the rows it hides.
LEMMA ClosedTables ==
  ASSUME setts \in [SettIds -> SettRow \cup {NoRow}],
         personal \in [RowIds -> PersonalRow \cup {NoRow}],
         NEW seen, NEW rows, setts' = SettsClosed(seen), personal' = RowsClosed(rows)
  PROVE  /\ \A x \in SettIds :
              /\ setts[x] = NoRow => setts'[x] = NoRow
              /\ setts[x] # NoRow => /\ setts'[x] # NoRow /\ setts'[x].from = setts[x].from
                                     /\ setts'[x].to = setts[x].to /\ setts'[x].amt = setts[x].amt
                                     /\ setts'[x].meta = setts[x].meta
                                     /\ x \in seen => setts'[x].deleted
                                     /\ x \notin seen => setts'[x] = setts[x]
         /\ \A t \in RowIds :
              /\ personal[t] = NoRow => personal'[t] = NoRow
              /\ personal[t] # NoRow =>
                   /\ personal'[t] # NoRow /\ personal'[t].sett = personal[t].sett
                   /\ (personal'[t] = personal[t] \/ (personal'[t].deleted /\ personal[t].gt # None))
         /\ \A y : Linked(y)' = Linked(y)
<1>1. ASSUME NEW x \in SettIds, setts[x] # NoRow
      PROVE  /\ setts'[x] # NoRow /\ setts'[x].from = setts[x].from
             /\ setts'[x].to = setts[x].to /\ setts'[x].amt = setts[x].amt
             /\ setts'[x].meta = setts[x].meta
             /\ x \in seen => setts'[x].deleted
             /\ x \notin seen => setts'[x] = setts[x]
  <2>1. setts[x] \in SettRow /\ [setts[x] EXCEPT !.deleted = TRUE] \in SettRow
    BY <1>1 DEF SettRow
  <2>2. setts'[x] = IF x \in seen THEN [setts[x] EXCEPT !.deleted = TRUE] ELSE setts[x]
    BY <1>1 DEF SettsClosed
  <2>3. NoRow \notin SettRow
    BY StateAssumptions
  <2> QED
    BY <1>1, <2>1, <2>2, <2>3 DEF SettRow
<1>2. ASSUME NEW t \in RowIds, personal[t] # NoRow
      PROVE  /\ personal'[t] # NoRow /\ personal'[t].sett = personal[t].sett
             /\ (personal'[t] = personal[t] \/ (personal'[t].deleted /\ personal[t].gt # None))
  <2>1. personal[t] \in PersonalRow /\ [personal[t] EXCEPT !.deleted = TRUE] \in PersonalRow
    BY <1>2 DEF PersonalRow
  <2>2. \/ personal'[t] = personal[t]
        \/ personal'[t] = [personal[t] EXCEPT !.deleted = TRUE] /\ personal[t].gt # None
    BY <1>2 DEF RowsClosed
  <2>3. NoRow \notin PersonalRow
    BY StateAssumptions
  <2>4. CASE personal'[t] = personal[t]
    BY <1>2, <2>4
  <2>5. CASE personal'[t] = [personal[t] EXCEPT !.deleted = TRUE] /\ personal[t].gt # None
    <3>1. personal'[t].sett = personal[t].sett /\ personal'[t].deleted
      BY <2>1, <2>5 DEF PersonalRow
    <3> QED
      BY <2>1, <2>3, <2>5, <3>1
  <2> QED
    BY <2>2, <2>4, <2>5
<1>3. \A t \in RowIds : personal[t] = NoRow => personal'[t] = NoRow
  BY DEF RowsClosed
<1>4. \A x \in SettIds : setts[x] = NoRow => setts'[x] = NoRow
  BY DEF SettsClosed
<1>5. \A y : Linked(y)' = Linked(y)
  BY <1>2, <1>3 DEF Linked
<1> QED
  BY <1>1, <1>2, <1>3, <1>4, <1>5

LEMMA GroupCloseKeepsPairs ==
  ASSUME PairInv, NEW d \in Requesters, CommitDeleteGroup(d)
  PROVE  PairInv'
<1>1. SettTypeInv'
  BY DeleteGroupTyped DEF PairInv
<1>2. /\ setts \in [SettIds -> SettRow \cup {NoRow}]
      /\ personal \in [RowIds -> PersonalRow \cup {NoRow}]
  BY DEF PairInv, SettTypeInv, SettTypeOK, TablesTypeOK
<1>3. /\ \A y \in SettIds :
           /\ setts[y] = NoRow => setts'[y] = NoRow
           /\ setts[y] # NoRow => /\ setts'[y] # NoRow /\ setts'[y].from = setts[y].from
                                  /\ setts'[y].to = setts[y].to /\ setts'[y].amt = setts[y].amt
                                  /\ setts'[y].meta = setts[y].meta
      /\ \A t \in RowIds : personal[t] # NoRow /\ personal[t].gt = None => personal'[t] = personal[t]
      /\ \A y : Linked(y)' = Linked(y)
  BY <1>2, ClosedTables DEF CommitDeleteGroup
<1>4. ASSUME NEW y \in SettIds PROVE MatchedRows(y)'
  <2>1. CASE Linked(y) = {}
    BY <1>3, <2>1 DEF MatchedRows
  <2>2. CASE Linked(y) # {}
    <3>1. PICK i, e \in RowIds : IsPair(y, i, e)
      BY <2>2 DEF PairInv, MatchedRows
    <3>2. \A t \in Linked(y) : t \in RowIds /\ personal[t] # NoRow /\ personal[t].gt = None
      BY <2>2 DEF PairInv, MatchedRows, Linked
    <3>3. \A t \in Linked(y) : personal'[t] = personal[t]
      BY <1>3, <3>2
    <3>4. i \in Linked(y) /\ e \in Linked(y) /\ Linked(y)' = {i, e} /\ setts[y] # NoRow
      BY <1>3, <2>2, <3>1 DEF IsPair, PairInv, MatchedRows
    <3>5. personal'[i] = personal[i] /\ personal'[e] = personal[e]
      BY <3>3, <3>4
    <3>6. IsPair(y, i, e)'
      BY <1>3, <3>1, <3>4, <3>5 DEF IsPair
    <3>7. \A t \in Linked(y)' : personal'[t].gt = None
      BY <1>3, <3>2, <3>3
    <3> QED
      BY <1>3, <3>4, <3>6, <3>7 DEF MatchedRows
  <2> QED
    BY <2>1, <2>2
<1>5. settling' = [settling EXCEPT ![d] = None]
  BY DEF CommitDeleteGroup, SettFinish
<1>6. NewSetts'
  <2>1. \A c \in InFlight("insert")' :
          c \in InFlight("insert") /\ settling'[c] = settling[c]
    BY <1>5, InFlightKept DEF PairInv
  <2>2. ASSUME NEW c \in InFlight("insert")'
        PROVE  setts[settling[c].sett] = NoRow /\ settling[c].sett \in SettIds
    <3>1. settling[c] \in InsertedSett
      BY <2>1, RequestFields DEF PairInv, SettTypeInv
    <3> QED
      BY <2>1, <3>1 DEF PairInv, NewSetts, InsertedSett
  <2> QED
    BY <1>3, <2>1, <2>2, NewSettsKept DEF PairInv
<1>7. SeenWhole'
  <2>1. \A c \in InFlight("hide")' : c \in InFlight("hide") /\ settling'[c] = settling[c]
    BY <1>5, InFlightKept DEF PairInv
  <2> QED
    BY <1>3, <2>1, SeenWholeKept DEF PairInv
<1> QED
  BY <1>1, <1>4, <1>6, <1>7 DEF PairInv

\* A step of the purge job: requests in flight stay, and rows only go.
LEMMA PurgeKeepsRequests ==
  ASSUME PairInv, UNCHANGED settling, \A y \in SettIds : Linked(y)' \subseteq Linked(y),
         \A x \in SettIds : setts'[x] = setts[x] \/ setts'[x] = NoRow
  PROVE  NewSetts' /\ SeenWhole'
<1>1. \A op : InFlight(op)' = InFlight(op)
  BY DEF InFlight
<1>2. ASSUME NEW c \in InFlight("insert") PROVE settling[c].sett \in SettIds
  <2>1. settling[c] \in InsertedSett
    BY RequestFields DEF PairInv, SettTypeInv
  <2> QED
    BY <2>1 DEF InsertedSett
<1>3. NewSetts'
  BY <1>1, <1>2, NewSettsKept DEF PairInv
<1>4. ASSUME NEW c \in InFlight("hide") PROVE settling[c].sett \in SettIds
  BY HiddenSettId DEF PairInv
<1>5. SeenWhole'
  <2>1. ASSUME NEW y, NEW c \in InFlight("hide")', settling[c].sett = y
        PROVE  Linked(y)' \subseteq Linked(y)
    BY <1>1, <1>4, <2>1
  <2> QED
    BY <1>1, <2>1, SeenWholeKept DEF PairInv
<1> QED
  BY <1>3, <1>5

LEMMA PurgeRowsKeepPairs ==
  ASSUME PairInv, PurgeSettledRows
  PROVE  PairInv'
<1>1. SettTypeInv'
  BY SettPurgeTyped DEF PairInv
<1>2. PICK old \in SUBSET (SettIds \cup {None}) :
        personal' = [t \in RowIds |->
          IF personal[t] # NoRow /\ personal[t].gt = None /\ personal[t].sett \in old
             /\ personal[t].deleted
          THEN NoRow ELSE personal[t]]
  BY DEF PurgeSettledRows
<1>3. UNCHANGED <<setts, settling>>
  BY DEF PurgeSettledRows
<1>4. \A y \in SettIds : Linked(y)' \subseteq Linked(y)
  BY <1>2 DEF Linked
<1>5. ASSUME NEW y \in SettIds PROVE MatchedRows(y)'
  <2>1. CASE Linked(y)' = {}
    BY <2>1 DEF MatchedRows
  <2>2. CASE Linked(y)' # {}
    <3>1. PICK i, e \in RowIds : IsPair(y, i, e)
      BY <1>4, <2>2 DEF PairInv, MatchedRows
    <3>2. Linked(y) # {} /\ \A t \in Linked(y) : personal[t].gt = None
      BY <1>4, <2>2 DEF PairInv, MatchedRows
    <3>3. \A t \in Linked(y) : personal[t].sett = y /\ personal[t].deleted = personal[i].deleted
      BY <3>1 DEF IsPair, Linked
    <3>4. \A t \in RowIds : personal'[t] # NoRow => personal'[t] = personal[t]
      BY <1>2
    <3>5. PICK u \in Linked(y) : u \in Linked(y)'
      BY <1>4, <2>2
    <3>6. ~(y \in old /\ personal[i].deleted)
      BY <1>2, <3>2, <3>3, <3>5 DEF Linked
    <3>7. RowsKept(y)
      BY <1>2, <1>4, <3>3, <3>6 DEF RowsKept, Linked
    <3> QED
      BY <1>3, <3>7, MatchedKept DEF PairInv
  <2> QED
    BY <2>1, <2>2
<1> QED
  BY <1>1, <1>3, <1>4, <1>5, PurgeKeepsRequests DEF PairInv

LEMMA PurgeSettsKeepPairs ==
  ASSUME PairInv, PurgeSettlements
  PROVE  PairInv'
<1>1. SettTypeInv'
  BY SettPurgeTyped DEF PairInv
<1>2. PICK old \in SUBSET SettIds :
        /\ setts' = [x \in SettIds |-> IF x \in old THEN NoRow ELSE setts[x]]
        /\ personal' = [t \in RowIds |-> IF personal[t] # NoRow /\ personal[t].sett \in old
                                         THEN [personal[t] EXCEPT !.sett = None]
                                         ELSE personal[t]]
  BY DEF PurgeSettlements
<1>3. personal \in [RowIds -> PersonalRow \cup {NoRow}]
  BY DEF PairInv, SettTypeInv, SettTypeOK, TablesTypeOK
<1>4. ASSUME NEW t \in RowIds, personal[t] # NoRow, personal[t].sett \in old
      PROVE  personal'[t].sett = None
  <2>1. personal[t] \in PersonalRow
    BY <1>3, <1>4
  <2> QED
    BY <1>2, <1>4, <2>1 DEF PersonalRow
<1>5. None \notin SettIds
  BY StateAssumptions
<1>6. \A y \in old : Linked(y)' = {}
  BY <1>2, <1>4, <1>5 DEF Linked
<1>7. \A y \in SettIds \ old : RowsKept(y)
  BY <1>2, <1>4, <1>5 DEF Linked, RowsKept
<1>8. ASSUME NEW y \in SettIds PROVE MatchedRows(y)'
  <2>1. CASE y \in old
    BY <1>6, <2>1 DEF MatchedRows
  <2>2. CASE y \notin old
    BY <1>2, <1>7, <2>2, MatchedKept DEF PairInv
  <2> QED
    BY <2>1, <2>2
<1>9. NewSetts' /\ SeenWhole'
  <2>1. \A y \in SettIds : Linked(y)' \subseteq Linked(y)
    BY <1>6, <1>7 DEF RowsKept
  <2>2. UNCHANGED settling
    BY DEF PurgeSettlements
  <2> QED
    BY <1>2, <2>1, <2>2, PurgeKeepsRequests
<1> QED
  BY <1>1, <1>8, <1>9 DEF PairInv

LEMMA PairInit == SettInit => PairInv
<1> SUFFICES ASSUME SettInit PROVE PairInv
  OBVIOUS
<1>1. SettTypeInv
  BY SettTypeInit
<1>2. \A op : InFlight(op) = {}
  BY DEF SettInit, InFlight
<1>3. PICK o \in Opening : personal = o.personal
  BY SettAssumptions DEF SettInit
<1>4. \A t \in RowIds : personal[t] = NoRow \/ personal[t].sett = None
  BY <1>3 DEF Opening
<1>5. \A x \in SettIds : Linked(x) = {}
  BY <1>4, StateAssumptions DEF Linked
<1> QED
  BY <1>1, <1>2, <1>5 DEF PairInv, NewSetts, SeenWhole, MatchedRows

LEMMA PairStep == DirectEdits = FALSE /\ PairInv /\ [SettNext]_settVars => PairInv'
<1> SUFFICES ASSUME DirectEdits = FALSE, PairInv, [SettNext]_settVars PROVE PairInv'
  OBVIOUS
<1>1. SettTypeInv'
  BY SettTypeStep DEF PairInv
<1>2. ASSUME NEW c \in Requesters, Receives(c) PROVE PairInv'
  <2>1. PICK r \in SettRequest : r.op \in Received /\ SettReceive(c, r)
    BY <1>2, ReceivedRequest DEF PairInv
  <2> QED
    BY <1>1, <2>1, ReadKeepsPairs DEF SettReceive, Received
<1>3. ASSUME NEW c \in Requesters, InsertSettlement(c) PROVE PairInv'
  BY <1>3, InsertKeepsPairs
<1>4. ASSUME NEW c \in Requesters, CommitSettlement(c) \/ CommitReprice(c) PROVE PairInv'
  BY <1>4, CommitKeepsPairs
<1>5. ASSUME NEW c \in Requesters, RepriceSettlement(c) PROVE PairInv'
  <2>1. PICK v : /\ v.op = "reprice" /\ settling' = [settling EXCEPT ![c] = v]
                 /\ UNCHANGED <<clock, tables>>
    BY <1>5 DEF RepriceSettlement
  <2> QED
    BY <1>1, <2>1, ReadKeepsPairs
<1>6. ASSUME NEW c \in Requesters, CommitNotes(c) PROVE PairInv'
  BY <1>6, NotesKeepPairs
<1>7. ASSUME NEW c \in Requesters, HideSettRows(c) PROVE PairInv'
  BY <1>7, HideKeepsPairs
<1>8. ASSUME NEW c \in Requesters, CommitSettDelete(c) PROVE PairInv'
  BY <1>8, DeleteKeepsPairs
<1>9. ASSUME NEW c \in Requesters, SettAbort(c) PROVE PairInv'
  BY <1>1, <1>9, ReadKeepsPairs DEF SettAbort, SettFinish
<1>10. ~UpdateTransaction /\ ~DeleteTransaction
  BY DEF UpdateTransaction, DeleteTransaction
<1>11. CASE PurgeSettledRows
  BY <1>11, PurgeRowsKeepPairs
<1>12. CASE PurgeSettlements
  BY <1>12, PurgeSettsKeepPairs
<1>13. CASE UNCHANGED settVars
  <2>1. UNCHANGED <<setts, personal, settling>>
    BY <1>13 DEF settVars, tables
  <2>2. \A x \in SettIds : RowsKept(x)
    BY <2>1 DEF RowsKept, Linked
  <2>3. \A x \in SettIds : MatchedRows(x)'
    BY <2>1, <2>2, MatchedKept DEF PairInv
  <2>4. NewSetts' /\ SeenWhole'
    BY <2>1, <2>2, PurgeKeepsRequests DEF RowsKept
  <2> QED
    BY <1>1, <2>3, <2>4 DEF PairInv
<1>14. ASSUME NEW c \in Requesters, CloseSettlements(c) PROVE PairInv'
  <2>1. PICK v : /\ v.op = "close" /\ settling' = [settling EXCEPT ![c] = v]
                 /\ UNCHANGED <<clock, tables>>
    BY <1>14 DEF CloseSettlements
  <2> QED
    BY <1>1, <2>1, ReadKeepsPairs
<1>15. ASSUME NEW c \in Requesters, CommitDeleteGroup(c) PROVE PairInv'
  BY <1>15, GroupCloseKeepsPairs
<1> QED
  BY <1>2, <1>3, <1>4, <1>5, <1>6, <1>7, <1>8, <1>9, <1>10, <1>11, <1>12, <1>13, <1>14, <1>15
     DEF SettNext, Receives

\* Whatever creates, updates, deletes, aborts and purges run at once, a settlement
\* has no booked rows or two that mirror each other and it, as long as clients do
\* not change those rows through /transactions.
THEOREM PairsMatch == DirectEdits = FALSE => (SettSpec => []PairedRows)
<1> SUFFICES ASSUME DirectEdits = FALSE PROVE SettSpec => []PairedRows
  OBVIOUS
<1>1. PairInv /\ [SettNext]_settVars => PairInv'
  BY PairStep
<1>2. PairInv => PairedRows
  BY DEF PairInv, MatchedRows, PairedRows
<1> QED
  BY <1>1, <1>2, PairInit, PTL DEF SettSpec

-----------------------------------------------------------------------------
(* BalanceIsSumOfDebts: the sums of a member and of the pairs it is in.    *)

\* What u has of each group transaction, what each live settlement paid, and the live
\* group transactions.
ShareOf(u) == [g \in GtIds |-> SplitAmount(g, u)]
PaidAmounts == [x \in SettIds |-> IF SettLive(x) THEN setts[x].amt ELSE 0]
LiveGts == {g \in GtIds : GtLive(g)}

\* The sums of the model are sums over one function of all rows.
LEMMA SumsOfRows ==
  ASSUME TablesTypeOK
  PROVE  /\ \A u \in Users : \A g \in GtIds : ShareOf(u)[g] \in Nat
         /\ \A x \in SettIds : PaidAmounts[x] \in Nat
         /\ \A S \in SUBSET GtIds, u \in Users :
              Shares(S, u) = SumFunctionOnSet(ShareOf(u), S) /\ Shares(S, u) \in Nat
         /\ \A S \in SUBSET {x \in SettIds : SettLive(x)} :
              Paid(S) = SumFunctionOnSet(PaidAmounts, S) /\ Paid(S) \in Nat
         /\ \A S \in SUBSET LiveGts : Total(S) \in Nat
         /\ \A g \in GtIds : SplitSum(g) \in Nat
<1>1. \A g \in GtIds, u \in Users : SplitAmount(g, u) \in Nat
  BY DEF TablesTypeOK, SplitAmount, HasSplit, SplitRow, Amount
<1>2. \A x \in SettIds : SettLive(x) => setts[x].amt \in Nat
  BY DEF TablesTypeOK, SettLive, SettRow, Amount
<1>3. \A u \in Users : \A g \in GtIds : ShareOf(u)[g] \in Nat /\ ShareOf(u)[g] = SplitAmount(g, u)
  BY <1>1 DEF ShareOf
<1>4. \A x \in SettIds : PaidAmounts[x] \in Nat
  BY <1>2 DEF PaidAmounts
<1>5. ASSUME NEW S \in SUBSET GtIds, NEW u \in Users
      PROVE  Shares(S, u) = SumFunctionOnSet(ShareOf(u), S) /\ Shares(S, u) \in Nat
  <2> DEFINE f == [g \in S |-> SplitAmount(g, u)]
  <2>1. Shares(S, u) = SumFunctionOnSet(f, S)
    BY DEF Shares, SumFunction
  <2>2. IsFiniteSet(S)
    BY StateAssumptions, FS_Subset
  <2>3. \A g \in S : f[g] = ShareOf(u)[g] /\ f[g] \in Int /\ f[g] >= 0
    BY <1>3
  <2> HIDE DEF f
  <2>4. SumFunctionOnSet(f, S) = SumFunctionOnSet(ShareOf(u), S)
    BY <2>2, <2>3, SumSame
  <2>5. SumFunctionOnSet(f, S) \in Int /\ SumFunctionOnSet(f, S) >= 0
    BY <2>2, <2>3, SumType
  <2> QED
    BY <2>1, <2>4, <2>5
<1>6. ASSUME NEW S \in SUBSET {x \in SettIds : SettLive(x)}
      PROVE  Paid(S) = SumFunctionOnSet(PaidAmounts, S) /\ Paid(S) \in Nat
  <2> DEFINE f == [x \in S |-> setts[x].amt]
  <2>1. Paid(S) = SumFunctionOnSet(f, S)
    BY DEF Paid, SumFunction
  <2>2. IsFiniteSet(S)
    BY StateAssumptions, FS_Subset
  <2>3. \A x \in S : f[x] = PaidAmounts[x] /\ f[x] \in Int /\ f[x] >= 0
    BY <1>2 DEF PaidAmounts
  <2> HIDE DEF f
  <2>4. SumFunctionOnSet(f, S) = SumFunctionOnSet(PaidAmounts, S)
    BY <2>2, <2>3, SumSame
  <2>5. SumFunctionOnSet(f, S) \in Int /\ SumFunctionOnSet(f, S) >= 0
    BY <2>2, <2>3, SumType
  <2> QED
    BY <2>1, <2>4, <2>5
<1>7. ASSUME NEW S \in SUBSET LiveGts PROVE Total(S) \in Nat
  <2> DEFINE f == [g \in S |-> gts[g].total]
  <2>1. Total(S) = SumFunctionOnSet(f, S)
    BY DEF Total, SumFunction
  <2>2. IsFiniteSet(S)
    BY StateAssumptions, FS_Subset DEF LiveGts
  <2>3. \A g \in S : f[g] \in Int /\ f[g] >= 0
    BY DEF LiveGts, GtLive, TablesTypeOK, GtRow, Amount
  <2> HIDE DEF f
  <2> QED
    BY <2>1, <2>2, <2>3, SumType
<1>8. ASSUME NEW g \in GtIds PROVE SplitSum(g) \in Nat
  <2> DEFINE f == [u \in Users |-> SplitAmount(g, u)]
  <2>1. SplitSum(g) = SumFunctionOnSet(f, Users)
    BY DEF SplitSum, SumFunction
  <2>2. \A u \in Users : f[u] \in Int /\ f[u] >= 0
    BY <1>1
  <2> HIDE DEF f
  <2> QED
    BY <2>1, <2>2, SumType, StateAssumptions
<1> QED
  BY <1>3, <1>4, <1>5, <1>6, <1>7, <1>8

\* What the others owe v by the splits of what v paid is all of it but v's own shares.
LEMMA OwedByOthers ==
  ASSUME TablesTypeOK, NEW v \in Users, \A g \in LiveGts : SplitSum(g) = gts[g].total
  PROVE  SumFunctionOnSet([u \in Users \ {v} |-> Shares(PaidBy(v), u)], Users \ {v})
           = Total(PaidBy(v)) - Shares(PaidBy(v), v)
<1> DEFINE O == Users \ {v}
           P == PaidBy(v)
           m == [u \in O |-> ShareOf(u)]
           lhs == [u \in O |-> Shares(P, u)]
           row(g) == [u \in O |-> m[u][g]]
           col == [g \in P |-> SumFunctionOnSet(row(g), O)]
           tot == [g \in P |-> gts[g].total]
<1>1. P \subseteq LiveGts /\ P \in SUBSET GtIds /\ O \subseteq Users
  BY DEF PaidBy, LiveGts
<1>2. IsFiniteSet(O) /\ IsFiniteSet(P) /\ IsFiniteSet(Users)
  BY <1>1, StateAssumptions, FS_Subset
<1>3. \A u \in O, g \in P : m[u][g] \in Int
  BY <1>1, SumsOfRows
<1>4. \A u \in O : lhs[u] = SumFunctionOnSet(m[u], P)
  BY <1>1, SumsOfRows
<1>5. SumFunctionOnSet(lhs, O) = SumFunctionOnSet([u \in O |-> SumFunctionOnSet(m[u], P)], O)
  <2> DEFINE k == [u \in O |-> SumFunctionOnSet(m[u], P)]
  <2>1. \A u \in O : lhs[u] = k[u]
    BY <1>4
  <2> HIDE DEF lhs, k, O, P, m
  <2>2. SumFunctionOnSet(lhs, O) = SumFunctionOnSet(k, O)
    BY <1>2, <2>1, SumSame
  <2> QED
    BY <2>2 DEF k
<1>6. SumFunctionOnSet([u \in O |-> SumFunctionOnSet(m[u], P)], O)
        = SumFunctionOnSet([g \in P |-> SumFunctionOnSet([u \in O |-> m[u][g]], O)], P)
  <2> HIDE DEF O, P, m
  <2> QED
    BY <1>2, <1>3, SumSwap
<1>7. ASSUME NEW g \in P PROVE col[g] = tot[g] - ShareOf(v)[g] /\ col[g] \in Int /\ tot[g] \in Int
  <2> DEFINE s == [u \in Users |-> SplitAmount(g, u)]
  <2>1. \A u \in Users : s[u] \in Int /\ s[u] = ShareOf(u)[g]
    BY <1>1, SumsOfRows DEF ShareOf
  <2>2. SplitSum(g) = SumFunctionOnSet(s, Users)
    BY DEF SplitSum, SumFunction
  <2>3. \A u \in O : row(g)[u] = s[u] /\ row(g)[u] \in Int
    BY <1>3, <2>1
  <2>4. col[g] = SumFunctionOnSet(row(g), O)
    OBVIOUS
  <2>5. gts[g].total = SplitSum(g) /\ gts[g].total \in Int
    BY <1>1, SumsOfRows
  <2>6. SumFunctionOnSet(s, Users) = s[v] + SumFunctionOnSet(s, O)
    <3> HIDE DEF s
    <3> QED
      BY <1>2, <2>1, SumPick
  <2>7. SumFunctionOnSet(row(g), O) = SumFunctionOnSet(s, O) /\ SumFunctionOnSet(row(g), O) \in Int
    <3> HIDE DEF s, row, O
    <3> QED
      BY <1>2, <2>3, SumSame, SumType
  <2>8. s[v] = ShareOf(v)[g] /\ s[v] \in Int
    BY <2>1
  <2>9. tot[g] = gts[g].total
    OBVIOUS
  <2> HIDE DEF s, row, O, col, tot
  <2> QED
    BY <2>2, <2>4, <2>5, <2>6, <2>7, <2>8, <2>9
<1>8. SumFunctionOnSet(tot, P) = Total(P)
  BY DEF Total, SumFunction
<1>9. SumFunctionOnSet(ShareOf(v), P) = Shares(P, v)
  BY <1>1, SumsOfRows
<1>10. \A g \in P : ShareOf(v)[g] \in Int
  BY <1>1, SumsOfRows
<1>11. SumFunctionOnSet(col, P) = SumFunctionOnSet(tot, P) - SumFunctionOnSet(ShareOf(v), P)
  <2> HIDE DEF col, tot, P
  <2> QED
    BY <1>2, <1>7, <1>10, SumMinus
<1>12. SumFunctionOnSet(lhs, O) = SumFunctionOnSet(col, P)
  BY <1>5, <1>6
<1> QED
  BY <1>8, <1>9, <1>11, <1>12

\* What v owes the others by the splits is v's share of what others paid.
LEMMA OwesOthers ==
  ASSUME TablesTypeOK, NEW v \in Users
  PROVE  SumFunctionOnSet([u \in Users \ {v} |-> Shares(PaidBy(u), v)], Users \ {v})
           = Shares(LiveGts, v) - Shares(PaidBy(v), v)
<1> DEFINE O == Users \ {v}
           f == ShareOf(v)
           key == [g \in GtIds |-> gts[g].payer]
           lhs == [u \in O |-> Shares(PaidBy(u), v)]
           k == [u \in O |-> SumFunctionOnSet(f, {g \in LiveGts : key[g] = u})]
           B == {g \in LiveGts : key[g] \in O}
<1>1. LiveGts \subseteq GtIds /\ IsFiniteSet(LiveGts) /\ IsFiniteSet(O)
  BY StateAssumptions, FS_Subset DEF LiveGts
<1>2. \A g \in LiveGts : f[g] \in Int /\ key[g] \in Users
  BY <1>1, SumsOfRows DEF LiveGts, GtLive, TablesTypeOK, GtRow
<1>3. \A u \in Users : PaidBy(u) = {g \in LiveGts : key[g] = u} /\ PaidBy(u) \in SUBSET GtIds
  BY DEF PaidBy, LiveGts
<1>4. \A u \in O : lhs[u] = k[u]
  BY <1>3, SumsOfRows
<1>5. SumFunctionOnSet(lhs, O) = SumFunctionOnSet(k, O)
  <2> HIDE DEF lhs, k, O
  <2> QED
    BY <1>1, <1>4, SumSame
<1>6. SumFunctionOnSet(k, O) = SumFunctionOnSet(f, B)
  <2> HIDE DEF O, f, key
  <2> QED
    BY <1>1, <1>2, SumGrouped
<1>7. PaidBy(v) \cup B = LiveGts /\ PaidBy(v) \cap B = {}
  BY <1>2, <1>3
<1>8. IsFiniteSet(PaidBy(v)) /\ IsFiniteSet(B) /\ B \in SUBSET GtIds
  BY <1>1, <1>7, FS_Subset
<1>9. SumFunctionOnSet(f, LiveGts) = SumFunctionOnSet(f, PaidBy(v)) + SumFunctionOnSet(f, B)
  <2> HIDE DEF B, f
  <2> QED
    BY <1>2, <1>7, <1>8, SumUnion
<1>10. /\ SumFunctionOnSet(f, LiveGts) = Shares(LiveGts, v) /\ Shares(LiveGts, v) \in Nat
       /\ SumFunctionOnSet(f, PaidBy(v)) = Shares(PaidBy(v), v) /\ Shares(PaidBy(v), v) \in Nat
       /\ SumFunctionOnSet(f, B) \in Nat
  BY <1>1, <1>3, <1>8, SumsOfRows
<1> HIDE DEF B, f, k, lhs
<1>11. SumFunctionOnSet(lhs, O) = Shares(LiveGts, v) - Shares(PaidBy(v), v)
  BY <1>5, <1>6, <1>9, <1>10
<1> QED
  BY <1>11 DEF lhs

\* Settlements: by and to the others is by and to anyone, but for those with oneself.
LEMMA SettledWithOthers ==
  ASSUME TablesTypeOK, NEW v \in Users
  PROVE  SumFunctionOnSet([u \in Users \ {v} |-> Paid(Settled(v, u))], Users \ {v})
             - SumFunctionOnSet([u \in Users \ {v} |-> Paid(Settled(u, v))], Users \ {v})
           = Paid({x \in SettIds : SettLive(x) /\ setts[x].from = v})
               - Paid({x \in SettIds : SettLive(x) /\ setts[x].to = v})
<1> DEFINE O == Users \ {v}
           L == {x \in SettIds : SettLive(x)}
           f == PaidAmounts
           from == {x \in L : setts[x].from = v}
           to == {x \in L : setts[x].to = v}
           own == from \cap to
           byKey == [x \in SettIds |-> setts[x].to]
           toKey == [x \in SettIds |-> setts[x].from]
           by == [u \in O |-> Paid(Settled(v, u))]
           recv == [u \in O |-> Paid(Settled(u, v))]
           byK == [u \in O |-> SumFunctionOnSet(f, {x \in from : byKey[x] = u})]
           toK == [u \in O |-> SumFunctionOnSet(f, {x \in to : toKey[x] = u})]
           byO == {x \in from : byKey[x] \in O}
           toO == {x \in to : toKey[x] \in O}
<1>1. /\ from \subseteq L /\ to \subseteq L /\ L \subseteq SettIds
      /\ IsFiniteSet(L) /\ IsFiniteSet(O)
  BY StateAssumptions, FS_Subset
<1>2. IsFiniteSet(from) /\ IsFiniteSet(to) /\ IsFiniteSet(byO) /\ IsFiniteSet(toO) /\ IsFiniteSet(own)
  <2>1. IsFiniteSet(from) /\ IsFiniteSet(to)
    <3> HIDE DEF from, to
    <3> QED
      BY <1>1, FS_Subset
  <2>2. byO \subseteq from /\ toO \subseteq to /\ own \subseteq to
    OBVIOUS
  <2> HIDE DEF from, to, byO, toO, own
  <2> QED
    BY <2>1, <2>2, FS_Subset
<1>3. \A x \in SettIds : f[x] \in Int
  BY SumsOfRows
<1>4. \A x \in L : setts[x].from \in Users /\ setts[x].to \in Users
  BY DEF SettLive, TablesTypeOK, SettRow
<1>5. \A u \in O : /\ Settled(v, u) = {x \in from : byKey[x] = u}
                   /\ Settled(u, v) = {x \in to : toKey[x] = u}
  BY DEF Settled
<1>6. \A u \in O : by[u] = byK[u] /\ recv[u] = toK[u]
  <2> SUFFICES ASSUME NEW u \in O PROVE by[u] = byK[u] /\ recv[u] = toK[u]
    OBVIOUS
  <2>1. {x \in from : byKey[x] = u} \in SUBSET L /\ {x \in to : toKey[x] = u} \in SUBSET L
    BY <1>1
  <2>2. /\ Paid({x \in from : byKey[x] = u}) = SumFunctionOnSet(f, {x \in from : byKey[x] = u})
        /\ Paid({x \in to : toKey[x] = u}) = SumFunctionOnSet(f, {x \in to : toKey[x] = u})
    BY <2>1, SumsOfRows
  <2> QED
    BY <1>5, <2>2
<1>7. SumFunctionOnSet(by, O) = SumFunctionOnSet(f, byO)
  <2>1. SumFunctionOnSet(by, O) = SumFunctionOnSet(byK, O)
    <3> HIDE DEF by, byK, O
    <3> QED
      BY <1>1, <1>6, SumSame
  <2>2. SumFunctionOnSet(byK, O) = SumFunctionOnSet(f, byO)
    <3> HIDE DEF from, f, byKey, O
    <3>1. \A x \in from : f[x] \in Int
      BY <1>1, <1>3
    <3> QED
      BY <1>1, <1>2, <3>1, SumGrouped
  <2> QED
    BY <2>1, <2>2
<1>8. SumFunctionOnSet(recv, O) = SumFunctionOnSet(f, toO)
  <2>1. SumFunctionOnSet(recv, O) = SumFunctionOnSet(toK, O)
    <3> HIDE DEF recv, toK, O
    <3> QED
      BY <1>1, <1>6, SumSame
  <2>2. SumFunctionOnSet(toK, O) = SumFunctionOnSet(f, toO)
    <3> HIDE DEF to, f, toKey, O
    <3>1. \A x \in to : f[x] \in Int
      BY <1>1, <1>3
    <3> QED
      BY <1>1, <1>2, <3>1, SumGrouped
  <2> QED
    BY <2>1, <2>2
<1>9. /\ from = byO \cup own /\ byO \cap own = {}
      /\ to = toO \cup own /\ toO \cap own = {}
  BY <1>4
<1>10. /\ Paid(from) = SumFunctionOnSet(f, from) /\ Paid(to) = SumFunctionOnSet(f, to)
  BY <1>1, SumsOfRows
<1>11. \A x \in from \cup to : f[x] \in Int
  BY <1>1, <1>3
<1>12. /\ SumFunctionOnSet(f, from) = SumFunctionOnSet(f, byO) + SumFunctionOnSet(f, own)
       /\ SumFunctionOnSet(f, to) = SumFunctionOnSet(f, toO) + SumFunctionOnSet(f, own)
  <2> HIDE DEF from, to, byO, toO, own, f
  <2> QED
    BY <1>2, <1>9, <1>11, SumUnion
<1>13. /\ SumFunctionOnSet(f, byO) \in Int /\ SumFunctionOnSet(f, toO) \in Int
       /\ SumFunctionOnSet(f, own) \in Int
  <2>1. \A x \in byO \cup toO \cup own : f[x] \in Int
    BY <1>11
  <2> HIDE DEF byO, toO, own, f
  <2> QED
    BY <1>2, <2>1, SumType
<1>14. /\ {x \in SettIds : SettLive(x) /\ setts[x].from = v} = from
       /\ {x \in SettIds : SettLive(x) /\ setts[x].to = v} = to
  OBVIOUS
<1> HIDE DEF from, to, byO, toO, own, f, by, recv
<1>15. SumFunctionOnSet(by, O) - SumFunctionOnSet(recv, O) = Paid(from) - Paid(to)
  BY <1>7, <1>8, <1>10, <1>12, <1>13
<1> QED
  BY <1>14, <1>15 DEF by, recv

\* The two ways to a balance agree in any state of the right types.
LEMMA BalanceOfTypes == TablesTypeOK => BalanceIsSumOfDebts
<1> SUFFICES ASSUME TablesTypeOK, \A g \in GtIds : GtLive(g) => SplitSum(g) = gts[g].total,
                    NEW v \in Users
             PROVE  Balance(v) = SumFunction([u \in Users \ {v} |-> PairwiseDebt(u, v, None)])
  BY DEF BalanceIsSumOfDebts
<1> DEFINE O == Users \ {v}
           debt == [u \in O |-> PairwiseDebt(u, v, None)]
           a == [u \in O |-> Shares(PaidBy(v), u)]
           b == [u \in O |-> Shares(PaidBy(u), v)]
           c == [u \in O |-> Paid(Settled(u, v))]
           d == [u \in O |-> Paid(Settled(v, u))]
           ab == [u \in O |-> a[u] - b[u]]
           cd == [u \in O |-> d[u] - c[u]]
<1>1. IsFiniteSet(O)
  BY StateAssumptions, FS_Subset
<1>2. \A u \in Users : /\ PaidBy(u) \in SUBSET GtIds
                       /\ Settled(u, v) \in SUBSET {x \in SettIds : SettLive(x)}
                       /\ Settled(v, u) \in SUBSET {x \in SettIds : SettLive(x)}
  BY DEF PaidBy, Settled
<1>3. \A u \in O : a[u] \in Int /\ b[u] \in Int /\ c[u] \in Int /\ d[u] \in Int
  BY <1>2, SumsOfRows
<1>4. \A u \in O : debt[u] = ab[u] + cd[u] /\ ab[u] = a[u] - b[u] /\ cd[u] = d[u] - c[u]
                   /\ ab[u] \in Int /\ cd[u] \in Int
  <2> SUFFICES ASSUME NEW u \in O PROVE debt[u] = ab[u] + cd[u] /\ ab[u] \in Int /\ cd[u] \in Int
    OBVIOUS
  <2>1. Settled(u, v) \ {None} = Settled(u, v) /\ Settled(v, u) \ {None} = Settled(v, u)
    BY StateAssumptions DEF Settled
  <2>2. debt[u] = a[u] - b[u] - c[u] + d[u]
    BY <2>1 DEF PairwiseDebt
  <2> QED
    BY <1>3, <2>2
<1>5. \A g \in LiveGts : SplitSum(g) = gts[g].total
  BY DEF LiveGts
<1>6. SumFunctionOnSet(a, O) = Total(PaidBy(v)) - Shares(PaidBy(v), v)
  BY <1>5, OwedByOthers
<1>7. SumFunctionOnSet(b, O) = Shares(LiveGts, v) - Shares(PaidBy(v), v)
  BY OwesOthers
<1>8. SumFunctionOnSet(d, O) - SumFunctionOnSet(c, O)
        = Paid({x \in SettIds : SettLive(x) /\ setts[x].from = v})
            - Paid({x \in SettIds : SettLive(x) /\ setts[x].to = v})
  BY SettledWithOthers
<1>9. Balance(v) = Total(PaidBy(v)) - Shares(LiveGts, v)
        + Paid({x \in SettIds : SettLive(x) /\ setts[x].from = v})
        - Paid({x \in SettIds : SettLive(x) /\ setts[x].to = v})
  BY DEF Balance, LiveGts
<1>10. /\ Total(PaidBy(v)) \in Nat /\ Shares(PaidBy(v), v) \in Nat /\ Shares(LiveGts, v) \in Nat
       /\ Paid({x \in SettIds : SettLive(x) /\ setts[x].from = v}) \in Nat
       /\ Paid({x \in SettIds : SettLive(x) /\ setts[x].to = v}) \in Nat
  <2>1. PaidBy(v) \in SUBSET LiveGts /\ LiveGts \in SUBSET GtIds
    BY DEF PaidBy, LiveGts
  <2>2. /\ {x \in SettIds : SettLive(x) /\ setts[x].from = v} \in SUBSET {x \in SettIds : SettLive(x)}
        /\ {x \in SettIds : SettLive(x) /\ setts[x].to = v} \in SUBSET {x \in SettIds : SettLive(x)}
    OBVIOUS
  <2> QED
    BY <1>2, <2>1, <2>2, SumsOfRows
<1>11. SumFunction(debt) = SumFunctionOnSet(debt, O)
  BY DEF SumFunction
<1> HIDE DEF debt, a, b, c, d, ab, cd, O
<1>12. SumFunctionOnSet(debt, O) = SumFunctionOnSet(ab, O) + SumFunctionOnSet(cd, O)
  BY <1>1, <1>4, SumPlus
<1>13. SumFunctionOnSet(ab, O) = SumFunctionOnSet(a, O) - SumFunctionOnSet(b, O)
  BY <1>1, <1>3, <1>4, SumMinus
<1>14. SumFunctionOnSet(cd, O) = SumFunctionOnSet(d, O) - SumFunctionOnSet(c, O)
  BY <1>1, <1>3, <1>4, SumMinus
<1>15. Balance(v) = SumFunction(debt)
  BY <1>6, <1>7, <1>8, <1>9, <1>10, <1>11, <1>12, <1>13, <1>14
<1> QED
  BY <1>15 DEF debt, O

\* getUserGroupBalance, which decides whether a member may leave, and pairwiseDebt,
\* which decides what a settlement books, never disagree, for any number of users,
\* group transactions and settlements whose splits add up.
THEOREM BalancesAgree == SettSpec => []BalanceIsSumOfDebts
<1>1. SettTypeInv => BalanceIsSumOfDebts
  BY BalanceOfTypes DEF SettTypeInv, SettTypeOK
<1> QED
  BY <1>1, SettTypeInit, SettTypeStep, PTL DEF SettSpec

-----------------------------------------------------------------------------
(* OnlyRepriceRevives: what shows a row of a deleted settlement.           *)

\* Settlement x and its rows show no more than they did.
NoneShown(x) ==
  /\ setts'[x] # NoRow /\ setts'[x].deleted => setts[x] # NoRow /\ setts[x].deleted
  /\ \A t \in Linked(x)' : RowLive(t)' => t \in Linked(x) /\ RowLive(t)

\* Such a step shows no row of deleted settlement x that was not shown before.
LEMMA NoneShownStays ==
  ASSUME NEW x, NoneShown(x), DeletedSettShown(x)'
  PROVE  DeletedSettShown(x)
BY DEF NoneShown, DeletedSettShown

\* Booking an excess touches no other settlement's rows.
LEMMA BookedElsewhere ==
  ASSUME SettTypeOK, NEW x \in SettIds, NEW y \in SettIds \ {x}, NEW row,
         setts' = [setts EXCEPT ![x] = row],
         NEW from, NEW to, NEW n, NEW m, BookExcess(x, from, to, n, m)
  PROVE  NoneShown(y)
<1> DEFINE kept == [t \in RowIds |-> IF t \in Linked(x) THEN NoRow ELSE personal[t]]
<1>1. setts'[y] = setts[y]
  BY DEF SettTypeOK, TablesTypeOK
<1>2. ASSUME NEW t \in Linked(y)' PROVE personal'[t] = personal[t] /\ t \in Linked(y)
  <2>1. t \in RowIds /\ personal'[t] # NoRow /\ personal'[t].sett = y
    BY DEF Linked
  <2>2. kept[t] # NoRow /\ kept[t].sett = y => kept[t] = personal[t] /\ t \in Linked(y)
    BY <2>1 DEF Linked
  <2>3. CASE personal' = kept
    BY <2>1, <2>2, <2>3
  <2>4. ASSUME NEW i \in UnusedSettRows, NEW e \in UnusedSettRows,
               personal' = [kept EXCEPT ![i] = SettIncome(x, to, n, m),
                                        ![e] = SettExpense(x, from, n, m)]
        PROVE  personal'[t] = kept[t]
    <3> DEFINE inc == SettIncome(x, to, n, m)
               exp == SettExpense(x, from, n, m)
    <3>1. inc.sett = x /\ exp.sett = x
      BY DEF SettIncome, SettExpense
    <3>2. personal' = [kept EXCEPT ![i] = inc, ![e] = exp]
      BY <2>4
    <3> HIDE DEF inc, exp
    <3>3. personal'[t] \in {inc, exp, kept[t]}
      BY <2>1, <3>2
    <3> QED
      BY <2>1, <3>1, <3>3
  <2>5. personal' = kept \/ personal'[t] = kept[t]
    BY <2>4 DEF BookExcess
  <2> QED
    BY <2>1, <2>2, <2>5
<1> QED
  BY <1>1, <1>2 DEF NoneShown, RowLive

\* What may show a row of deleted settlement x.
MayRevive(x) ==
  \E c \in Requesters :
    /\ settling[c] # None /\ settling'[c] = None
    /\ \/ settling[c].op = "reprice" /\ settling[c].sett = x
       \/ /\ settling[c].op = "hide" /\ settling[c].sett = x
          /\ Linked(x) \ settling[c].seen # {}
       \/ settling[c].op = "close" /\ x \in settling[c].seen

\* A commit that books an excess only shows rows of its own settlement: an update of the
\* amount, since a create stores a settlement that is not deleted.
LEMMA CommitRevives ==
  ASSUME SettTypeInv, NEW c \in Requesters, CommitSettlement(c) \/ CommitReprice(c),
         NEW x \in SettIds, DeletedSettShown(x)'
  PROVE  DeletedSettShown(x) \/ MayRevive(x)
<1> DEFINE r == settling[c]
<1>1. PICK row \in SettRow : CommitsSett(c, r.sett, row, r.excess) /\ r.sett \in SettIds
  BY CommitWrites
<1>2. SettTypeOK /\ setts \in [SettIds -> SettRow \cup {NoRow}]
      /\ settling \in [Requesters -> SettRequest \cup {None}]
  BY DEF SettTypeInv, SettTypeOK, TablesTypeOK
<1>3. CASE x # r.sett
  <2>1. NoneShown(x)
    BY <1>1, <1>2, <1>3, BookedElsewhere DEF CommitsSett
  <2> QED
    BY <2>1, NoneShownStays
<1>4. CASE x = r.sett /\ CommitSettlement(c)
  <2>1. ~setts'[x].deleted
    BY <1>2, <1>4 DEF CommitSettlement
  <2> QED
    BY <2>1 DEF DeletedSettShown
<1>5. CASE x = r.sett /\ CommitReprice(c)
  <2>1. c \in InFlight("reprice") /\ settling'[c] = None
    BY <1>2, <1>5 DEF CommitReprice, SettFinish
  <2> QED
    BY <1>5, <2>1 DEF MayRevive, InFlight
<1> QED
  BY <1>3, <1>4, <1>5

\* A delete leaves shown only the rows that its first statement did not see.
LEMMA HideRevives ==
  ASSUME SettTypeInv, NEW c \in Requesters, CommitSettDelete(c),
         NEW x \in SettIds, DeletedSettShown(x)'
  PROVE  DeletedSettShown(x) \/ MayRevive(x)
<1> DEFINE r == settling[c]
<1>1. SettTypeOK /\ personal \in [RowIds -> PersonalRow \cup {NoRow}] /\ NoRow \notin PersonalRow
      /\ setts \in [SettIds -> SettRow \cup {NoRow}]
      /\ settling \in [Requesters -> SettRequest \cup {None}]
  BY StateAssumptions DEF SettTypeInv, SettTypeOK, TablesTypeOK
<1>2. c \in InFlight("hide") /\ r \in HiddenSett /\ settling'[c] = None
  BY <1>1, RequestFields DEF CommitSettDelete, SettFinish
<1>3. \A t \in RowIds : personal'[t] = HiddenSettRow(r, t)
  BY DEF CommitSettDelete
<1>4. \A t \in RowIds : personal'[t] # NoRow =>
        /\ personal[t] # NoRow /\ personal'[t].sett = personal[t].sett
        /\ t \in r.seen \cap Linked(r.sett) => personal'[t].deleted
        /\ t \notin r.seen \cap Linked(r.sett) => personal'[t] = personal[t]
  BY <1>1, <1>3 DEF HiddenSettRow, PersonalRow, Linked
<1>5. PICK t \in Linked(x)' : RowLive(t)'
  BY DEF DeletedSettShown
<1>6. t \in Linked(x) /\ RowLive(t) /\ t \notin r.seen \cap Linked(r.sett)
  BY <1>4, <1>5 DEF Linked, RowLive
<1>7. CASE x = r.sett
  BY <1>2, <1>6, <1>7 DEF MayRevive, InFlight
<1>8. CASE x # r.sett
  <2>1. setts'[x] = setts[x]
    BY <1>1, <1>8 DEF CommitSettDelete
  <2> QED
    BY <1>6, <2>1 DEF DeletedSettShown
<1> QED
  BY <1>7, <1>8

\* The deletion of the group shows rows of the settlements it deletes only.
LEMMA CloseRevives ==
  ASSUME SettTypeInv, NEW c \in Requesters, CommitDeleteGroup(c),
         NEW x \in SettIds, DeletedSettShown(x)'
  PROVE  DeletedSettShown(x) \/ MayRevive(x)
<1>1. /\ personal \in [RowIds -> PersonalRow \cup {NoRow}]
      /\ setts \in [SettIds -> SettRow \cup {NoRow}]
      /\ settling \in [Requesters -> SettRequest \cup {None}]
  BY DEF SettTypeInv, SettTypeOK, TablesTypeOK
<1>2. c \in InFlight("close") /\ settling'[c] = None
  BY <1>1 DEF CommitDeleteGroup, SettFinish
<1>3. CASE x \in settling[c].seen
  BY <1>2, <1>3 DEF MayRevive, InFlight
<1>4. CASE x \notin settling[c].seen
  <2>1. setts'[x] = setts[x] /\ Linked(x)' = Linked(x)
    <3>1. /\ setts[x] = NoRow => setts'[x] = NoRow
          /\ setts[x] # NoRow => setts'[x] = setts[x]
      BY <1>1, <1>4, ClosedTables DEF CommitDeleteGroup
    <3>2. Linked(x)' = Linked(x)
      BY <1>1, ClosedTables DEF CommitDeleteGroup
    <3> QED
      BY <3>1, <3>2
  <2>2. PICK t \in Linked(x)' : RowLive(t)'
    BY DEF DeletedSettShown
  <2>3. \A p \in RowIds : personal'[p] # NoRow =>
          personal[p] # NoRow /\ (personal'[p] = personal[p] \/ personal'[p].deleted)
    BY <1>1, ClosedTables DEF CommitDeleteGroup
  <2>4. t \in Linked(x) /\ RowLive(t)
    BY <2>1, <2>2, <2>3 DEF RowLive, Linked
  <2> QED
    BY <2>1, <2>4 DEF DeletedSettShown
<1> QED
  BY <1>3, <1>4

\* Plain edits, updates of the notes and the purge show no row of a deleted settlement.
LEMMA EditsRevive ==
  ASSUME SettTypeInv, NEW x \in SettIds,
         \/ \E c \in Requesters : CommitNotes(c)
         \/ UpdateTransaction \/ DeleteTransaction \/ PurgeSettledRows \/ PurgeSettlements
         \/ UNCHANGED <<setts, personal>>
  PROVE  NoneShown(x)
<1>1. SettTypeOK /\ personal \in [RowIds -> PersonalRow \cup {NoRow}] /\ NoRow \notin PersonalRow
      /\ setts \in [SettIds -> SettRow \cup {NoRow}] /\ NoRow \notin SettRow /\ None \notin SettIds
  BY StateAssumptions DEF SettTypeInv, SettTypeOK, TablesTypeOK
<1>2. ASSUME NEW c \in Requesters, CommitNotes(c) PROVE NoneShown(x)
  <2> DEFINE r == settling[c]
  <2>1. /\ setts[r.sett] # NoRow /\ setts' = [setts EXCEPT ![r.sett] = UpdatedSett(r)]
        /\ \A t \in RowIds : personal'[t] = IF t \in Linked(r.sett) /\ RowLive(t)
                                            THEN [personal[t] EXCEPT !.meta = r.meta]
                                            ELSE personal[t]
    BY <1>2 DEF CommitNotes
  <2>2. x = r.sett => UpdatedSett(r).deleted = setts[x].deleted
    BY <1>1, <2>1 DEF UpdatedSett, SettRow
  <2>3. \A t \in RowIds : personal'[t] # NoRow =>
          /\ personal[t] # NoRow /\ personal'[t].sett = personal[t].sett
          /\ personal'[t].deleted = personal[t].deleted
    BY <1>1, <2>1 DEF PersonalRow, RowLive
  <2> QED
    BY <1>1, <2>1, <2>2, <2>3 DEF NoneShown, Linked, RowLive
<1>3. CASE UpdateTransaction
  <2>1. setts' = setts /\ \A t \in RowIds : personal'[t] # NoRow =>
          /\ personal[t] # NoRow /\ personal'[t].sett = personal[t].sett
          /\ personal'[t].deleted = personal[t].deleted
    BY <1>1, <1>3 DEF UpdateTransaction, PersonalRow, RowLive
  <2> QED
    BY <2>1 DEF NoneShown, Linked, RowLive
<1>4. CASE DeleteTransaction \/ PurgeSettledRows
  <2>1. setts' = setts /\ \A t \in RowIds : personal'[t] \in {NoRow, personal[t]}
    BY <1>1, <1>4 DEF DeleteTransaction, PurgeSettledRows
  <2> QED
    BY <2>1 DEF NoneShown, Linked, RowLive
<1>5. CASE PurgeSettlements
  <2>1. setts'[x] \in {NoRow, setts[x]}
    BY <1>5 DEF PurgeSettlements
  <2>2. \A t \in RowIds : \/ personal'[t] = personal[t]
                          \/ personal[t] # NoRow /\ personal'[t] = [personal[t] EXCEPT !.sett = None]
    BY <1>5 DEF PurgeSettlements
  <2>3. \A t \in RowIds : personal'[t] # NoRow /\ personal'[t].sett = x => personal'[t] = personal[t]
    BY <1>1, <2>2 DEF PersonalRow
  <2> QED
    BY <2>1, <2>3 DEF NoneShown, Linked, RowLive
<1>6. CASE UNCHANGED <<setts, personal>>
  BY <1>6 DEF NoneShown, Linked, RowLive
<1> QED
  BY <1>2, <1>3, <1>4, <1>5, <1>6

\* A row of a deleted settlement shows in a dashboard only by the two known races or by the
\* deletion of the group that takes the settlement with it, for any number of requests in
\* flight, with or without plain edits and the purge.
THEOREM RepriceRevives == SettSpec => OnlyRepriceRevives
<1> DEFINE Kept == \A x \in SettIds : ~DeletedSettShown(x) /\ DeletedSettShown(x)' => MayRevive(x)
<1>1. ASSUME SettTypeInv, SettNext PROVE Kept
  <2> SUFFICES ASSUME NEW x \in SettIds, ~DeletedSettShown(x), DeletedSettShown(x)'
               PROVE  MayRevive(x)
    OBVIOUS
  <2>1. ASSUME NEW c \in Requesters, CommitSettlement(c) \/ CommitReprice(c) PROVE MayRevive(x)
    BY <1>1, <2>1, CommitRevives
  <2>2. ASSUME NEW c \in Requesters, CommitSettDelete(c) PROVE MayRevive(x)
    BY <1>1, <2>2, HideRevives
  <2>3. ASSUME NoneShown(x) PROVE MayRevive(x)
    BY <2>3, NoneShownStays
  <2>4. ASSUME NEW c \in Requesters,
               \/ Receives(c) \/ CloseSettlements(c)
               \/ InsertSettlement(c) \/ RepriceSettlement(c) \/ HideSettRows(c) \/ SettAbort(c)
        PROVE  UNCHANGED <<setts, personal>>
    BY <2>4 DEF Receives, ReceiveSettlement, ReceiveSettUpdate, ReceiveSettDelete, SettReceive,
                ReceiveClose, CloseSettlements,
                HideSettRows, SettAbort, InsertSettlement, RepriceSettlement, tables
  <2>5. ASSUME NEW c \in Requesters, CommitDeleteGroup(c) PROVE MayRevive(x)
    BY <1>1, <2>5, CloseRevives
  <2> QED
    BY <1>1, <2>1, <2>2, <2>3, <2>4, <2>5, EditsRevive DEF SettNext, Receives
<1>2. SettTypeInv /\ [SettNext]_settVars => [Kept]_settVars
  BY <1>1
<1>3. SettSpec => [][Kept]_settVars
  BY <1>2, SettTypeInit, SettTypeStep, PTL DEF SettSpec
<1> QED
  BY <1>3 DEF OnlyRepriceRevives, MayRevive

-----------------------------------------------------------------------------
(* The excess over a debt in whole cents.                                  *)

\* The excess over a debt in whole cents is rounded as the payment is.
LEMMA StoredExcess ==
  ASSUME NEW d \in Int, WholeCents(d), NEW a \in Nat
  PROVE  Stored(Excess(d, a)) = Excess(d, Stored(a))
<1>1. Stored(a) \in Nat
  BY StoredNat
<1>2. CASE d \in 0 .. a
  <2>1. Stored(d) = d /\ Stored(d) <= Stored(a) /\ Stored(a - d) = Stored(a) - d
    BY <1>2, StoredKeepsWhole, StoredShift, StoredMonotone
  <2> QED
    BY <1>1, <1>2, <2>1 DEF Excess
<1>3. CASE d < 0
  BY <1>1, <1>3 DEF Excess
<1>4. CASE d > a
  <2>1. Stored(d) = d /\ Stored(0) = 0 /\ Stored(a) <= Stored(d)
    BY <1>4, StoredKeepsWhole, StoredMonotone
  <2> QED
    BY <1>1, <1>4, <2>1 DEF Excess
<1> QED
  BY <1>2, <1>3, <1>4

-----------------------------------------------------------------------------
(* The debt a request has read.                                            *)

\* Splits and settlements are in whole cents.
WholeTables ==
  /\ \A g \in GtIds, u \in Users : WholeCents(SplitAmount(g, u))
  /\ \A x \in SettIds : setts[x] # NoRow => WholeCents(setts[x].amt)

\* The excess a request is about to book is the one of the tables as they are.
ReadsDebt(c) ==
  /\ c \in InFlight("insert") =>
       /\ setts[settling[c].sett] = NoRow
       /\ settling[c].excess = Excess(CreateDebt(settling[c]), settling[c].amt)
  /\ c \in InFlight("reprice") =>
       settling[c].excess = Excess(RepriceDebt(settling[c]), settling[c].amt)

\* A deletion of the group has seen every settlement there is.
ClosesAll(c) ==
  c \in InFlight("close") => \A x \in SettIds : setts[x] # NoRow => x \in settling[c].seen

\* What a request has computed when it read the debt is still right when it commits.
DebtInv ==
  SettTypeInv /\ WholeTables /\ \A c \in Requesters : ReadsDebt(c) /\ ClosesAll(c)

\* Requests do not overlap.
OneAtATime == \A c, d \in Requesters : c = d

\* The opening ledger is one the tables can hold.
WholeOpenings ==
  \A o \in Openings, g \in GtIds, u \in Users :
    o.splits[g][u] # NoRow => WholeCents(o.splits[g][u].amt)

\* A debt is an integer, in whole cents if the tables are.
LEMMA DebtWhole ==
  ASSUME TablesTypeOK, WholeTables, NEW u \in Users, NEW v \in Users, NEW e
  PROVE  PairwiseDebt(u, v, e) \in Int /\ WholeCents(PairwiseDebt(u, v, e))
<1> DEFINE A == Shares(PaidBy(v), u)
           B == Shares(PaidBy(u), v)
           C == Paid(Settled(u, v) \ {e})
           D == Paid(Settled(v, u) \ {e})
<1>1. ASSUME NEW w \in Users, NEW S \in SUBSET GtIds
      PROVE  Shares(S, w) \in Int /\ WholeCents(Shares(S, w))
  <2>1. Shares(S, w) = SumFunctionOnSet(ShareOf(w), S) /\ Shares(S, w) \in Int
    BY SumsOfRows
  <2>2. \A g \in S : ShareOf(w)[g] \in Int /\ WholeCents(ShareOf(w)[g])
    BY SumsOfRows DEF ShareOf, WholeTables
  <2>3. IsFiniteSet(S)
    BY StateAssumptions, FS_Subset
  <2> QED
    BY <2>1, <2>2, <2>3, WholeSums
<1>2. ASSUME NEW S \in SUBSET {x \in SettIds : SettLive(x)} PROVE Paid(S) \in Int /\ WholeCents(Paid(S))
  <2>1. Paid(S) = SumFunctionOnSet(PaidAmounts, S) /\ Paid(S) \in Int
    BY SumsOfRows
  <2>2. \A x \in S : PaidAmounts[x] \in Int /\ WholeCents(PaidAmounts[x])
    BY SumsOfRows DEF PaidAmounts, WholeTables, SettLive
  <2>3. IsFiniteSet(S)
    BY StateAssumptions, FS_Subset
  <2> QED
    BY <2>1, <2>2, <2>3, WholeSums
<1>3. /\ A \in Int /\ WholeCents(A) /\ B \in Int /\ WholeCents(B)
      /\ C \in Int /\ WholeCents(C) /\ D \in Int /\ WholeCents(D)
  <2>1. PaidBy(u) \in SUBSET GtIds /\ PaidBy(v) \in SUBSET GtIds
    BY DEF PaidBy
  <2>2. /\ Settled(u, v) \ {e} \in SUBSET {x \in SettIds : SettLive(x)}
        /\ Settled(v, u) \ {e} \in SUBSET {x \in SettIds : SettLive(x)}
    BY DEF Settled
  <2> QED
    BY <1>1, <1>2, <2>1, <2>2
<1>4. PairwiseDebt(u, v, e) = ((A - B) - C) + D
  BY DEF PairwiseDebt
<1> HIDE DEF A, B, C, D
<1>5. A - B \in Int /\ WholeCents(A - B)
  BY <1>3, WholeSum
<1>6. (A - B) - C \in Int /\ WholeCents((A - B) - C)
  BY <1>3, <1>5, WholeSum
<1>7. ((A - B) - C) + D \in Int /\ WholeCents(((A - B) - C) + D)
  BY <1>3, <1>6, WholeSum
<1> QED
  BY <1>4, <1>7

\* Debts depend on the live rows only.
LEMMA SameDebt ==
  ASSUME UNCHANGED <<gts, splits>>,
         \A x \in SettIds : SettLive(x)' = SettLive(x) /\ (SettLive(x) => setts'[x] = setts[x]),
         NEW u, NEW v, NEW e
  PROVE  PairwiseDebt(u, v, e)' = PairwiseDebt(u, v, e)
<1>1. /\ PaidBy(u)' = PaidBy(u) /\ PaidBy(v)' = PaidBy(v)
  BY DEF PaidBy, GtLive
<1>2. ASSUME NEW a, NEW b
      PROVE  Settled(a, b)' = Settled(a, b) /\ Paid(Settled(a, b) \ {e})' = Paid(Settled(a, b) \ {e})
  <2>1. \A x \in SettIds : /\ SettLive(x)' = SettLive(x)
                           /\ SettLive(x) => setts'[x].from = setts[x].from /\ setts'[x].to = setts[x].to
    OBVIOUS
  <2>2. Settled(a, b)' = Settled(a, b)
    BY <2>1 DEF Settled
  <2> DEFINE S == Settled(a, b) \ {e}
  <2>3. S' = S
    BY <2>2
  <2>4. \A x \in S : setts'[x] = setts[x]
    BY DEF Settled
  <2>5. [x \in S |-> setts'[x].amt] = [x \in S |-> setts[x].amt]
    BY <2>4
  <2> HIDE DEF S
  <2>6. Paid(S)' = Paid(S)
    BY <2>3, <2>5 DEF Paid
  <2> QED
    BY <2>2, <2>6 DEF S
<1>3. /\ Shares(PaidBy(v), u)' = Shares(PaidBy(v), u) /\ Shares(PaidBy(u), v)' = Shares(PaidBy(u), v)
  BY <1>1 DEF Shares, SplitAmount, HasSplit
<1>4. /\ Paid(Settled(u, v) \ {e})' = Paid(Settled(u, v) \ {e})
      /\ Paid(Settled(v, u) \ {e})' = Paid(Settled(v, u) \ {e})
  BY <1>2
<1> QED
  BY <1>3, <1>4 DEF PairwiseDebt

\* Whole tables stay whole when settlements keep their amounts or get a stored one.
LEMMA WholeKept ==
  ASSUME WholeTables, UNCHANGED splits,
         \A x \in SettIds : setts'[x] # NoRow =>
           \/ setts[x] # NoRow /\ setts'[x].amt = setts[x].amt
           \/ WholeCents(setts'[x].amt)
  PROVE  WholeTables'
BY DEF WholeTables, SplitAmount, HasSplit

\* A request that ends, or has read nothing yet.
LEMMA NothingRead ==
  ASSUME OneAtATime, SettTypeInv, SettTypeInv', WholeTables', NEW c \in Requesters, NEW r,
         settling' = [settling EXCEPT ![c] = r],
         r = None \/ r.op \notin {"insert", "reprice"},
         r = None \/ r.op # "close" \/ ClosesAll(c)'
  PROVE  DebtInv'
<1>1. settling'[c] = r
  BY DEF SettTypeInv, SettTypeOK
<1>2. \A d \in Requesters : d = c
  BY DEF OneAtATime
<1>3. \A d \in Requesters : d \notin InFlight("insert")' /\ d \notin InFlight("reprice")'
  BY <1>1, <1>2 DEF InFlight
<1>4. \A d \in Requesters : ClosesAll(d)'
  BY <1>1, <1>2 DEF ClosesAll, InFlight
<1> QED
  BY <1>3, <1>4 DEF DebtInv, ReadsDebt

\* The two steps that read the debt.
LEMMA ReadKeepsDebt ==
  ASSUME OneAtATime, DebtInv, SettTypeInv', NEW c \in Requesters,
         InsertSettlement(c) \/ RepriceSettlement(c)
  PROVE  DebtInv'
<1>1. UNCHANGED <<gts, splits, setts>>
  BY DEF InsertSettlement, RepriceSettlement, tables
<1>2. WholeTables'
  BY <1>1, WholeKept DEF DebtInv
<1>3. \A d \in Requesters : d = c
  BY DEF OneAtATime
<1>4. settling \in [Requesters -> SettRequest \cup {None}] /\ c \in DOMAIN settling
  BY DEF DebtInv, SettTypeInv, SettTypeOK
<1>5. \A u, v, e : PairwiseDebt(u, v, e)' = PairwiseDebt(u, v, e)
  BY <1>1 DEF PairwiseDebt, Shares, PaidBy, GtLive, SplitAmount, HasSplit, Paid, Settled, SettLive
<1>6. CASE InsertSettlement(c)
  <2> DEFINE r == settling[c]
  <2>1. PICK x \in UnusedSetts :
          settling' = [settling EXCEPT ![c] =
            [op |-> "insert", sett |-> x, from |-> r.from, to |-> r.to, amt |-> r.amt,
             meta |-> r.meta, excess |-> Excess(CreateDebt(r), r.amt)]]
    BY <1>6 DEF InsertSettlement
  <2> DEFINE q == [op |-> "insert", sett |-> x, from |-> r.from, to |-> r.to, amt |-> r.amt,
                   meta |-> r.meta, excess |-> Excess(CreateDebt(r), r.amt)]
  <2>2. settling'[c] = q
    BY <1>4, <2>1
  <2>3. q.op = "insert" /\ q.sett = x /\ q.amt = r.amt /\ q.excess = Excess(CreateDebt(r), r.amt)
        /\ q.from = r.from /\ q.to = r.to
    OBVIOUS
  <2>4. setts'[x] = NoRow
    BY <1>1 DEF UnusedSetts
  <2>5. CreateDebt(r) = PairwiseDebt(r.from, r.to, None) - Stored(r.amt)
    BY DEF CreateDebt
  <2> HIDE DEF q
  <2>6. PICK u, v, n : u = r.from /\ v = r.to /\ n = r.amt
    OBVIOUS
  <2>7. CreateDebt(settling[c])' = PairwiseDebt(u, v, None)' - Stored(n)
    BY <2>2, <2>3, <2>6 DEF CreateDebt
  <2>8. CreateDebt(settling[c])' = CreateDebt(r)
    BY <1>5, <2>5, <2>6, <2>7
  <2>9. c \notin InFlight("reprice")'
    BY <2>2, <2>3 DEF InFlight
  <2>10. settling'[c].sett = x /\ settling'[c].amt = r.amt
         /\ settling'[c].excess = Excess(CreateDebt(r), r.amt)
    BY <2>2, <2>3
  <2>11. ReadsDebt(c)'
    BY <2>4, <2>8, <2>9, <2>10 DEF ReadsDebt
  <2>12. ClosesAll(c)'
    BY <2>2, <2>3 DEF ClosesAll, InFlight
  <2> QED
    BY <1>2, <1>3, <2>11, <2>12 DEF DebtInv
<1>7. CASE RepriceSettlement(c)
  <2> DEFINE r == settling[c]
             q == [op |-> "reprice", sett |-> r.sett, amt |-> r.amt, meta |-> r.meta,
                   excess |-> Excess(RepriceDebt(r), r.amt)]
  <2>1. settling' = [settling EXCEPT ![c] = q]
    BY <1>7 DEF RepriceSettlement
  <2>2. settling'[c] = q
    BY <1>4, <2>1
  <2>3. q.op = "reprice" /\ q.sett = r.sett /\ q.amt = r.amt /\ q.excess = Excess(RepriceDebt(r), r.amt)
    OBVIOUS
  <2> HIDE DEF q
  <2>4. PICK x, u, v : x = r.sett /\ u = setts[x].from /\ v = setts[x].to
    OBVIOUS
  <2>5. RepriceDebt(settling[c])' = PairwiseDebt(u, v, x)'
    BY <1>1, <2>2, <2>3, <2>4 DEF RepriceDebt
  <2>6. RepriceDebt(settling[c])' = RepriceDebt(r)
    BY <1>5, <2>4, <2>5 DEF RepriceDebt
  <2>7. c \notin InFlight("insert")'
    BY <2>2, <2>3 DEF InFlight
  <2>8. settling'[c].amt = r.amt /\ settling'[c].excess = Excess(RepriceDebt(r), r.amt)
    BY <2>2, <2>3
  <2>9. ReadsDebt(c)'
    BY <2>6, <2>7, <2>8 DEF ReadsDebt
  <2>10. ClosesAll(c)'
    BY <2>2, <2>3 DEF ClosesAll, InFlight
  <2> QED
    BY <1>2, <1>3, <2>9, <2>10 DEF DebtInv
<1> QED
  BY <1>6, <1>7

\* Edits of personal rows move no debt, and the purge removes settlements that count in none.
LEMMA OthersKeepDebt ==
  ASSUME DebtInv, SettTypeInv', UpdateTransaction \/ DeleteTransaction \/ PurgeSettledRows
                                \/ PurgeSettlements \/ UNCHANGED settVars
  PROVE  DebtInv'
<1>1. UNCHANGED <<gts, splits, settling>>
  BY DEF UpdateTransaction, DeleteTransaction, PurgeSettledRows, PurgeSettlements, settVars, tables
<1>2. \A x \in SettIds : \/ setts'[x] = setts[x]
                         \/ setts'[x] = NoRow /\ setts[x] # NoRow /\ setts[x].deleted /\ ~Locked(x)
  BY DEF UpdateTransaction, DeleteTransaction, PurgeSettledRows, PurgeSettlements, settVars, tables
<1>3. \A x \in SettIds : SettLive(x)' = SettLive(x) /\ (SettLive(x) => setts'[x] = setts[x])
  BY <1>2 DEF SettLive
<1>4. WholeTables'
  BY <1>1, <1>2, WholeKept DEF DebtInv
<1>5. ASSUME NEW c \in Requesters PROVE ReadsDebt(c)'
  <2> DEFINE r == settling[c]
  <2>0. SettTypeOK
    BY DEF DebtInv, SettTypeInv
  <2>1. ASSUME c \in InFlight("insert")
        PROVE  setts'[r.sett] = NoRow /\ r.excess = Excess(CreateDebt(r)', r.amt)
    <3>1. r.sett \in SettIds
      BY <2>0, <2>1, RequestFields DEF InsertedSett
    <3>2. setts'[r.sett] = NoRow
      BY <1>2, <2>1, <3>1 DEF DebtInv, ReadsDebt
    <3>3. PICK u, v, n : u = r.from /\ v = r.to /\ n = r.amt
      OBVIOUS
    <3>4. PairwiseDebt(u, v, None)' = PairwiseDebt(u, v, None)
      BY <1>1, <1>3, SameDebt
    <3>5. CreateDebt(r)' = CreateDebt(r)
      BY <1>1, <3>3, <3>4 DEF CreateDebt
    <3> QED
      BY <2>1, <3>2, <3>5 DEF DebtInv, ReadsDebt
  <2>2. ASSUME c \in InFlight("reprice")
        PROVE  r.excess = Excess(RepriceDebt(r)', r.amt)
    <3>1. r.sett \in SettIds /\ Locked(r.sett)
      BY <2>0, <2>2, RequestFields DEF RepricedSett, Locked
    <3>2. setts'[r.sett] = setts[r.sett]
      BY <1>2, <3>1
    <3>3. PICK x, u, v : x = r.sett /\ u = setts[x].from /\ v = setts[x].to
      OBVIOUS
    <3>4. PairwiseDebt(u, v, x)' = PairwiseDebt(u, v, x)
      BY <1>1, <1>3, SameDebt
    <3>5. RepriceDebt(r)' = RepriceDebt(r)
      BY <1>1, <3>2, <3>3, <3>4 DEF RepriceDebt
    <3> QED
      BY <2>2, <3>5 DEF DebtInv, ReadsDebt
  <2>3. InFlight("insert")' = InFlight("insert") /\ InFlight("reprice")' = InFlight("reprice")
    BY <1>1 DEF InFlight
  <2>4. settling'[c] = settling[c]
    BY <1>1
  <2> QED
    BY <1>1, <2>1, <2>2, <2>3, <2>4 DEF ReadsDebt
<1>6. \A c \in Requesters : ClosesAll(c)'
  BY <1>1, <1>2 DEF DebtInv, ClosesAll, InFlight
<1> QED
  BY <1>4, <1>5, <1>6 DEF DebtInv

\* The opening tables, and the steps.
LEMMA DebtInit == WholeOpenings /\ SettInit => DebtInv
<1> SUFFICES ASSUME WholeOpenings, SettInit PROVE DebtInv
  OBVIOUS
<1>1. PICK o \in Openings : gts = o.gts /\ splits = o.splits /\ personal = o.personal
  BY DEF SettInit
<1>2. \A g \in GtIds, u \in Users : WholeCents(SplitAmount(g, u))
  BY <1>1, WholeZero DEF WholeOpenings, SplitAmount, HasSplit
<1>3. \A x \in SettIds : setts[x] = NoRow
  BY DEF SettInit
<1>4. \A c \in Requesters : settling[c] = None
  BY DEF SettInit
<1> QED
  BY <1>2, <1>3, <1>4, SettTypeInit DEF DebtInv, WholeTables, ReadsDebt, ClosesAll, InFlight

\* What was read stays right until the commit.
LEMMA DebtStep == OneAtATime /\ DebtInv /\ [SettNext]_settVars => DebtInv'
<1> SUFFICES ASSUME OneAtATime, DebtInv, [SettNext]_settVars PROVE DebtInv'
  OBVIOUS
<1>1. SettTypeInv /\ SettTypeInv' /\ WholeTables
  BY SettTypeStep DEF DebtInv
<1>2. /\ setts \in [SettIds -> SettRow \cup {NoRow}] /\ NoRow \notin SettRow
      /\ settling \in [Requesters -> SettRequest \cup {None}]
  BY <1>1, StateAssumptions DEF SettTypeInv, SettTypeOK, TablesTypeOK
<1>3. ASSUME NEW c \in Requesters, Receives(c) PROVE DebtInv'
  <2>1. PICK r \in SettRequest : r.op \in Received /\ SettReceive(c, r)
    BY <1>1, <1>3, ReceivedRequest
  <2>2. settling' = [settling EXCEPT ![c] = r] /\ UNCHANGED <<splits, setts>>
    BY <2>1 DEF SettReceive, tables
  <2>3. WholeTables'
    BY <1>1, <2>2, WholeKept
  <2> QED
    BY <1>1, <2>1, <2>2, <2>3, NothingRead DEF Received
<1>4. ASSUME NEW c \in Requesters, HideSettRows(c) PROVE DebtInv'
  <2> DEFINE r == [op |-> "hide", sett |-> settling[c].sett, seen |-> Linked(settling[c].sett)]
  <2>1. settling' = [settling EXCEPT ![c] = r] /\ UNCHANGED <<splits, setts>>
    BY <1>4 DEF HideSettRows, tables
  <2>2. r.op = "hide"
    OBVIOUS
  <2>3. WholeTables'
    BY <1>1, <2>1, WholeKept
  <2> HIDE DEF r
  <2> QED
    BY <1>1, <2>1, <2>2, <2>3, NothingRead
\* A request that ends.
<1>5. ASSUME NEW c \in Requesters, SettFinish(c), WholeTables' PROVE DebtInv'
  BY <1>1, <1>5, NothingRead DEF SettFinish
<1>6. ASSUME NEW c \in Requesters, CommitSettlement(c) \/ CommitReprice(c) PROVE DebtInv'
  <2> DEFINE x == settling[c].sett
             a == settling[c].amt
  <2>1. x \in SettIds /\ a \in Nat
    BY <1>1, <1>6, CommitWrites
  <2>2. PICK row \in SettRow : CommitsSett(c, x, row, settling[c].excess)
    BY <1>1, <1>6, CommitWrites
  <2>3. setts' = [setts EXCEPT ![x] = row] /\ row.amt = Stored(a) /\ SettFinish(c) /\ UNCHANGED splits
    BY <2>2 DEF CommitsSett
  <2>4. WholeCents(row.amt)
    BY <2>1, <2>3, StoredWhole
  <2> HIDE DEF x
  <2>5. \A y \in SettIds : setts'[y] = setts[y] \/ setts'[y] = row
    BY <1>2, <2>1, <2>3
  <2>6. WholeTables'
    BY <1>1, <2>3, <2>4, <2>5, WholeKept
  <2> QED
    BY <1>5, <2>3, <2>6
<1>7. ASSUME NEW c \in Requesters, CommitNotes(c) PROVE DebtInv'
  <2> DEFINE r == settling[c]
  <2>1. /\ setts[r.sett] # NoRow /\ r.amt = None
        /\ setts' = [setts EXCEPT ![r.sett] = UpdatedSett(r)]
        /\ SettFinish(c) /\ UNCHANGED splits
    BY <1>7 DEF CommitNotes
  <2>2. r.sett \in SettIds
    BY <1>1, <1>7, RequestFields DEF CommitNotes, UpdateSettRequest, SettTypeInv
  <2>3. setts[r.sett] \in SettRow
    BY <1>2, <2>1, <2>2
  <2>4. UpdatedSett(r).amt = setts[r.sett].amt
    BY <2>1, <2>3 DEF UpdatedSett, SettRow
  <2> HIDE DEF r
  <2>5. \A y \in SettIds : \/ setts'[y] = setts[y]
                           \/ y = r.sett /\ setts'[y] = UpdatedSett(r)
    BY <1>2, <2>1, <2>2
  <2>6. WholeTables'
    BY <1>1, <2>1, <2>4, <2>5, WholeKept
  <2> QED
    BY <1>5, <2>1, <2>6
<1>8. ASSUME NEW c \in Requesters, CommitSettDelete(c) PROVE DebtInv'
  <2>1. SettFinish(c) /\ UNCHANGED splits
    BY <1>8 DEF CommitSettDelete
  <2>2. \A y \in SettIds : \/ setts'[y] = setts[y]
                           \/ setts[y] # NoRow /\ setts'[y] = [setts[y] EXCEPT !.deleted = TRUE]
    BY <1>2, <1>8 DEF CommitSettDelete
  <2>3. \A row \in SettRow : [row EXCEPT !.deleted = TRUE].amt = row.amt
    BY DEF SettRow
  <2>4. WholeTables'
    BY <1>1, <1>2, <2>1, <2>2, <2>3, WholeKept
  <2> QED
    BY <1>5, <2>1, <2>4
<1>9. ASSUME NEW c \in Requesters, SettAbort(c) PROVE DebtInv'
  <2>1. SettFinish(c) /\ UNCHANGED <<splits, setts>>
    BY <1>9 DEF SettAbort, tables
  <2>2. WholeTables'
    BY <1>1, <2>1, WholeKept
  <2> QED
    BY <1>5, <2>1, <2>2
<1>10. ASSUME NEW c \in Requesters, CloseSettlements(c) PROVE DebtInv'
  <2> DEFINE r == [op |-> "close", seen |-> {x \in SettIds : setts[x] # NoRow}]
  <2>1. settling' = [settling EXCEPT ![c] = r] /\ UNCHANGED <<splits, setts>>
    BY <1>10 DEF CloseSettlements, tables
  <2>2. r.op = "close" /\ r.seen = {x \in SettIds : setts[x] # NoRow}
    OBVIOUS
  <2>3. WholeTables'
    BY <1>1, <2>1, WholeKept
  <2> HIDE DEF r
  <2>4. settling'[c] = r
    BY <1>2, <2>1
  <2>5. ClosesAll(c)'
    BY <2>1, <2>2, <2>4 DEF ClosesAll
  <2> QED
    BY <1>1, <2>1, <2>2, <2>3, <2>5, NothingRead
<1>11. ASSUME NEW c \in Requesters, CommitDeleteGroup(c) PROVE DebtInv'
  <2>1. SettFinish(c) /\ UNCHANGED splits
    BY <1>11 DEF CommitDeleteGroup
  <2>2. personal \in [RowIds -> PersonalRow \cup {NoRow}]
    BY <1>1 DEF SettTypeInv, SettTypeOK, TablesTypeOK
  <2>3. \A y \in SettIds : /\ setts[y] = NoRow => setts'[y] = NoRow
                           /\ setts[y] # NoRow => setts'[y].amt = setts[y].amt
    BY <1>2, <1>11, <2>2, ClosedTables DEF CommitDeleteGroup
  <2>4. WholeTables'
    BY <1>1, <2>1, <2>3, WholeKept
  <2> QED
    BY <1>5, <2>1, <2>4
<1> QED
  BY <1>1, <1>3, <1>4, <1>6, <1>7, <1>8, <1>9, <1>10, <1>11, ReadKeepsDebt, OthersKeepDebt
     DEF SettNext, Receives

-----------------------------------------------------------------------------
(* What is booked for a settlement, and what it clears.                    *)

\* The expense rows of settlement x that dashboards show, and their amounts.
ShownExpenses(x) == {t \in Linked(x) : RowLive(t) /\ personal[t].kind = "expense"}

\* What is booked is a natural number.
LEMMA BookedNat ==
  ASSUME TablesTypeOK, NEW x
  PROVE  Booked(x) \in Nat
<1> DEFINE S == ShownExpenses(x)
           f == [t \in S |-> personal[t].amt]
<1>1. Booked(x) = SumFunctionOnSet(f, S)
  BY DEF Booked, SumFunction, ShownExpenses
<1>2. S \subseteq RowIds /\ \A t \in S : personal[t].amt \in Nat
  BY DEF ShownExpenses, Linked, TablesTypeOK, PersonalRow, Amount
<1>3. IsFiniteSet(S) /\ \A t \in S : f[t] \in Int /\ f[t] >= 0
  BY <1>2, StateAssumptions, FS_Subset
<1> HIDE DEF S, f
<1> QED
  BY <1>1, <1>3, SumType

\* It depends on the kind, the amount and the liveness of the linked rows.
LEMMA SameBooked ==
  ASSUME NEW x, Linked(x)' = Linked(x),
         \A t \in Linked(x) : /\ personal'[t] # NoRow /\ personal'[t].kind = personal[t].kind
                              /\ personal'[t].amt = personal[t].amt
                              /\ personal'[t].deleted = personal[t].deleted
  PROVE  Booked(x)' = Booked(x)
<1> DEFINE S == ShownExpenses(x)
<1>1. {t \in Linked(x)' : personal'[t] # NoRow /\ ~personal'[t].deleted /\ personal'[t].kind = "expense"} = S
  BY DEF ShownExpenses, RowLive, Linked
<1>2. [t \in S |-> personal'[t].amt] = [t \in S |-> personal[t].amt]
  BY DEF ShownExpenses
<1>3. Booked(x) = SumFunction([t \in S |-> personal[t].amt])
  BY DEF Booked, ShownExpenses
<1>4. Booked(x)' = SumFunction([t \in S |-> personal'[t].amt])
  BY <1>1 DEF Booked, RowLive
<1> QED
  BY <1>2, <1>3, <1>4

\* A new pair books its amount.
LEMMA BookedByCommit ==
  ASSUME SettTypeOK, NEW x \in SettIds, NEW from \in Users, NEW to \in Users, NEW n \in Nat,
         NEW m \in Metas \cup {None}, BookExcess(x, from, to, n, m)
  PROVE  Booked(x)' = Stored(n)
<1> DEFINE T == {t \in Linked(x)' : personal'[t] # NoRow /\ ~personal'[t].deleted
                                    /\ personal'[t].kind = "expense"}
           f == [t \in T |-> personal'[t].amt]
<1>1. Booked(x)' = SumFunctionOnSet(f, T)
  BY DEF Booked, SumFunction, RowLive
<1>2. \/ n = 0 /\ Linked(x)' = {}
      \/ Stored(n) > 0 /\ \E i, e \in RowIds : i # e /\ NewPair(x, from, to, n, m, i, e)
  BY BookExcessRows
<1>3. CASE n = 0 /\ Linked(x)' = {}
  <2>1. T = {}
    BY <1>3
  <2> HIDE DEF T, f
  <2> QED
    BY <1>1, <1>3, <2>1, SumEmpty, StoredKeepsWhole, WholeZero
<1>4. CASE Stored(n) > 0 /\ \E i, e \in RowIds : i # e /\ NewPair(x, from, to, n, m, i, e)
  <2>1. PICK i, e \in RowIds : i # e /\ NewPair(x, from, to, n, m, i, e)
    BY <1>4
  <2>2. Linked(x)' = {i, e} /\ personal'[i] = SettIncome(x, to, n, m)
        /\ personal'[e] = SettExpense(x, from, n, m)
    BY <2>1 DEF NewPair
  <2>3. /\ SettIncome(x, to, n, m).kind = "income" /\ SettExpense(x, from, n, m).kind = "expense"
        /\ ~SettExpense(x, from, n, m).deleted /\ SettExpense(x, from, n, m).amt = Stored(n)
    BY DEF SettIncome, SettExpense
  <2>4. personal'[e] # NoRow
    BY <1>4, <2>2, BookedRowType, StateAssumptions
  <2>5. T = {e} /\ f[e] = Stored(n) /\ Stored(n) \in Int
    BY <2>2, <2>3, <2>4, StoredNat
  <2> HIDE DEF T, f
  <2>6. {e} \ {e} = {} /\ IsFiniteSet({e}) /\ e \in {e}
    BY FS_Singleton
  <2>7. \A t \in {e} : f[t] \in Int
    BY <2>5
  <2>8. SumFunctionOnSet(f, {e}) = f[e] + SumFunctionOnSet(f, {e} \ {e})
    BY <2>6, <2>7, SumPick
  <2>9. SumFunctionOnSet(f, {e}) = Stored(n) + 0
    BY <2>5, <2>6, <2>8, SumEmpty
  <2> QED
    BY <1>1, <2>5, <2>9
<1> QED
  BY <1>2, <1>3, <1>4

\* What a settlement of x that is about to be committed was checked against: a debt, and its
\* excess over it.
LEMMA CommitExcess ==
  ASSUME DebtInv, NEW c \in Requesters, CommitSettlement(c) \/ CommitReprice(c),
         NEW row \in SettRow, NEW x \in SettIds, x = settling[c].sett,
         CommitsSett(c, x, row, settling[c].excess)
  PROVE  \E d \in Int :
           /\ Stored(settling[c].excess) = Excess(d, row.amt)
           /\ d <= PairwiseDebt(row.from, row.to, x)
           /\ CommitReprice(c) => /\ d = PairwiseDebt(row.from, row.to, x)
                                  /\ row.from = setts[x].from /\ row.to = setts[x].to
<1> DEFINE r == settling[c]
<1>1. SettTypeOK /\ SettTypeInv /\ TablesTypeOK /\ WholeTables /\ ReadsDebt(c)
  BY DEF DebtInv, SettTypeInv, SettTypeOK
<1>2. r.amt \in Nat /\ row.amt = Stored(r.amt) /\ row.from \in Users /\ row.to \in Users
  BY <1>1, CommitWrites DEF CommitsSett, SettRow
<1>3. /\ setts \in [SettIds -> SettRow \cup {NoRow}] /\ setts' = [setts EXCEPT ![x] = row]
  BY <1>1 DEF TablesTypeOK, CommitsSett
<1>4. Stored(r.amt) \in Nat /\ WholeCents(Stored(r.amt))
  BY <1>2, StoredNat, StoredWhole
<1>5. /\ PairwiseDebt(row.from, row.to, x) \in Int /\ WholeCents(PairwiseDebt(row.from, row.to, x))
  BY <1>1, <1>2, DebtWhole
<1>6. CASE CommitSettlement(c)
  <2>1. c \in InFlight("insert") /\ r.op = "insert"
    BY <1>6 DEF CommitSettlement, InFlight
  <2>2. setts[x] = NoRow /\ r.excess = Excess(CreateDebt(r), r.amt)
    BY <1>1, <2>1 DEF ReadsDebt
  <2>3. row.from = r.from /\ row.to = r.to
    <3>1. setts'[r.sett] = [from |-> r.from, to |-> r.to, amt |-> Stored(r.amt), meta |-> r.meta,
                            deleted |-> FALSE]
      BY <1>3, <1>6 DEF CommitSettlement
    <3>2. setts'[r.sett] = row
      BY <1>3
    <3> QED
      BY <3>1, <3>2
  <2>4. \A u, v : Settled(u, v) \ {None} = Settled(u, v) /\ Settled(u, v) \ {x} = Settled(u, v)
    BY <2>2, StateAssumptions DEF Settled, SettLive
  <2>5. PairwiseDebt(row.from, row.to, None) = PairwiseDebt(row.from, row.to, x)
    BY <2>4 DEF PairwiseDebt
  <2> DEFINE D == PairwiseDebt(row.from, row.to, x)
             A == Stored(r.amt)
             d == D - A
  <2>6. CreateDebt(r) = d
    BY <2>3, <2>5 DEF CreateDebt
  <2>7. d \in Int /\ WholeCents(d) /\ d <= D
    <3>1. D \in Int /\ WholeCents(D) /\ A \in Nat /\ WholeCents(A)
      BY <1>4, <1>5
    <3> HIDE DEF D, A
    <3>2. WholeCents(D - A)
      BY <3>1, WholeSum
    <3> QED
      BY <3>1, <3>2
  <2>8. ~CommitReprice(c)
    BY <2>1 DEF CommitReprice, InFlight
  <2> HIDE DEF d
  <2>9. Stored(r.excess) = Excess(d, row.amt)
    BY <1>2, <2>2, <2>6, <2>7, StoredExcess
  <2> QED
    BY <2>7, <2>8, <2>9
<1>7. CASE CommitReprice(c)
  <2>1. c \in InFlight("reprice") /\ setts[x] # NoRow
    BY <1>7 DEF CommitReprice
  <2>2. r.excess = Excess(RepriceDebt(r), r.amt)
    BY <1>1, <2>1 DEF ReadsDebt
  <2>3. row = UpdatedSett(r) /\ setts[x] \in SettRow
    BY <1>3, <1>7, <2>1 DEF CommitReprice
  <2>4. row.from = setts[x].from /\ row.to = setts[x].to
    BY <2>3 DEF UpdatedSett, SettRow
  <2>5. RepriceDebt(r) = PairwiseDebt(row.from, row.to, x)
    BY <2>4 DEF RepriceDebt
  <2>6. Stored(r.excess) = Excess(PairwiseDebt(row.from, row.to, x), row.amt)
    BY <1>2, <1>5, <2>2, <2>5, StoredExcess
  <2> QED
    BY <1>5, <2>4, <2>6
<1> QED
  BY <1>6, <1>7

\* A settlement whose amount is changed ends up with exactly the rows that a settlement of that
\* amount should have, for any opening ledger and any rounding.
THEOREM RepriceBooksExcess == OneAtATime /\ WholeOpenings => (SettSpec => UpdateBooksExcess)
<1> SUFFICES ASSUME OneAtATime, WholeOpenings PROVE SettSpec => UpdateBooksExcess
  OBVIOUS
<1> DEFINE Books ==
      \A c \in Requesters, x \in SettIds :
        /\ settling[c] # None /\ settling[c].op = "reprice" /\ settling[c].sett = x
        /\ settling'[c] = None /\ SettLive(x) /\ <<setts, personal>>' # <<setts, personal>>
        => Booked(x)' = Excess(PairwiseDebt(setts[x].from, setts[x].to, x), setts'[x].amt)
<1>1. ASSUME DebtInv, [SettNext]_settVars PROVE Books
  <2> SUFFICES ASSUME NEW c \in Requesters, NEW x \in SettIds,
                      settling[c] # None, settling[c].op = "reprice", settling[c].sett = x,
                      settling'[c] = None, SettLive(x), <<setts, personal>>' # <<setts, personal>>
               PROVE  Booked(x)' = Excess(PairwiseDebt(setts[x].from, setts[x].to, x), setts'[x].amt)
    OBVIOUS
  <2>1. CommitReprice(c)
    <3>1. \A d \in Requesters : d = c
      BY DEF OneAtATime
    <3>2. \A op : c \in InFlight(op) => op = "reprice"
      BY DEF InFlight
    <3>3. ~Receives(c)
      BY DEF Receives, ReceiveSettlement, ReceiveSettUpdate, ReceiveSettDelete, ReceiveClose,
             SettReceive
    <3>4. ~InsertSettlement(c) /\ ~RepriceSettlement(c) /\ ~HideSettRows(c)
          /\ ~CommitSettlement(c) /\ ~CommitNotes(c) /\ ~CommitSettDelete(c)
          /\ ~CloseSettlements(c) /\ ~CommitDeleteGroup(c)
      BY <3>2 DEF InsertSettlement, RepriceSettlement, HideSettRows, CommitSettlement,
                  CommitNotes, CommitSettDelete, CloseSettlements, CommitDeleteGroup
    <3>5. ~SettAbort(c) /\ ~UNCHANGED settVars
      BY DEF SettAbort, settVars, tables
    <3>6. ~UpdateTransaction /\ ~DeleteTransaction /\ ~PurgeSettledRows /\ ~PurgeSettlements
      BY DEF UpdateTransaction, DeleteTransaction, PurgeSettledRows, PurgeSettlements
    <3> QED
      BY <1>1, <3>1, <3>3, <3>4, <3>5, <3>6 DEF SettNext, Receives
  <2>2. SettTypeInv /\ SettTypeOK /\ setts \in [SettIds -> SettRow \cup {NoRow}]
    BY <1>1 DEF DebtInv, SettTypeInv, SettTypeOK, TablesTypeOK
  <2>3. PICK row \in SettRow : CommitsSett(c, x, row, settling[c].excess)
    BY <2>1, <2>2, CommitWrites
  <2>4. settling[c].excess \in Nat
    BY <2>1, <2>2, CommitWrites
  <2>5. /\ setts'[x] = row /\ BookExcess(x, row.from, row.to, settling[c].excess, row.meta)
        /\ row.from \in Users /\ row.to \in Users /\ row.meta \in Metas \cup {None}
    BY <2>2, <2>3 DEF CommitsSett, SettRow
  <2>6. Booked(x)' = Stored(settling[c].excess)
    BY <2>2, <2>4, <2>5, BookedByCommit
  <2>7. PICK d \in Int :
           /\ Stored(settling[c].excess) = Excess(d, row.amt)
           /\ d = PairwiseDebt(row.from, row.to, x)
           /\ row.from = setts[x].from /\ row.to = setts[x].to
    BY <1>1, <2>1, <2>3, CommitExcess
  <2> QED
    BY <2>5, <2>6, <2>7
<1>2. DebtInv /\ [SettNext]_settVars => [Books]_settVars
  BY <1>1
<1>3. DebtInv /\ [SettNext]_settVars => DebtInv'
  BY DebtStep
<1>4. SettInit => DebtInv
  BY DebtInit
<1> HIDE DEF Books
<1>5. SettSpec => [][Books]_settVars
  BY <1>2, <1>3, <1>4, PTL DEF SettSpec
<1> QED
  BY <1>5 DEF UpdateBooksExcess, Books

-----------------------------------------------------------------------------
(* What is cleared.                                                        *)

\* A sum over a set is the sum over the others and, if x is there, x's own term.
LEMMA SumOthers ==
  ASSUME NEW S, IsFiniteSet(S), NEW f, \A y \in S : f[y] \in Nat, NEW x
  PROVE  /\ SumFunctionOnSet(f, S \ {x}) \in Nat
         /\ SumFunctionOnSet(f, S)
              = SumFunctionOnSet(f, S \ {x}) + (IF x \in S THEN f[x] ELSE 0)
<1>1. IsFiniteSet(S \ {x}) /\ \A y \in S : f[y] \in Int /\ f[y] >= 0
  BY FS_Subset
<1>2. SumFunctionOnSet(f, S \ {x}) \in Nat
  BY <1>1, SumType
<1>3. CASE x \in S
  <2>1. SumFunctionOnSet(f, S) = f[x] + SumFunctionOnSet(f, S \ {x})
    BY <1>1, <1>3, SumPick
  <2> QED
    BY <1>2, <1>3, <2>1
<1>4. CASE x \notin S
  <2>1. S \ {x} = S
    BY <1>4
  <2> QED
    BY <1>2, <1>4, <2>1
<1> QED
  BY <1>2, <1>3, <1>4

\* What settlement x clears.
ClearedBy(x) == AtLeastZero(setts[x].amt - Booked(x))

\* A step that writes settlement x only changes, in what u has cleared and paid, x's own part.
LEMMA ClearedStep ==
  ASSUME TablesTypeOK, TablesTypeOK', NEW x \in SettIds,
         \A y \in SettIds \ {x} : setts'[y] = setts[y] /\ Booked(y)' = Booked(y),
         NEW u \in Users, NEW v \in Users,
         x \in Settled(u, v)' => Booked(x)' \in Nat
  PROVE  \E rest \in Nat :
           /\ rest <= Paid(Settled(u, v) \ {x})
           /\ Cleared(u, v) = rest + (IF x \in Settled(u, v) THEN ClearedBy(x) ELSE 0)
           /\ Cleared(u, v)' = rest + (IF x \in Settled(u, v)' THEN ClearedBy(x)' ELSE 0)
           /\ x \in Settled(u, v) => ClearedBy(x) \in Nat
           /\ x \in Settled(u, v)' => ClearedBy(x)' \in Nat
<1>1. PICK S : S = Settled(u, v)
  OBVIOUS
<1>2. PICK R : R = Settled(u, v)'
  OBVIOUS
<1>3. S \ {x} = R \ {x} /\ S \subseteq SettIds /\ R \subseteq SettIds
  <2>1. \A y \in SettIds \ {x} : y \in S <=> y \in R
    BY <1>1, <1>2 DEF Settled, SettLive
  <2> QED
    BY <1>1, <1>2, <2>1 DEF Settled
<1>4. IsFiniteSet(S) /\ IsFiniteSet(R) /\ IsFiniteSet(S \ {x})
  BY <1>3, StateAssumptions, FS_Subset
<1>5. \A y \in S : setts[y].amt \in Nat
  BY <1>1 DEF Settled, SettLive, TablesTypeOK, SettRow, Amount
<1>6. \A y \in R : setts'[y].amt \in Nat
  BY <1>2 DEF Settled, SettLive, TablesTypeOK, SettRow, Amount
<1>7. \A y \in SettIds : Booked(y) \in Nat
  BY BookedNat
<1>8. \A y \in R : Booked(y)' \in Nat
  BY <1>2, <1>3, <1>7
<1>9. PICK f : f = [y \in S |-> AtLeastZero(setts[y].amt - Booked(y))]
  OBVIOUS
<1>10. PICK g : g = [y \in R |-> AtLeastZero(setts'[y].amt - Booked(y)')]
  OBVIOUS
<1>11. PICK p : p = [y \in S \ {x} |-> setts[y].amt]
  OBVIOUS
<1>12. \A y \in S : f[y] \in Nat /\ f[y] <= setts[y].amt /\ f[y] = ClearedBy(y)
  BY <1>3, <1>5, <1>7, <1>9 DEF AtLeastZero, ClearedBy
<1>13. \A y \in R : g[y] \in Nat /\ g[y] = ClearedBy(y)'
  BY <1>6, <1>8, <1>10 DEF AtLeastZero, ClearedBy
<1>14. \A y \in S \ {x} : f[y] = g[y]
  BY <1>3, <1>9, <1>10
<1>15. Cleared(u, v) = SumFunctionOnSet(f, S)
  <2>1. Cleared(u, v) = SumFunction(f) /\ DOMAIN f = S
    BY <1>1, <1>9 DEF Cleared
  <2> QED
    BY <2>1 DEF SumFunction
<1>16. Cleared(u, v)' = SumFunctionOnSet(g, R)
  <2>1. Cleared(u, v)' = SumFunction(g) /\ DOMAIN g = R
    BY <1>2, <1>10 DEF Cleared
  <2> QED
    BY <2>1 DEF SumFunction
<1> DEFINE rest == SumFunctionOnSet(f, S \ {x})
<1>17. /\ rest \in Nat
       /\ SumFunctionOnSet(f, S) = rest + (IF x \in S THEN f[x] ELSE 0)
  BY <1>4, <1>12, SumOthers
<1>18. SumFunctionOnSet(g, R) = SumFunctionOnSet(g, R \ {x}) + (IF x \in R THEN g[x] ELSE 0)
  BY <1>4, <1>13, SumOthers
<1>19. rest = SumFunctionOnSet(g, R \ {x})
  <2>1. rest = SumFunctionOnSet(g, S \ {x})
    BY <1>4, <1>14, SumSame
  <2> QED
    BY <1>3, <2>1
<1>20. rest <= Paid(S \ {x})
  <2>1. SumFunctionOnSet(f, S \ {x}) <= SumFunctionOnSet(p, S \ {x})
    <3>1. \A y \in S \ {x} : f[y] \in Int /\ p[y] \in Int /\ f[y] <= p[y]
      BY <1>5, <1>11, <1>12
    <3> QED
      BY <1>4, <3>1, SumCompare
  <2>2. Paid(S \ {x}) = SumFunction(p) /\ DOMAIN p = S \ {x}
    BY <1>11 DEF Paid
  <2>3. Paid(S \ {x}) = SumFunctionOnSet(p, S \ {x})
    BY <2>2 DEF SumFunction
  <2> QED
    BY <2>1, <2>3
<1> HIDE DEF rest
<1>21. Cleared(u, v) = rest + (IF x \in S THEN ClearedBy(x) ELSE 0)
  BY <1>12, <1>15, <1>17
<1>22. Cleared(u, v)' = rest + (IF x \in R THEN ClearedBy(x)' ELSE 0)
  BY <1>13, <1>16, <1>18, <1>19
<1> QED
  BY <1>1, <1>2, <1>12, <1>13, <1>17, <1>20, <1>21, <1>22

\* What v has paid back, and so what u owes, is at least what it was without settlement x.
LEMMA OwedStep ==
  ASSUME TablesTypeOK, TablesTypeOK', NEW x \in SettIds, UNCHANGED <<gts, splits>>,
         \A y \in SettIds \ {x} : setts'[y] = setts[y],
         NEW u \in Users, NEW v \in Users
  PROVE  /\ Owed(u, v)' \in Int
         /\ PairwiseDebt(u, v, x) + Paid(Settled(u, v) \ {x}) <= Owed(u, v)'
<1>1. PICK S : S = Settled(v, u)
  OBVIOUS
<1>2. PICK R : R = Settled(v, u)'
  OBVIOUS
<1>3. S \ {x} = R \ {x} /\ S \subseteq SettIds /\ R \subseteq SettIds
  <2>1. \A y \in SettIds \ {x} : y \in S <=> y \in R
    BY <1>1, <1>2 DEF Settled, SettLive
  <2> QED
    BY <1>1, <1>2, <2>1 DEF Settled
<1>4. IsFiniteSet(R) /\ IsFiniteSet(S \ {x})
  BY <1>3, StateAssumptions, FS_Subset
<1>5. PICK q : q = [y \in R |-> setts'[y].amt]
  OBVIOUS
<1>6. \A y \in R : q[y] \in Nat
  BY <1>2, <1>5 DEF Settled, SettLive, TablesTypeOK, SettRow, Amount
<1>7. Paid(R)' = SumFunctionOnSet(q, R)
  <2>1. Paid(R)' = SumFunction(q) /\ DOMAIN q = R
    BY <1>5 DEF Paid
  <2> QED
    BY <2>1 DEF SumFunction
<1>8. Paid(S \ {x}) = SumFunctionOnSet(q, R \ {x})
  <2>1. PICK p : p = [y \in S \ {x} |-> setts[y].amt]
    OBVIOUS
  <2>2. Paid(S \ {x}) = SumFunction(p) /\ DOMAIN p = S \ {x}
    BY <2>1 DEF Paid
  <2>3. \A y \in S \ {x} : p[y] = q[y]
    BY <1>3, <1>5, <2>1
  <2>4. SumFunctionOnSet(p, S \ {x}) = SumFunctionOnSet(q, S \ {x})
    BY <1>4, <2>3, SumSame
  <2> QED
    BY <1>3, <2>2, <2>4 DEF SumFunction
<1>9. /\ SumFunctionOnSet(q, R \ {x}) \in Nat
      /\ SumFunctionOnSet(q, R) = SumFunctionOnSet(q, R \ {x}) + (IF x \in R THEN q[x] ELSE 0)
  BY <1>4, <1>6, SumOthers
<1>10. Paid(R)' \in Nat /\ Paid(S \ {x}) \in Nat /\ Paid(S \ {x}) <= Paid(R)'
  <2>1. PICK n : n = (IF x \in R THEN q[x] ELSE 0)
    OBVIOUS
  <2>2. n \in Nat
    BY <1>6, <2>1
  <2>3. SumFunctionOnSet(q, R) = SumFunctionOnSet(q, R \ {x}) + n
    BY <1>9, <2>1
  <2> QED
    BY <1>7, <1>8, <1>9, <2>2, <2>3
<1>11. PICK a : a = Shares(PaidBy(v), u)
  OBVIOUS
<1>12. PICK b : b = Shares(PaidBy(u), v)
  OBVIOUS
<1>13. a \in Nat /\ b \in Nat
  <2>1. PaidBy(v) \in SUBSET GtIds /\ PaidBy(u) \in SUBSET GtIds
    BY DEF PaidBy
  <2> QED
    BY <1>11, <1>12, <2>1, SumsOfRows
<1>14. Shares(PaidBy(v), u)' = a /\ Shares(PaidBy(u), v)' = b
  BY <1>11, <1>12 DEF Shares, PaidBy, GtLive, SplitAmount, HasSplit
<1>15. PICK c : c = Paid(Settled(u, v) \ {x})
  OBVIOUS
<1>16. c \in Nat
  <2>1. Settled(u, v) \ {x} \in SUBSET {y \in SettIds : SettLive(y)}
    BY DEF Settled
  <2> QED
    BY <1>15, <2>1, SumsOfRows
<1>17. PairwiseDebt(u, v, x) = a - b - c + Paid(S \ {x})
  BY <1>1, <1>11, <1>12, <1>15 DEF PairwiseDebt
<1>18. Owed(u, v)' = AtLeastZero(a - b + Paid(R)')
  BY <1>2, <1>14 DEF Owed
<1>19. PICK e, h : e = Paid(R)' /\ h = Paid(S \ {x})
  OBVIOUS
<1> QED
  BY <1>10, <1>13, <1>15, <1>16, <1>17, <1>18, <1>19 DEF AtLeastZero

-----------------------------------------------------------------------------
(* The steps, and what they clear.                                         *)

\* A commit leaves what is booked for the other settlements.
LEMMA OthersBooked ==
  ASSUME SettTypeOK, NEW y \in SettIds, RowsKept(y)
  PROVE  Booked(y)' = Booked(y)
<1>1. \A t \in Linked(y) : personal'[t] = personal[t] /\ personal[t] # NoRow
  BY DEF RowsKept, Linked
<1> QED
  BY <1>1, SameBooked DEF RowsKept

\* A commit of an amount clears no more than is owed.
LEMMA CommitClears ==
  ASSUME DebtInv, DebtInv', NEW c \in Requesters, CommitSettlement(c) \/ CommitReprice(c),
         NEW u \in Users, NEW v \in Users, Cleared(u, v)' > Cleared(u, v)
  PROVE  Cleared(u, v)' <= Owed(u, v)'
<1>1. SettTypeInv /\ SettTypeOK /\ TablesTypeOK /\ TablesTypeOK' /\ WholeTables
  BY DEF DebtInv, SettTypeInv, SettTypeOK
<1>2. PICK x \in SettIds, n \in Nat : x = settling[c].sett /\ n = settling[c].excess
  BY <1>1, CommitWrites
<1>3. PICK row \in SettRow : CommitsSett(c, x, row, n)
  BY <1>1, <1>2, CommitWrites
<1>4. /\ row.from \in Users /\ row.to \in Users /\ row.meta \in Metas \cup {None} /\ row.amt \in Nat
      /\ BookExcess(x, row.from, row.to, n, row.meta)
  BY <1>3 DEF CommitsSett, SettRow, Amount
<1>5. /\ setts' = [setts EXCEPT ![x] = row] /\ setts \in [SettIds -> SettRow \cup {NoRow}]
      /\ UNCHANGED <<gts, splits>>
  BY <1>1, <1>3 DEF CommitsSett, TablesTypeOK
<1>6. Booked(x)' = Stored(n) /\ Stored(n) \in Nat
  BY <1>1, <1>4, BookedByCommit, StoredNat
<1>7. \A y \in SettIds \ {x} : setts'[y] = setts[y] /\ Booked(y)' = Booked(y)
  BY <1>1, <1>4, <1>5, BookExcessRows, OthersBooked
<1>8. PICK rest \in Nat :
           /\ rest <= Paid(Settled(u, v) \ {x})
           /\ Cleared(u, v) = rest + (IF x \in Settled(u, v) THEN ClearedBy(x) ELSE 0)
           /\ Cleared(u, v)' = rest + (IF x \in Settled(u, v)' THEN ClearedBy(x)' ELSE 0)
           /\ x \in Settled(u, v) => ClearedBy(x) \in Nat
           /\ x \in Settled(u, v)' => ClearedBy(x)' \in Nat
  BY <1>1, <1>6, <1>7, ClearedStep
<1>9. x \in Settled(u, v)' /\ ClearedBy(x)' \in Nat /\ ClearedBy(x)' > 0
      /\ Cleared(u, v)' = rest + ClearedBy(x)'
  BY <1>8
<1>10. row.from = u /\ row.to = v
  BY <1>5, <1>9 DEF Settled
<1>11. PICK d \in Int : Stored(n) = Excess(d, row.amt) /\ d <= PairwiseDebt(u, v, x)
  BY <1>1, <1>2, <1>3, <1>10, CommitExcess
<1>12. ClearedBy(x)' = AtLeastZero(row.amt - Excess(d, row.amt))
  BY <1>5, <1>6, <1>11 DEF ClearedBy
<1>13. ClearedBy(x)' <= d
  BY <1>4, <1>9, <1>12 DEF AtLeastZero, Excess
<1>14. Owed(u, v)' \in Int /\ PairwiseDebt(u, v, x) + Paid(Settled(u, v) \ {x}) <= Owed(u, v)'
  BY <1>1, <1>5, <1>7, OwedStep
<1>15. PairwiseDebt(u, v, x) \in Int
  BY <1>1, DebtWhole
<1>16. Paid(Settled(u, v) \ {x}) \in Nat
  <2>1. Settled(u, v) \ {x} \in SUBSET {y \in SettIds : SettLive(y)}
    BY DEF Settled
  <2> QED
    BY <1>1, <2>1, SumsOfRows
<1>17. PICK o, q, p, k : /\ o = Owed(u, v)' /\ q = PairwiseDebt(u, v, x)
                         /\ p = Paid(Settled(u, v) \ {x}) /\ k = ClearedBy(x)'
  OBVIOUS
<1> QED
  BY <1>8, <1>9, <1>11, <1>13, <1>14, <1>15, <1>16, <1>17

\* An update of the notes and a delete clear nothing more.
LEMMA OthersClear ==
  ASSUME DebtInv, DebtInv', NEW c \in Requesters, CommitNotes(c) \/ CommitSettDelete(c),
         NEW u \in Users, NEW v \in Users
  PROVE  ~(Cleared(u, v)' > Cleared(u, v))
<1>1. SettTypeInv /\ SettTypeOK /\ TablesTypeOK /\ TablesTypeOK'
      /\ setts \in [SettIds -> SettRow \cup {NoRow}]
      /\ personal \in [RowIds -> PersonalRow \cup {NoRow}] /\ NoRow \notin PersonalRow
  BY StateAssumptions DEF DebtInv, SettTypeInv, SettTypeOK, TablesTypeOK
<1>2. CASE CommitNotes(c)
  <2>1. PICK x \in SettIds : x = settling[c].sett
    BY <1>1, <1>2, RequestFields DEF CommitNotes, UpdateSettRequest
  <2>2. /\ setts[x] # NoRow /\ settling[c].amt = None
        /\ setts' = [setts EXCEPT ![x] = UpdatedSett(settling[c])]
        /\ \A t \in RowIds : \/ personal'[t] = personal[t]
                             \/ personal[t] # NoRow
                                /\ personal'[t] = [personal[t] EXCEPT !.meta = settling[c].meta]
    BY <1>2, <2>1 DEF CommitNotes, RowLive
  <2>4. \A t \in RowIds : personal[t] # NoRow =>
           /\ personal'[t].kind = personal[t].kind /\ personal'[t].amt = personal[t].amt
           /\ personal'[t].deleted = personal[t].deleted /\ personal'[t].sett = personal[t].sett
    <3> SUFFICES ASSUME NEW t \in RowIds, personal[t] # NoRow
                 PROVE  /\ personal'[t].kind = personal[t].kind /\ personal'[t].amt = personal[t].amt
                        /\ personal'[t].deleted = personal[t].deleted
                        /\ personal'[t].sett = personal[t].sett
      OBVIOUS
    <3>1. PICK q, m : q = personal[t] /\ m = settling[c].meta /\ q \in PersonalRow
      BY <1>1
    <3>2. personal'[t] = q \/ personal'[t] = [q EXCEPT !.meta = m]
      BY <2>2, <3>1
    <3>3. /\ [q EXCEPT !.meta = m].kind = q.kind /\ [q EXCEPT !.meta = m].amt = q.amt
          /\ [q EXCEPT !.meta = m].deleted = q.deleted /\ [q EXCEPT !.meta = m].sett = q.sett
      BY <3>1 DEF PersonalRow
    <3>4. CASE personal'[t] = q
      BY <3>1, <3>4
    <3>5. CASE personal'[t] = [q EXCEPT !.meta = m]
      BY <3>1, <3>3, <3>5
    <3> QED
      BY <3>2, <3>4, <3>5
  <2>5. \A t \in RowIds : personal'[t] # NoRow <=> personal[t] # NoRow
    <3>1. \A m : \A q \in PersonalRow : [q EXCEPT !.meta = m] # NoRow \/ m \notin Metas \cup {None}
      BY StateAssumptions DEF PersonalRow
    <3>2. settling[c].meta \in Metas \cup {None}
      BY <1>1, <1>2, RequestFields DEF CommitNotes, UpdateSettRequest
    <3> QED
      BY <1>1, <2>2, <3>1, <3>2
  <2>6. ASSUME NEW y PROVE Linked(y)' = Linked(y) /\ Booked(y)' = Booked(y)
    <3>1. Linked(y)' = Linked(y)
      BY <2>4, <2>5 DEF Linked
    <3> QED
      BY <2>4, <2>5, <3>1, SameBooked DEF Linked
  <2>7. /\ \A y \in SettIds \ {x} : setts'[y] = setts[y]
        /\ setts'[x].amt = setts[x].amt /\ setts'[x].deleted = setts[x].deleted /\ setts'[x] # NoRow
        /\ setts'[x].from = setts[x].from /\ setts'[x].to = setts[x].to
    <3>1. PICK r, row : r = settling[c] /\ row = setts[x] /\ row \in SettRow
      BY <1>1, <2>2
    <3>2. r.meta \in Metas \cup {None}
      BY <1>1, <1>2, <3>1, RequestFields DEF CommitNotes, UpdateSettRequest
    <3>3. /\ UpdatedSett(r) \in SettRow /\ UpdatedSett(r).from = row.from
          /\ UpdatedSett(r).to = row.to /\ UpdatedSett(r).deleted = row.deleted
          /\ UpdatedSett(r).amt = row.amt
      BY <2>1, <2>2, <3>1, <3>2, UpdatedSettType
    <3>4. setts'[x] = UpdatedSett(r) /\ \A y \in SettIds \ {x} : setts'[y] = setts[y]
      BY <1>1, <2>2, <3>1
    <3>5. setts'[x] # NoRow
      BY <3>3, <3>4, StateAssumptions
    <3> QED
      BY <3>1, <3>3, <3>4, <3>5
  <2>8. Booked(x) \in Nat
    BY <1>1, BookedNat
  <2>9. PICK rest \in Nat :
           /\ rest <= Paid(Settled(u, v) \ {x})
           /\ Cleared(u, v) = rest + (IF x \in Settled(u, v) THEN ClearedBy(x) ELSE 0)
           /\ Cleared(u, v)' = rest + (IF x \in Settled(u, v)' THEN ClearedBy(x)' ELSE 0)
           /\ x \in Settled(u, v) => ClearedBy(x) \in Nat
           /\ x \in Settled(u, v)' => ClearedBy(x)' \in Nat
    <3>1. \A y \in SettIds \ {x} : setts'[y] = setts[y] /\ Booked(y)' = Booked(y)
      BY <2>6, <2>7
    <3>2. Booked(x)' \in Nat
      BY <2>6, <2>8
    <3> QED
      BY <1>1, <3>1, <3>2, ClearedStep
  <2>10. (x \in Settled(u, v)') = (x \in Settled(u, v)) /\ ClearedBy(x)' = ClearedBy(x)
    BY <2>2, <2>6, <2>7 DEF Settled, SettLive, ClearedBy
  <2> QED
    BY <2>9, <2>10
<1>3. CASE CommitSettDelete(c)
  <2>1. PICK x \in SettIds : x = settling[c].sett
    BY <1>1, <1>3, RequestFields DEF CommitSettDelete, HiddenSett
  <2>2. /\ setts' = IF setts[x] = NoRow THEN setts ELSE [setts EXCEPT ![x].deleted = TRUE]
        /\ \A t \in RowIds \ Linked(x) : personal'[t] = personal[t]
        /\ \A t \in Linked(x) : \/ personal'[t] = personal[t]
                               \/ personal'[t] = [personal[t] EXCEPT !.deleted = TRUE]
    BY <1>3, <2>1 DEF CommitSettDelete, HiddenSettRow, Linked
  <2>3. x \notin Settled(u, v)'
    BY <1>1, <2>2 DEF Settled, SettLive, SettRow
  <2>4. \A t \in Linked(x) : personal'[t] # NoRow /\ personal'[t].sett = x
    <3>1. \A q \in PersonalRow : /\ [q EXCEPT !.deleted = TRUE].sett = q.sett
                                 /\ [q EXCEPT !.deleted = TRUE] \in PersonalRow
      BY DEF PersonalRow
    <3>2. ASSUME NEW t \in Linked(x) PROVE personal'[t] # NoRow /\ personal'[t].sett = x
      <4>1. PICK q : q = personal[t] /\ q \in PersonalRow /\ q.sett = x
        BY <1>1 DEF Linked
      <4>2. personal'[t] = q \/ personal'[t] = [q EXCEPT !.deleted = TRUE]
        BY <2>2, <4>1
      <4> QED
        BY <1>1, <3>1, <4>1, <4>2
    <3> QED
      BY <3>2
  <2>5. ASSUME NEW y \in SettIds \ {x} PROVE setts'[y] = setts[y] /\ Booked(y)' = Booked(y)
    <3>1. RowsKept(y)
      BY <2>2, <2>4 DEF RowsKept, Linked
    <3>2. Booked(y)' = Booked(y)
      BY <1>1, <3>1, OthersBooked
    <3>3. setts'[y] = setts[y]
      BY <1>1, <2>2
    <3> QED
      BY <3>2, <3>3
  <2>6. PICK rest \in Nat :
           /\ Cleared(u, v) = rest + (IF x \in Settled(u, v) THEN ClearedBy(x) ELSE 0)
           /\ Cleared(u, v)' = rest + (IF x \in Settled(u, v)' THEN ClearedBy(x)' ELSE 0)
           /\ x \in Settled(u, v) => ClearedBy(x) \in Nat
    BY <1>1, <2>3, <2>5, ClearedStep
  <2> QED
    BY <2>3, <2>6
<1> QED
  BY <1>2, <1>3

\* The deletion of the group leaves no settlement that clears anything.
LEMMA CloseClears ==
  ASSUME DebtInv, NEW c \in Requesters, CommitDeleteGroup(c), NEW u, NEW v
  PROVE  Cleared(u, v)' = 0
<1>1. /\ setts \in [SettIds -> SettRow \cup {NoRow}]
      /\ personal \in [RowIds -> PersonalRow \cup {NoRow}]
  BY DEF DebtInv, SettTypeInv, SettTypeOK, TablesTypeOK
<1>2. \A x \in SettIds : setts[x] # NoRow => x \in settling[c].seen
  BY DEF DebtInv, ClosesAll, CommitDeleteGroup
<1>3. \A x \in SettIds : setts'[x] # NoRow => setts'[x].deleted
  BY <1>1, <1>2, ClosedTables DEF CommitDeleteGroup
<1>4. Settled(u, v)' = {}
  BY <1>3 DEF Settled, SettLive
<1>5. PICK f : f = [x \in {} |-> AtLeastZero(setts'[x].amt - Booked(x)')]
  OBVIOUS
<1>6. Cleared(u, v)' = SumFunction(f) /\ DOMAIN f = {}
  BY <1>4, <1>5 DEF Cleared
<1> QED
  BY <1>6, SumEmpty DEF SumFunction

\* Payments are left unbooked only up to the debt that the shares of group transactions and the
\* payments in the other direction stand for, for any opening ledger and any rounding.
THEOREM ClearsNoMore == OneAtATime /\ WholeOpenings => (SettSpec => ClearsOnlyDebt)
<1> SUFFICES ASSUME OneAtATime, WholeOpenings PROVE SettSpec => ClearsOnlyDebt
  OBVIOUS
<1> DEFINE Clears ==
      settling' # settling =>
        \A u, v \in Users :
          Cleared(u, v)' > Cleared(u, v) => Cleared(u, v)' <= Owed(u, v)'
<1>1. ASSUME DebtInv, DebtInv', [SettNext]_settVars PROVE Clears
  <2> SUFFICES ASSUME settling' # settling, NEW u \in Users, NEW v \in Users,
                      Cleared(u, v)' > Cleared(u, v)
               PROVE  Cleared(u, v)' <= Owed(u, v)'
    OBVIOUS
  <2>1. Cleared(u, v) \in Nat
    <3>1. TablesTypeOK
      BY <1>1 DEF DebtInv, SettTypeInv, SettTypeOK
    <3>2. PICK S : S = Settled(u, v) /\ S \subseteq SettIds /\ IsFiniteSet(S)
      <4>1. Settled(u, v) \subseteq SettIds
        BY DEF Settled
      <4> QED
        BY <4>1, StateAssumptions, FS_Subset
    <3>3. PICK f : f = [y \in S |-> AtLeastZero(setts[y].amt - Booked(y))]
      OBVIOUS
    <3>4. \A y \in S : f[y] \in Int /\ f[y] >= 0
      BY <3>1, <3>2, <3>3, BookedNat DEF Settled, SettLive, TablesTypeOK, SettRow, Amount, AtLeastZero
    <3>5. Cleared(u, v) = SumFunctionOnSet(f, S)
      BY <3>2, <3>3 DEF Cleared, SumFunction
    <3> QED
      BY <3>2, <3>4, <3>5, SumType
  <2>2. ~UNCHANGED tables
    <3>1. UNCHANGED tables => Cleared(u, v)' = Cleared(u, v)
      BY DEF tables, Cleared, Settled, SettLive, Booked, Linked, RowLive
    <3> QED
      BY <2>1, <3>1
  <2>3. PICK c \in Requesters :
          \/ CommitSettlement(c) \/ CommitReprice(c) \/ CommitNotes(c) \/ CommitSettDelete(c)
          \/ CommitDeleteGroup(c)
    <3>1. ASSUME NEW c \in Requesters
          PROVE  /\ ~Receives(c) /\ ~CloseSettlements(c)
                 /\ ~InsertSettlement(c) /\ ~RepriceSettlement(c) /\ ~HideSettRows(c) /\ ~SettAbort(c)
      BY <2>2 DEF Receives, ReceiveSettlement, ReceiveSettUpdate, ReceiveSettDelete, ReceiveClose,
                  SettReceive, CloseSettlements,
                  InsertSettlement, RepriceSettlement, HideSettRows, SettAbort
    <3>2. ~UpdateTransaction /\ ~DeleteTransaction /\ ~PurgeSettledRows /\ ~PurgeSettlements
          /\ ~UNCHANGED settVars
      BY DEF UpdateTransaction, DeleteTransaction, PurgeSettledRows, PurgeSettlements, settVars
    <3> QED
      BY <1>1, <3>1, <3>2 DEF SettNext, Receives
  <2>4. ~CommitDeleteGroup(c)
    <3>1. CommitDeleteGroup(c) => Cleared(u, v)' = 0
      BY <1>1, CloseClears
    <3> QED
      BY <2>1, <3>1
  <2> QED
    BY <1>1, <2>3, <2>4, CommitClears, OthersClear
<1>2. DebtInv /\ DebtInv' /\ [SettNext]_settVars => [Clears]_settVars
  BY <1>1
<1>3. DebtInv /\ [SettNext]_settVars => DebtInv'
  BY DebtStep
<1>4. SettInit => DebtInv
  BY DebtInit
<1> HIDE DEF Clears
<1>5. SettSpec => [][Clears]_settVars
  BY <1>2, <1>3, <1>4, PTL DEF SettSpec
<1> QED
  BY <1>5 DEF ClearsOnlyDebt, Clears

-----------------------------------------------------------------------------
(* Memberships.                                                            *)

-----------------------------------------------------------------------------
(* The invariant.                                                          *)

\* A row is a share or is booked by a settlement, never both.
RowsApart ==
  \A t \in RowIds : personal[t] # NoRow /\ personal[t].sett # None => personal[t].gt = None

\* An open transaction of a settlement keeps the accounts of its parties.
PartiesStay ==
  /\ \A q \in InFlight("insert") : {settling[q].from, settling[q].to} \subseteq accounts
  /\ \A q \in InFlight("reprice") :
       setts[settling[q].sett] # NoRow /\ Parties(settling[q].sett) \subseteq accounts

AccountsInv ==
  /\ OwnRowInv /\ SettTypeInv /\ MemTypeOK
  /\ RowsApart /\ PartiesStay /\ DeletedAccountsGone

-----------------------------------------------------------------------------
(* What the requests of the two components do to the rows.                 *)

\* Row t stays whose it was, and a share or a booked row as it was.
SameOwner(t) ==
  /\ personal[t] # NoRow /\ personal'[t].user = personal[t].user
  /\ personal'[t].gt = personal[t].gt /\ personal'[t].sett = personal[t].sett

\* A row is kept by its owner, or new and U's; so is a split that points at one.
RowsFor(U) ==
  /\ \A t \in RowIds : personal'[t] # NoRow =>
       \/ SameOwner(t)
       \/ /\ personal'[t].user \in U
          /\ personal'[t].sett = None \/ personal'[t].gt = None
  /\ \A g \in GtIds, u \in Users : Bound(g, u)' => Bound(g, u) \/ u \in U

\* Then what AccountsInv says of rows and splits is kept.
LEMMA RowsForAccounts ==
  ASSUME AccountsInv, RowsFor(accounts'), accounts' = accounts, members' = members
  PROVE  RowsApart' /\ DeletedAccountsGone'
BY DEF AccountsInv, RowsFor, SameOwner, RowsApart, DeletedAccountsGone

\* applySplitsInPlace makes rows for the users it names only.
LEMMA SplitsWrittenFor ==
  ASSUME AccountsInv, NEW c \in Clients, SplitsWritten(c)
  PROVE  RowsFor(SplitUsers(pending[c].splits))
<1> DEFINE g == pending[c].gt
<1> DEFINE s == pending[c].splits
<1> DEFINE m == gts'[g].meta
<1>1. PICK fresh : SplitsApplied(g, s, m, fresh)
  BY DEF SplitsWritten
<1>2. /\ g \in GtIds /\ s \in SplitLists /\ ~SplitsFail(g, s) /\ gts'[g] \in GtRow
      /\ TablesTypeOK /\ SplitsPointAtOwnRow
  BY DEF SplitsWritten, AccountsInv, OwnRowInv, GtTypeOK
<1>3. m \in Metas
  BY <1>2 DEF GtRow
<1>4. NoRow \notin PersonalRow /\ NoRow \notin SplitRow
  BY StateAssumptions
<1> HIDE DEF g, s, m
<1>5. ASSUME NEW t \in RowIds, personal'[t] # NoRow
      PROVE  \/ SameOwner(t)
             \/ personal'[t].user \in SplitUsers(s) /\ personal'[t].sett = None
  <2>1. CASE \E i \in Inserted(g, s) : fresh[i] = t
    <3>1. PICK i \in Inserted(g, s) : fresh[i] = t
      BY <2>1
    <3>2. personal'[t] = InsertedRow(g, s[i], m) /\ i \in DOMAIN s
      BY <1>1, <3>1 DEF SplitsApplied, Inserted
    <3> QED
      BY <3>2 DEF InsertedRow, SplitUsers
  <2>2. CASE \E u \in Users : PointsAt(g, u, t)
    <3>1. PICK u \in Users : PointsAt(g, u, t)
      BY <2>2
    <3>2. /\ Bound(g, u) /\ splits[g][u].row = t
          /\ personal[t] \in PersonalRow
      BY <1>2, <3>1 DEF PointsAt, Bound, SplitsPointAtOwnRow, TablesTypeOK
    <3>3. \/ personal'[t] = UpdatedPersonal(personal[t], s[LastEntry(s, u)].amt, m)
          \/ personal'[t] = [personal[t] EXCEPT !.deleted = TRUE]
      BY <1>1, <3>2 DEF SplitsApplied
    <3> QED
      BY <1>4, <3>2, <3>3 DEF UpdatedPersonal, PersonalRow, SameOwner
  <2>3. CASE /\ \A i \in Inserted(g, s) : fresh[i] # t
             /\ \A u \in Users : ~PointsAt(g, u, t)
    BY <1>1, <1>5, <2>3 DEF SplitsApplied, SameOwner
  <2> QED
    BY <2>1, <2>2, <2>3
<1>6. ASSUME NEW h \in GtIds, NEW u \in Users, Bound(h, u)'
      PROVE  Bound(h, u) \/ u \in SplitUsers(s)
  <2>1. splits' = [splits EXCEPT ![g] = SplitsAfter(g, s, fresh)]
    BY <1>1 DEF SplitsApplied
  <2>2. splits \in [GtIds -> [Users -> SplitRow \cup {NoRow}]]
    BY <1>2 DEF TablesTypeOK
  <2>3. CASE h # g
    BY <1>6, <2>1, <2>2, <2>3 DEF Bound, HasSplit
  <2>4. CASE h = g
    <3>1. splits'[h] = SplitsAfter(g, s, fresh)
      BY <1>2, <2>1, <2>2, <2>4
    <3>2. u \notin SplitUsers(s) => splits'[h][u] = NoRow
      BY <3>1 DEF SplitsAfter
    <3> QED
      BY <1>6, <3>2 DEF Bound, HasSplit
  <2> QED
    BY <2>3, <2>4
<1> QED
  BY <1>5, <1>6 DEF RowsFor, s

\* A step of a group-transaction request, without what GroupMembership adds.
GtRequestStep(c) ==
  \/ ReceiveCreate(c) \/ ReceiveUpdate(c) \/ ReceiveDelete(c) \/ HideRows(c) \/ Abort(c)
  \/ CommitCreate(c) /\ CreateAllowed(pending[c])
  \/ CommitUpdate(c) /\ UpdateAllowed(pending[c])
  \/ CommitDelete(c)

LEMMA GtStepIs ==
  ASSUME GtStep
  PROVE  Watched /\ UNCHANGED settling /\ \E c \in Clients : GtRequestStep(c)
BY DEF GtStep, GtRequestStep

LEMMA GtStepIsNext ==
  ASSUME NEW c \in Clients, GtRequestStep(c)
  PROVE  GtNext
BY DEF GtRequestStep, GtNext

LEMMA GtRowsFor ==
  ASSUME AccountsInv, NEW c \in Clients, GtRequestStep(c)
  PROVE  RowsFor(accounts) /\ UNCHANGED <<members, groupDeleted, setts>>
<1>1. CASE CommitCreate(c) /\ CreateAllowed(pending[c])
  <2>1. SplitsWritten(c)
    BY <1>1, CreateWrites DEF AccountsInv
  <2>2. SplitUsers(pending[c].splits) \subseteq accounts
    BY <1>1 DEF CreateAllowed
  <2> QED
    BY <2>1, <2>2, SplitsWrittenFor DEF RowsFor, SplitsWritten
<1>2. CASE CommitUpdate(c) /\ UpdateAllowed(pending[c]) /\ pending[c].splits # <<>>
  <2>1. SplitsWritten(c)
    BY <1>2, UpdateWrites DEF AccountsInv
  <2>2. SplitUsers(pending[c].splits) \subseteq accounts
    BY <1>2 DEF UpdateAllowed
  <2> QED
    BY <2>1, <2>2, SplitsWrittenFor DEF RowsFor, SplitsWritten
<1>3. personal \in [RowIds -> PersonalRow \cup {NoRow}] /\ NoRow \notin PersonalRow
  BY StateAssumptions DEF AccountsInv, OwnRowInv, GtTypeOK, TablesTypeOK
<1>4. CASE CommitUpdate(c) /\ pending[c].splits = <<>>
  <2>1. /\ SyncPersonal(pending[c].gt, pending[c].meta)
        /\ UNCHANGED <<splits, members, groupDeleted, setts>>
    BY <1>4 DEF CommitUpdate
  <2>2. \A t \in RowIds : personal'[t] # NoRow => SameOwner(t)
    BY <1>3, <2>1 DEF SyncPersonal, SameOwner, PersonalRow, RowLive
  <2> QED
    BY <2>1, <2>2 DEF RowsFor, Bound, HasSplit
<1>5. CASE CommitDelete(c)
  <2>1. /\ personal' = [t \in RowIds |-> HiddenRow(pending[c], t)]
        /\ UNCHANGED <<splits, members, groupDeleted, setts>>
    BY <1>5 DEF CommitDelete
  <2>2. \A t \in RowIds : personal'[t] # NoRow => SameOwner(t)
    BY <1>3, <2>1 DEF HiddenRow, SameOwner, PersonalRow
  <2> QED
    BY <2>1, <2>2 DEF RowsFor, Bound, HasSplit
<1>6. CASE UNCHANGED tables
  BY <1>6 DEF tables, RowsFor, SameOwner, Bound, HasSplit
<1>7. CASE ReceiveCreate(c) \/ ReceiveUpdate(c) \/ ReceiveDelete(c) \/ HideRows(c) \/ Abort(c)
  <2>1. UNCHANGED tables
    BY <1>7, ReceiveKeepsOwnRow DEF AccountsInv, LooksOnly, Abort
  <2> QED
    BY <1>6, <2>1
<1> QED
  BY <1>1, <1>2, <1>4, <1>5, <1>7 DEF GtRequestStep

\* A step of a settlement request.
SettRequestStep(c) ==
  \/ ReceiveSettlement(c) \/ ReceiveSettUpdate(c) \/ ReceiveSettDelete(c)
  \/ HideSettRows(c) \/ SettAbort(c)
  \/ /\ InsertSettlement(c)
     /\ ~GroupLocked /\ {settling[c].from, settling[c].to} \subseteq accounts
  \/ CommitSettlement(c)
  \/ RepriceSettlement(c) /\ Parties(settling[c].sett) \subseteq accounts
  \/ CommitReprice(c) /\ (settling[c].excess > 0 => ~GroupLocked)
  \/ CommitNotes(c) \/ CommitSettDelete(c)

LEMMA SettStepIs ==
  ASSUME SettStep
  PROVE  Watched /\ UNCHANGED <<pending, purging>> /\ \E c \in Requesters : SettRequestStep(c)
BY DEF SettStep, SettRequestStep

LEMMA SettStepIsNext ==
  ASSUME NEW c \in Requesters, SettRequestStep(c)
  PROVE  SettNext
BY DEF SettRequestStep, SettNext

\* A row that no settlement has booked stays as it is; a row of one goes, or stays the
\* same user's and hidden if it was; a new row is a booked one, of a user in U.
BookedFor(U) ==
  \A t \in RowIds :
    \/ personal'[t] = personal[t]
    \/ /\ personal[t] # NoRow /\ personal[t].sett # None
       /\ \/ personal'[t] = NoRow
          \/ SameOwner(t) /\ (personal[t].deleted => personal'[t].deleted)
    \/ personal[t] = NoRow /\ personal'[t].user \in U /\ personal'[t].gt = None

LEMMA BookExcessFor ==
  ASSUME NEW x \in SettIds, NEW from, NEW to, NEW n, NEW m, BookExcess(x, from, to, n, m),
         personal \in [RowIds -> PersonalRow \cup {NoRow}]
  PROVE  BookedFor({from, to})
<1> DEFINE kept == [t \in RowIds |-> IF t \in Linked(x) THEN NoRow ELSE personal[t]]
<1>1. \A t \in Linked(x) : personal[t] # NoRow /\ personal[t].sett # None
  BY StateAssumptions DEF Linked
<1>2. CASE personal' = kept
  <2>1. \A t \in RowIds : personal'[t] = IF t \in Linked(x) THEN NoRow ELSE personal[t]
    BY <1>2
  <2> QED
    BY <1>1, <2>1 DEF BookedFor
<1>3. ASSUME NEW i \in UnusedSettRows, NEW e \in UnusedSettRows, i # e,
             personal' = [kept EXCEPT ![i] = SettIncome(x, to, n, m),
                                      ![e] = SettExpense(x, from, n, m)]
      PROVE  BookedFor({from, to})
  <2>1. i \in RowIds /\ e \in RowIds /\ personal[i] = NoRow /\ personal[e] = NoRow
    BY DEF UnusedSettRows
  <2> DEFINE inc == SettIncome(x, to, n, m)
  <2> DEFINE exp == SettExpense(x, from, n, m)
  <2>2. inc.user = to /\ inc.gt = None /\ exp.user = from /\ exp.gt = None
    BY DEF SettIncome, SettExpense
  <2>3. personal' = [kept EXCEPT ![i] = inc, ![e] = exp]
    BY <1>3
  <2> HIDE DEF inc, exp
  <2>4. personal'[i] = inc /\ personal'[e] = exp
    BY <1>3, <2>1, <2>3
  <2>5. \A t \in RowIds \ {i, e} :
          personal'[t] = IF t \in Linked(x) THEN NoRow ELSE personal[t]
    BY <2>3
  <2> QED
    BY <1>1, <2>1, <2>2, <2>4, <2>5 DEF BookedFor
<1> QED
  BY <1>2, <1>3 DEF BookExcess

LEMMA SettRowsFor ==
  ASSUME AccountsInv, NEW c \in Requesters, SettRequestStep(c)
  PROVE  BookedFor(accounts) /\ UNCHANGED <<clock, members, groupDeleted, gts, splits>>
<1> DEFINE r == settling[c]
<1>1. personal \in [RowIds -> PersonalRow \cup {NoRow}] /\ SettTypeInv /\ SettTypeOK
  BY DEF AccountsInv, SettTypeInv, SettTypeOK, TablesTypeOK
<1>2. \A x, t : t \in Linked(x) => x = personal[t].sett /\ personal[t] # NoRow
  BY DEF Linked
<1>3. NoRow \notin PersonalRow /\ \A x \in SettIds : x # None
  BY StateAssumptions
<1>4. CASE CommitSettlement(c)
  <2>1. c \in InFlight("insert") /\ r.sett \in SettIds
    BY <1>1, <1>4, CommitWrites DEF CommitSettlement
  <2>2. {r.from, r.to} \subseteq accounts
    BY <2>1 DEF AccountsInv, PartiesStay
  <2>3. BookedFor({r.from, r.to})
    BY <1>1, <1>4, <2>1, BookExcessFor DEF CommitSettlement
  <2> QED
    BY <1>4, <2>2, <2>3 DEF CommitSettlement, BookedFor
<1>5. CASE CommitReprice(c)
  <2>1. c \in InFlight("reprice") /\ r.sett \in SettIds
    BY <1>1, <1>5, CommitWrites DEF CommitReprice
  <2>2. {setts[r.sett].from, setts[r.sett].to} \subseteq accounts
    BY <2>1 DEF AccountsInv, PartiesStay, Parties
  <2>3. BookedFor({setts[r.sett].from, setts[r.sett].to})
    BY <1>1, <1>5, <2>1, BookExcessFor DEF CommitReprice
  <2> QED
    BY <1>5, <2>2, <2>3 DEF CommitReprice, BookedFor
<1>6. CASE CommitNotes(c)
  <2>1. r \in UpdateSettRequest
    BY <1>1, <1>6, RequestFields DEF CommitNotes
  <2>2. r.sett # None
    BY <1>3, <2>1 DEF UpdateSettRequest
  <2>3. \A t \in RowIds : personal'[t] =
          IF t \in Linked(r.sett) /\ RowLive(t) THEN [personal[t] EXCEPT !.meta = r.meta]
          ELSE personal[t]
    BY <1>6 DEF CommitNotes
  <2> QED
    BY <1>1, <1>2, <1>6, <2>2, <2>3 DEF CommitNotes, BookedFor, SameOwner, PersonalRow, RowLive
<1>7. CASE CommitSettDelete(c)
  <2>1. r \in HiddenSett
    BY <1>1, <1>7, RequestFields DEF CommitSettDelete
  <2>2. r.sett # None
    BY <1>3, <2>1 DEF HiddenSett
  <2>3. \A t \in RowIds : personal'[t] = HiddenSettRow(r, t)
    BY <1>7 DEF CommitSettDelete
  <2> QED
    BY <1>1, <1>2, <1>7, <2>2, <2>3
       DEF CommitSettDelete, BookedFor, SameOwner, PersonalRow, HiddenSettRow
<1>8. CASE UNCHANGED <<clock, tables>>
  BY <1>8 DEF tables, BookedFor
<1>9. CASE \/ ReceiveSettlement(c) \/ ReceiveSettUpdate(c) \/ ReceiveSettDelete(c)
           \/ HideSettRows(c) \/ SettAbort(c) \/ InsertSettlement(c) \/ RepriceSettlement(c)
  BY <1>8, <1>9 DEF ReceiveSettlement, ReceiveSettUpdate, ReceiveSettDelete, SettReceive,
                    HideSettRows, SettAbort, InsertSettlement, RepriceSettlement
<1> QED
  BY <1>4, <1>5, <1>6, <1>7, <1>9 DEF SettRequestStep

\* Every statement of a balance returns an integer.
LEMMA PartsInt ==
  ASSUME TablesTypeOK, NEW u \in Users, NEW n \in 1 .. 4
  PROVE  BalancePart(u, n) \in Int
<1>1. PaidBy(u) \in SUBSET LiveGts /\ LiveGts \in SUBSET GtIds
  BY DEF PaidBy, LiveGts
<1>2. /\ {x \in SettIds : SettLive(x) /\ setts[x].from = u} \in SUBSET {x \in SettIds : SettLive(x)}
      /\ {x \in SettIds : SettLive(x) /\ setts[x].to = u} \in SUBSET {x \in SettIds : SettLive(x)}
  OBVIOUS
<1> QED
  BY <1>1, <1>2, SumsOfRows DEF BalancePart, LiveGts

-----------------------------------------------------------------------------
(* AccountsInv is inductive.                                               *)

LEMMA AccountsInit == MemInit => AccountsInv
<1> SUFFICES ASSUME MemInit PROVE AccountsInv
  OBVIOUS
<1>1. TablesTypeOK /\ \A t \in RowIds : personal[t] = NoRow
  BY MemAssumptions DEF MemInit, TablesTypeOK
<1>2. \A g \in GtIds, u \in Users : ~HasSplit(g, u)
  BY DEF MemInit, HasSplit
<1>3. OwnRowInv /\ SettTypeInv
  BY <1>1, <1>2 DEF MemInit, OwnRowInv, GtTypeOK, SplitsPointAtOwnRow, SettTypeInv, SettTypeOK,
                    WithinPayment
<1>4. MemTypeOK
  BY <1>3 DEF MemInit, MemTypeOK, OwnRowInv, SettTypeInv
<1>5. PartiesStay
  BY DEF MemInit, PartiesStay, InFlight
<1> QED
  BY <1>1, <1>2, <1>3, <1>4, <1>5, MemAssumptions
     DEF MemInit, AccountsInv, RowsApart, DeletedAccountsGone, Bound

\* A request about membership has the fields of its kind.
LEMMA CallFields ==
  ASSUME MemTypeOK, NEW c \in Callers
  PROVE  /\ c \in Doing("add") => changing[c] \in AddRequest
         /\ c \in Doing("leave") \cup Doing("quit") => changing[c] \in DepartRequest
         /\ c \in Doing("close") => changing[c] \in CloseRequest
BY DEF MemTypeOK, MemRequest, Doing, AddRequest, CloseRequest, DepartRequest

\* What a write marks in the membership requests leaves them the requests they are.
LEMMA NotedTyped ==
  ASSUME MemTypeOK
  PROVE  /\ Noted \in [Callers -> MemRequest \cup {None}]
         /\ \A c \in Callers :
              \/ Noted[c] = changing[c]
              \/ /\ c \in Doing("leave") \cup Doing("quit")
                 /\ Noted[c] = [changing[c] EXCEPT !.moved = TRUE]
<1>1. \A c \in Callers :
        \/ Noted[c] = changing[c]
        \/ /\ c \in Doing("leave") \cup Doing("quit")
           /\ Noted[c] = [changing[c] EXCEPT !.moved = TRUE]
  BY DEF Noted
<1>2. Noted = [c \in Callers |-> Noted[c]]
  BY DEF Noted
<1>3. ASSUME NEW c \in Callers PROVE Noted[c] \in MemRequest \cup {None}
  <2>1. CASE Noted[c] = changing[c]
    BY <2>1 DEF MemTypeOK
  <2>2. CASE /\ c \in Doing("leave") \cup Doing("quit")
             /\ Noted[c] = [changing[c] EXCEPT !.moved = TRUE]
    <3>1. changing[c] \in DepartRequest
      BY <2>2, CallFields
    <3>2. Noted[c] \in DepartRequest
      BY <2>2, <3>1 DEF DepartRequest
    <3> QED
      BY <3>2 DEF MemRequest
  <2> QED
    BY <1>1, <2>1, <2>2
<1> QED
  BY <1>1, <1>2, <1>3

LEMMA NotedFields ==
  ASSUME MemTypeOK, NEW c \in Callers
  PROVE  /\ c \in Doing("leave") \cup Doing("quit") =>
              /\ Noted[c] \in DepartRequest /\ Noted[c].op = changing[c].op
              /\ Noted[c].user = changing[c].user /\ Noted[c].next = changing[c].next
              /\ Noted[c].sum = changing[c].sum
         /\ c \notin Doing("leave") \cup Doing("quit") => Noted[c] = changing[c]
<1>1. CASE c \in Doing("leave") \cup Doing("quit")
  <2>1. changing[c] \in DepartRequest
    BY <1>1, CallFields
  <2>2. Noted[c] = changing[c] \/ Noted[c] = [changing[c] EXCEPT !.moved = TRUE]
    BY NotedTyped
  <2> QED
    BY <1>1, <2>1, <2>2 DEF DepartRequest
<1>2. CASE c \notin Doing("leave") \cup Doing("quit")
  BY <1>2, NotedTyped
<1> QED
  BY <1>1, <1>2

LEMMA WatchedTyped ==
  ASSUME MemTypeOK, Watched, GtTypeOK', SettTypeOK'
  PROVE  MemTypeOK' /\ accounts' = accounts
BY NotedTyped DEF Watched, MemTypeOK

LEMMA GtStepKeepsAccounts ==
  ASSUME AccountsInv, GtStep
  PROVE  AccountsInv'
<1>1. PICK c \in Clients : GtRequestStep(c)
  BY GtStepIs
<1>2. Watched /\ UNCHANGED settling
  BY GtStepIs
<1>3. RowsFor(accounts) /\ UNCHANGED <<members, groupDeleted, setts>>
  BY <1>1, GtRowsFor
<1>4. OwnRowInv'
  BY <1>1, GtStepIsNext, OwnRowStep DEF AccountsInv
<1>5. SettTypeInv'
  BY <1>2, <1>4 DEF AccountsInv, OwnRowInv, GtTypeOK, SettTypeInv, SettTypeOK, WithinPayment
<1>6. MemTypeOK' /\ accounts' = accounts
  BY <1>2, <1>4, <1>5, WatchedTyped DEF AccountsInv, OwnRowInv, SettTypeInv
<1>7. RowsApart' /\ DeletedAccountsGone'
  BY <1>3, <1>6, RowsForAccounts
<1>8. PartiesStay'
  BY <1>2, <1>3, <1>6 DEF AccountsInv, PartiesStay, InFlight, Parties
<1> QED
  BY <1>4, <1>5, <1>6, <1>7, <1>8 DEF AccountsInv

\* A settlement request books no row that a split points at.
LEMMA BookedKeepsOwnRow ==
  ASSUME AccountsInv, BookedFor(accounts), TablesTypeOK',
         UNCHANGED <<gts, splits, pending, purging>>
  PROVE  OwnRowInv'
<1>1. GtTypeOK'
  BY DEF AccountsInv, OwnRowInv, GtTypeOK
<1>2. ASSUME NEW g \in GtIds, NEW u \in Users, HasSplit(g, u)', splits'[g][u].row # None
      PROVE  /\ gts'[g] # NoRow
             /\ LET row == personal'[splits'[g][u].row]
                IN  row # NoRow /\ row.user = u /\ row.gt = g
  <2> DEFINE t == splits[g][u].row
  <2>1. HasSplit(g, u) /\ t # None /\ splits'[g][u].row = t
    BY <1>2 DEF HasSplit
  <2>2. t \in RowIds
    BY <2>1 DEF AccountsInv, OwnRowInv, GtTypeOK, TablesTypeOK, HasSplit, SplitRow
  <2>3. /\ gts[g] # NoRow
        /\ personal[t] # NoRow /\ personal[t].user = u /\ personal[t].gt = g
    BY <2>1 DEF AccountsInv, OwnRowInv, SplitsPointAtOwnRow
  <2>4. personal[t].sett = None
    BY <2>2, <2>3, StateAssumptions DEF AccountsInv, RowsApart
  <2>5. personal'[t] = personal[t]
    BY <2>2, <2>3, <2>4 DEF BookedFor
  <2> HIDE DEF t
  <2> QED
    BY <2>1, <2>3, <2>5
<1>3. \A g \in GtIds, u \in Users : HasSplit(g, u)' => gts'[g] # NoRow
  BY DEF AccountsInv, OwnRowInv, SplitsPointAtOwnRow, HasSplit
<1>4. SplitsPointAtOwnRow'
  BY <1>2, <1>3 DEF SplitsPointAtOwnRow
<1> QED
  BY <1>1, <1>4 DEF OwnRowInv

\* A settlement keeps its parties; what is written for one that was not there names
\* accounts.
LEMMA PartiesKept ==
  ASSUME AccountsInv, NEW c \in Requesters, SettRequestStep(c)
  PROVE  \A x \in SettIds :
           \/ setts'[x] = setts[x]
           \/ /\ setts[x] # NoRow /\ setts'[x] # NoRow
              /\ setts'[x].from = setts[x].from /\ setts'[x].to = setts[x].to
           \/ setts'[x] # NoRow /\ {setts'[x].from, setts'[x].to} \subseteq accounts
<1> DEFINE r == settling[c]
<1>1. SettTypeOK /\ setts \in [SettIds -> SettRow \cup {NoRow}] /\ NoRow \notin SettRow
  BY StateAssumptions DEF AccountsInv, SettTypeInv, SettTypeOK, TablesTypeOK
<1>2. CASE CommitSettlement(c)
  <2>1. c \in InFlight("insert") /\ r \in InsertedSett
    BY <1>1, <1>2, RequestFields DEF CommitSettlement
  <2>2. {r.from, r.to} \subseteq accounts
    BY <2>1 DEF AccountsInv, PartiesStay
  <2> DEFINE row == [from |-> r.from, to |-> r.to, amt |-> Stored(r.amt), meta |-> r.meta,
                     deleted |-> FALSE]
  <2>3. setts' = [setts EXCEPT ![r.sett] = row]
    BY <1>2 DEF CommitSettlement
  <2>4. row \in SettRow
    <3>1. r.amt \in Nat /\ Stored(r.amt) > 0
      BY <2>1, AmountsNat DEF AccountsInv, SettTypeInv, WithinPayment, InFlight, InsertedSett
    <3>2. Stored(r.amt) \in Amount
      BY <3>1, StoredMonotone DEF Amount
    <3> QED
      BY <2>1, <3>2 DEF InsertedSett, SettRow
  <2>5. row.from = r.from /\ row.to = r.to
    OBVIOUS
  <2> HIDE DEF row
  <2> QED
    BY <1>1, <2>2, <2>3, <2>4, <2>5
<1>3. ASSUME setts[r.sett] # NoRow, setts' = [setts EXCEPT ![r.sett] = UpdatedSett(r)],
             UpdatedSett(r) \in SettRow
      PROVE  \A x \in SettIds :
               \/ setts'[x] = setts[x]
               \/ /\ setts[x] # NoRow /\ setts'[x] # NoRow
                  /\ setts'[x].from = setts[x].from /\ setts'[x].to = setts[x].to
  <2> SUFFICES ASSUME NEW x \in SettIds, x = r.sett
               PROVE  /\ setts[x] # NoRow /\ setts'[x] # NoRow
                      /\ setts'[x].from = setts[x].from /\ setts'[x].to = setts[x].to
    BY <1>1, <1>3
  <2>1. setts'[x] = UpdatedSett(r) /\ setts[x] \in SettRow
    BY <1>1, <1>3
  <2>2. UpdatedSett(r).from = setts[x].from /\ UpdatedSett(r).to = setts[x].to
    BY <2>1 DEF UpdatedSett, SettRow
  <2> QED
    BY <1>1, <1>3, <2>1, <2>2
<1>4. CASE CommitReprice(c)
  <2>1. PICK row \in SettRow : setts' = [setts EXCEPT ![r.sett] = row] /\ r.sett \in SettIds
    BY <1>4, CommitWrites DEF CommitsSett, AccountsInv
  <2>2. setts[r.sett] # NoRow /\ setts' = [setts EXCEPT ![r.sett] = UpdatedSett(r)]
    BY <1>4 DEF CommitReprice
  <2>3. setts'[r.sett] = row /\ setts'[r.sett] = UpdatedSett(r)
    BY <1>1, <2>1, <2>2
  <2> QED
    BY <1>3, <2>2, <2>3
<1>7. CASE CommitNotes(c)
  <2>1. /\ setts[r.sett] # NoRow /\ setts' = [setts EXCEPT ![r.sett] = UpdatedSett(r)]
        /\ c \in InFlight("update") /\ r.amt = None
    BY <1>7 DEF CommitNotes
  <2>2. r \in UpdateSettRequest
    BY <1>1, <2>1, RequestFields
  <2>3. r.sett \in SettIds /\ r.meta \in Metas \cup {None}
    BY <2>2 DEF UpdateSettRequest
  <2>4. UpdatedSett(r) \in SettRow
    BY <1>1, <2>1, <2>3, UpdatedSettType
  <2> QED
    BY <1>3, <2>1, <2>4
<1>5. CASE CommitSettDelete(c)
  BY <1>1, <1>5 DEF CommitSettDelete, SettRow
<1>6. CASE UNCHANGED tables
  BY <1>6 DEF tables
<1> QED
  BY <1>2, <1>4, <1>5, <1>6, <1>7
     DEF SettRequestStep, ReceiveSettlement, ReceiveSettUpdate, ReceiveSettDelete, SettReceive,
         HideSettRows, SettAbort, InsertSettlement, RepriceSettlement

LEMMA SettStepKeepsParties ==
  ASSUME AccountsInv, NEW c \in Requesters, SettRequestStep(c), accounts' = accounts,
         SettTypeInv'
  PROVE  PartiesStay'
<1> DEFINE r == settling[c]
<1>1. SettTypeOK /\ SettTypeOK'
  BY DEF AccountsInv, SettTypeInv
<1>2. \E v : settling' = [settling EXCEPT ![c] = v]
  BY DEF SettRequestStep, ReceiveSettlement, ReceiveSettUpdate, ReceiveSettDelete, SettReceive,
         HideSettRows, SettAbort, InsertSettlement, RepriceSettlement, CommitSettlement,
         CommitReprice, CommitNotes, CommitSettDelete, SettFinish
<1>3. ASSUME c \in InFlight("insert")'
      PROVE  {settling'[c].from, settling'[c].to} \subseteq accounts
  <2>1. CASE InsertSettlement(c) /\ {r.from, r.to} \subseteq accounts
    <3>1. settling'[c].from = r.from /\ settling'[c].to = r.to
      BY <1>1, <2>1 DEF InsertSettlement, SettTypeOK
    <3> QED
      BY <2>1, <3>1
  <2>2. CASE ReceiveSettlement(c) \/ ReceiveSettUpdate(c) \/ ReceiveSettDelete(c)
    <3>1. \E q : q.op # "insert" /\ settling' = [settling EXCEPT ![c] = q]
      BY <2>2, ReceivedRequest DEF AccountsInv, SettReceive, Receives, Received
    <3> QED
      BY <1>1, <1>3, <3>1 DEF SettTypeOK, InFlight
  <2>3. CASE \/ HideSettRows(c) \/ SettAbort(c) \/ RepriceSettlement(c) \/ CommitSettlement(c)
             \/ CommitReprice(c) \/ CommitNotes(c) \/ CommitSettDelete(c)
    BY <1>1, <1>3, <2>3 DEF SettTypeOK, InFlight, HideSettRows, SettAbort, RepriceSettlement,
       CommitSettlement, CommitReprice, CommitNotes, CommitSettDelete, SettFinish
  <2> QED
    BY <2>1, <2>2, <2>3 DEF SettRequestStep
<1>4. ASSUME c \in InFlight("reprice")'
      PROVE  LET y == setts'[settling'[c].sett]
             IN  y # NoRow /\ {y.from, y.to} \subseteq accounts
  <2>1. CASE RepriceSettlement(c) /\ Parties(r.sett) \subseteq accounts
    <3>1. settling'[c].sett = r.sett /\ setts[r.sett] # NoRow /\ setts' = setts
      BY <1>1, <2>1 DEF RepriceSettlement, SettTypeOK, tables
    <3> QED
      BY <2>1, <3>1 DEF Parties
  <2>2. CASE ReceiveSettlement(c) \/ ReceiveSettUpdate(c) \/ ReceiveSettDelete(c)
    <3>1. \E q : q.op # "reprice" /\ settling' = [settling EXCEPT ![c] = q]
      BY <2>2, ReceivedRequest DEF AccountsInv, SettReceive, Receives, Received
    <3> QED
      BY <1>1, <1>4, <3>1 DEF SettTypeOK, InFlight
  <2>3. CASE \/ HideSettRows(c) \/ SettAbort(c) \/ InsertSettlement(c) \/ CommitSettlement(c)
             \/ CommitReprice(c) \/ CommitNotes(c) \/ CommitSettDelete(c)
    BY <1>1, <1>4, <2>3 DEF SettTypeOK, InFlight, HideSettRows, SettAbort, InsertSettlement,
       CommitSettlement, CommitReprice, CommitNotes, CommitSettDelete, SettFinish
  <2> QED
    BY <2>1, <2>2, <2>3 DEF SettRequestStep
<1>5. ASSUME NEW q \in Requesters, q # c, q \in InFlight("insert")'
      PROVE  {settling'[q].from, settling'[q].to} \subseteq accounts
  <2>1. q \in InFlight("insert") /\ settling'[q] = settling[q]
    BY <1>1, <1>2, <1>5 DEF InFlight, SettTypeOK
  <2> QED
    BY <2>1 DEF AccountsInv, PartiesStay
<1>6. ASSUME NEW q \in Requesters, q # c, q \in InFlight("reprice")'
      PROVE  LET y == setts'[settling'[q].sett]
             IN  y # NoRow /\ {y.from, y.to} \subseteq accounts
  <2> DEFINE x == settling[q].sett
  <2>1. q \in InFlight("reprice") /\ settling'[q] = settling[q]
    BY <1>1, <1>2, <1>6 DEF InFlight, SettTypeOK
  <2>2. x \in SettIds
    BY <1>1, <2>1, RequestFields DEF RepricedSett
  <2>3. setts[x] # NoRow /\ setts[x].from \in accounts /\ setts[x].to \in accounts
    BY <2>1 DEF AccountsInv, PartiesStay, Parties
  <2>4. setts'[x] # NoRow /\ setts'[x].from \in accounts /\ setts'[x].to \in accounts
    BY <2>2, <2>3, PartiesKept
  <2> QED
    BY <2>1, <2>4
<1>7. \A op : \A q \in InFlight(op)' : q \in Requesters
  BY DEF InFlight
<1> QED
  BY <1>3, <1>4, <1>5, <1>6, <1>7 DEF PartiesStay, Parties

LEMMA SettStepKeepsAccounts ==
  ASSUME AccountsInv, SettStep
  PROVE  AccountsInv'
<1>1. PICK c \in Requesters : SettRequestStep(c)
  BY SettStepIs
<1>2. Watched /\ UNCHANGED <<pending, purging>>
  BY SettStepIs
<1>3. BookedFor(accounts) /\ UNCHANGED <<clock, members, groupDeleted, gts, splits>>
  BY <1>1, SettRowsFor
<1>4. SettTypeInv'
  BY <1>1, SettStepIsNext, SettTypeStep DEF AccountsInv
<1>5. OwnRowInv'
  BY <1>2, <1>3, <1>4, BookedKeepsOwnRow DEF SettTypeInv, SettTypeOK
<1>6. MemTypeOK' /\ accounts' = accounts
  BY <1>2, <1>4, <1>5, WatchedTyped DEF AccountsInv, OwnRowInv, SettTypeInv
<1>7. RowsFor(accounts)
  BY <1>3 DEF BookedFor, RowsFor, SameOwner, Bound, HasSplit
<1>8. RowsApart' /\ DeletedAccountsGone'
  BY <1>3, <1>6, <1>7, RowsForAccounts
<1>9. PartiesStay'
  BY <1>1, <1>4, <1>6, SettStepKeepsParties
<1> QED
  BY <1>4, <1>5, <1>6, <1>8, <1>9 DEF AccountsInv

\* A request about membership that goes on, or is answered.
LEMMA CallTyped ==
  ASSUME MemTypeOK, NEW c \in Callers, NEW r \in MemRequest \cup {None},
         changing' = [changing EXCEPT ![c] = r],
         GtTypeOK', SettTypeOK', accounts' \subseteq Users
  PROVE  MemTypeOK'
BY DEF MemTypeOK

\* A statement of the group's deletion remembers what it has updated.
LEMMA CloseGoesOn ==
  ASSUME NEW r \in CloseRequest, NEW n \in 2 .. 4
  PROVE  /\ \A G \in SUBSET GtIds : [r EXCEPT !.next = n, !.gts = G] \in CloseRequest
         /\ \A X \in SUBSET SettIds : [r EXCEPT !.next = n, !.setts = X] \in CloseRequest
<1> DEFINE SG == SUBSET GtIds
           SX == SUBSET SettIds
           SR == SUBSET RowIds
<1>1. CloseRequest = [op: {"close"}, next: 2 .. 4, rows: SR, gts: SG, setts: SX, stamp: Nat]
  BY DEF CloseRequest
<1> HIDE DEF SG, SX, SR
<1>2. \A G \in SG : [r EXCEPT !.next = n, !.gts = G] \in CloseRequest
  BY <1>1
<1>3. \A X \in SX : [r EXCEPT !.next = n, !.setts = X] \in CloseRequest
  BY <1>1
<1> QED
  BY <1>2, <1>3 DEF SG, SX

\* The steps of a request about membership but the commit of the group's deletion.
CallStep(c) ==
  \/ ReceiveAdd(c) \/ CommitAdd(c)
  \/ ReceiveLeave(c) \/ LockGroup(c) \/ Depart(c)
  \/ ReceiveQuit(c) \/ ReadBalance(c) \/ DeleteAccount(c)
  \/ CloseGroup(c) \/ CloseGts(c) \/ CloseSetts(c)
  \/ MemAbort(c)

LEMMA CallStepIs ==
  ASSUME NEW c, MemStep(c)
  PROVE  CallStep(c) \/ CommitClose(c)
BY DEF MemStep, CallStep

\* Each of them leaves the request a request, or answers it.
LEMMA CallGoesOn ==
  ASSUME MemTypeOK, NEW c \in Callers, CallStep(c)
  PROVE  \E r \in MemRequest \cup {None} : changing' = [changing EXCEPT ![c] = r]
<1>1. /\ TablesTypeOK /\ accounts \subseteq Users /\ members \subseteq Users /\ clock \in Nat
      /\ changing \in [Callers -> MemRequest \cup {None}]
  BY DEF MemTypeOK, GtTypeOK, TablesTypeOK
<1>2. CASE ReceiveAdd(c)
  <2>1. PICK u \in Users : changing' = [changing EXCEPT ![c] = [op |-> "add", user |-> u]]
    BY <1>1, <1>2 DEF ReceiveAdd, MemReceive
  <2>2. [op |-> "add", user |-> u] \in MemRequest
    BY DEF MemRequest, AddRequest
  <2> QED
    BY <2>1, <2>2
<1>3. CASE ReceiveLeave(c)
  <2>1. PICK u \in members :
          MemReceive(c, [op |-> "leave", user |-> u, next |-> 0, sum |-> 0, moved |-> FALSE])
    BY <1>3 DEF ReceiveLeave
  <2> DEFINE r == [op |-> "leave", user |-> u, next |-> 0, sum |-> 0, moved |-> FALSE]
  <2>2. r \in MemRequest /\ changing' = [changing EXCEPT ![c] = r]
    BY <1>1, <2>1 DEF DepartRequest, MemRequest, MemReceive
  <2> QED
    BY <2>2
<1>4. CASE LockGroup(c)
  <2> DEFINE r == [changing[c] EXCEPT !.next = 1]
  <2>1. changing[c] \in DepartRequest
    BY <1>4, CallFields DEF LockGroup
  <2>2. r \in MemRequest /\ changing' = [changing EXCEPT ![c] = r]
    BY <1>4, <2>1 DEF LockGroup, DepartRequest, MemRequest
  <2> QED
    BY <2>2
<1>5. CASE ReceiveQuit(c)
  <2>1. PICK u \in accounts :
          LET reads == u \in members /\ ~groupDeleted
          IN  MemReceive(c, [op |-> "quit", user |-> u, next |-> IF reads THEN 1 ELSE 5,
                             sum |-> 0, moved |-> ~reads])
    BY <1>5 DEF ReceiveQuit
  <2> DEFINE reads == u \in members /\ ~groupDeleted
             r == [op |-> "quit", user |-> u, next |-> IF reads THEN 1 ELSE 5,
                   sum |-> 0, moved |-> ~reads]
  <2>2. r \in DepartRequest
    BY <1>1 DEF DepartRequest
  <2>3. changing' = [changing EXCEPT ![c] = r]
    BY <2>1 DEF MemReceive
  <2> QED
    BY <2>2, <2>3 DEF MemRequest
<1>6. CASE ReadBalance(c)
  <2> DEFINE n == changing[c].next
             s == changing[c].sum + BalancePart(changing[c].user, n)
             r == [changing[c] EXCEPT !.next = n + 1, !.sum = s]
  <2>1. changing[c] \in DepartRequest /\ n \in 1 .. 4
    BY <1>6, CallFields DEF ReadBalance
  <2>2. BalancePart(changing[c].user, n) \in Int
    BY <1>1, <2>1, PartsInt DEF DepartRequest
  <2>3. s \in Int /\ n + 1 \in 0 .. 5
    BY <2>1, <2>2 DEF DepartRequest
  <2>4. changing' = [changing EXCEPT ![c] = r]
    BY <1>1, <1>6 DEF ReadBalance
  <2> HIDE DEF n, s
  <2>5. r \in DepartRequest
    BY <2>1, <2>3 DEF DepartRequest
  <2> QED
    BY <2>4, <2>5 DEF MemRequest
<1>7. CASE CloseGroup(c)
  <2> DEFINE R == {t \in RowIds : personal[t] # NoRow /\ personal[t].gt # None}
             r == [op |-> "close", next |-> 2, gts |-> {}, setts |-> {}, stamp |-> clock,
                   rows |-> R]
             SG == SUBSET GtIds
             SX == SUBSET SettIds
             SR == SUBSET RowIds
  <2>1. changing' = [changing EXCEPT ![c] = r]
    BY <1>7 DEF CloseGroup, MemReceive
  <2>2. R \in SR /\ {} \in SG /\ {} \in SX
    OBVIOUS
  <2>3. CloseRequest = [op: {"close"}, next: 2 .. 4, rows: SR, gts: SG, setts: SX, stamp: Nat]
    BY DEF CloseRequest
  <2> HIDE DEF R, SG, SX, SR
  <2>4. r \in CloseRequest
    BY <1>1, <2>2, <2>3
  <2> QED
    BY <2>1, <2>4 DEF MemRequest
<1>8. CASE CloseGts(c)
  <2> DEFINE G == {g \in GtIds : gts[g] # NoRow}
             r == [changing[c] EXCEPT !.next = 3, !.gts = G]
  <2>1. changing[c] \in CloseRequest
    BY <1>8, CallFields DEF CloseGts
  <2>2. changing' = [changing EXCEPT ![c] = r]
    BY <1>1, <1>8 DEF CloseGts
  <2>3. r \in CloseRequest
    <3>1. G \in SUBSET GtIds /\ 3 \in 2 .. 4
      OBVIOUS
    <3> HIDE DEF G
    <3> QED
      BY <2>1, <3>1, CloseGoesOn
  <2> QED
    BY <2>2, <2>3 DEF MemRequest
<1>9. CASE CloseSetts(c)
  <2> DEFINE X == {x \in SettIds : setts[x] # NoRow}
             r == [changing[c] EXCEPT !.next = 4, !.setts = X]
  <2>1. changing[c] \in CloseRequest
    BY <1>9, CallFields DEF CloseSetts
  <2>2. changing' = [changing EXCEPT ![c] = r]
    BY <1>1, <1>9 DEF CloseSetts
  <2>3. r \in CloseRequest
    <3>1. X \in SUBSET SettIds /\ 4 \in 2 .. 4
      OBVIOUS
    <3> HIDE DEF X
    <3> QED
      BY <2>1, <3>1, CloseGoesOn
  <2> QED
    BY <2>2, <2>3 DEF MemRequest
<1>10. CASE CommitAdd(c) \/ Depart(c) \/ DeleteAccount(c) \/ MemAbort(c)
  BY <1>10 DEF CommitAdd, Depart, DeleteAccount, MemAbort, MemFinish
<1> QED
  BY <1>2, <1>3, <1>4, <1>5, <1>6, <1>7, <1>8, <1>9, <1>10 DEF CallStep

\* The steps of a request about membership that write no table.
LEMMA CallKeepsAccounts ==
  ASSUME AccountsInv, NEW c \in Callers,
         \/ ReceiveAdd(c) \/ ReceiveLeave(c) \/ LockGroup(c) \/ ReceiveQuit(c)
         \/ ReadBalance(c) \/ CloseGroup(c) \/ CloseGts(c) \/ CloseSetts(c) \/ MemAbort(c)
  PROVE  AccountsInv'
<1>1. UNCHANGED <<clock, tables, pending, purging, settling, accounts>>
  BY DEF ReceiveAdd, ReceiveLeave, LockGroup, ReceiveQuit, ReadBalance, CloseGroup, CloseGts,
         CloseSetts, MemAbort, MemReceive
<1>2. MemTypeOK /\ accounts \subseteq Users /\ members \subseteq Users /\ clock \in Nat
  BY DEF AccountsInv, MemTypeOK, OwnRowInv, GtTypeOK, TablesTypeOK
<1>3. OwnRowInv' /\ SettTypeInv'
  BY <1>1 DEF AccountsInv, OwnRowInv, GtTypeOK, TablesTypeOK, tables, SplitsPointAtOwnRow,
              HasSplit, SettTypeInv, SettTypeOK
<1>4. \E r \in MemRequest \cup {None} : changing' = [changing EXCEPT ![c] = r]
  BY CallGoesOn DEF AccountsInv, CallStep
<1>5. MemTypeOK'
  <2>1. GtTypeOK' /\ SettTypeOK' /\ accounts' \subseteq Users
    BY <1>1, <1>2, <1>3 DEF OwnRowInv, SettTypeInv
  <2> QED
    BY <1>2, <1>4, <2>1, CallTyped
<1> QED
  BY <1>1, <1>3, <1>5 DEF AccountsInv, tables, RowsApart, PartiesStay, InFlight, Parties,
                          DeletedAccountsGone, Bound, HasSplit

\* Who is added has an account.
LEMMA MembersKeepAccounts ==
  ASSUME AccountsInv, NEW c \in Callers, CommitAdd(c) \/ Depart(c)
  PROVE  AccountsInv'
<1>1. /\ UNCHANGED <<clock, groupDeleted, gts, splits, setts, personal, pending, purging,
                     settling, accounts>>
      /\ changing' = [changing EXCEPT ![c] = None]
      /\ members' \subseteq accounts
  BY DEF CommitAdd, Depart, MayAdd, MemFinish, AccountsInv, DeletedAccountsGone
<1>2. accounts \subseteq Users /\ MemTypeOK
  BY DEF AccountsInv, MemTypeOK
<1>3. OwnRowInv' /\ SettTypeInv'
  BY <1>1, <1>2 DEF AccountsInv, OwnRowInv, GtTypeOK, TablesTypeOK, SplitsPointAtOwnRow,
                    HasSplit, SettTypeInv, SettTypeOK
<1>4. MemTypeOK'
  BY <1>1, <1>2, <1>3, CallTyped DEF OwnRowInv, SettTypeInv
<1> QED
  BY <1>1, <1>3, <1>4 DEF AccountsInv, RowsApart, PartiesStay, InFlight, Parties,
                          DeletedAccountsGone, Bound, HasSplit

\* The deletion of an account takes its membership and rows, and the pointers at them.
LEMMA DeleteKeepsAccounts ==
  ASSUME AccountsInv, NEW c \in Callers, DeleteAccount(c)
  PROVE  AccountsInv'
<1> DEFINE u == changing[c].user
<1>1. /\ \A q \in Requesters : settling[q] # None => ~HoldsUser(settling[q], u)
      /\ accounts' = accounts \ {u} /\ members' = members \ {u}
      /\ personal' = RowsWithout(u)
      /\ splits' = [g \in GtIds |-> [v \in Users |->
                      IF v = u /\ Bound(g, u) THEN [splits[g][u] EXCEPT !.row = None]
                      ELSE splits[g][v]]]
      /\ changing' = [changing EXCEPT ![c] = None]
      /\ UNCHANGED <<clock, groupDeleted, gts, setts, pending, purging, settling>>
  BY DEF DeleteAccount, MemFinish
<1> HIDE DEF u
<1>2. /\ MemTypeOK /\ accounts \subseteq Users /\ OwnRowInv /\ SettTypeInv /\ TablesTypeOK
      /\ NoRow \notin SplitRow /\ NoRow \notin PersonalRow
  BY StateAssumptions DEF AccountsInv, MemTypeOK, OwnRowInv, GtTypeOK
<1>3. \A t \in RowIds : personal'[t] =
        IF personal[t] # NoRow /\ personal[t].user = u THEN NoRow ELSE personal[t]
  BY <1>1 DEF RowsWithout
<1>4. \A g \in GtIds, v \in Users :
        /\ splits'[g][v] = IF v = u /\ Bound(g, u) THEN [splits[g][u] EXCEPT !.row = None]
                           ELSE splits[g][v]
        /\ splits'[g][v] \in SplitRow \cup {NoRow}
        /\ HasSplit(g, v)' => HasSplit(g, v)
        /\ Bound(g, v)' => v # u /\ Bound(g, v) /\ splits'[g][v] = splits[g][v]
  <2> SUFFICES ASSUME NEW g \in GtIds, NEW v \in Users
               PROVE  /\ splits'[g][v] = IF v = u /\ Bound(g, u)
                                         THEN [splits[g][u] EXCEPT !.row = None]
                                         ELSE splits[g][v]
                      /\ splits'[g][v] \in SplitRow \cup {NoRow}
                      /\ HasSplit(g, v)' => HasSplit(g, v)
                      /\ Bound(g, v)' => v # u /\ Bound(g, v) /\ splits'[g][v] = splits[g][v]
    OBVIOUS
  <2>1. splits'[g][v] = IF v = u /\ Bound(g, u) THEN [splits[g][u] EXCEPT !.row = None]
                        ELSE splits[g][v]
    BY <1>1
  <2>2. splits[g][v] \in SplitRow \cup {NoRow}
    BY <1>2 DEF TablesTypeOK
  <2> QED
    BY <2>1, <2>2, <1>2 DEF HasSplit, Bound, SplitRow
<1>5. TablesTypeOK'
  <2>1. splits' \in [GtIds -> [Users -> SplitRow \cup {NoRow}]]
    BY <1>1, <1>4
  <2>2. personal' \in [RowIds -> PersonalRow \cup {NoRow}]
    BY <1>1, <1>2 DEF RowsWithout, TablesTypeOK
  <2> QED
    BY <1>1, <1>2, <2>1, <2>2 DEF TablesTypeOK
<1>6. SplitsPointAtOwnRow'
  <2>1. ASSUME NEW g \in GtIds, NEW v \in Users, HasSplit(g, v)'
        PROVE  gts'[g] # NoRow
    BY <1>1, <1>2, <1>4, <2>1 DEF OwnRowInv, SplitsPointAtOwnRow
  <2>2. ASSUME NEW g \in GtIds, NEW v \in Users, HasSplit(g, v)', splits'[g][v].row # None
        PROVE  LET row == personal'[splits'[g][v].row]
               IN  row # NoRow /\ row.user = v /\ row.gt = g
    <3>1. v # u /\ Bound(g, v) /\ splits'[g][v] = splits[g][v]
      BY <1>4, <2>2 DEF Bound
    <3> DEFINE t == splits[g][v].row
    <3>2. t \in RowIds /\ personal[t] # NoRow /\ personal[t].user = v /\ personal[t].gt = g
      BY <1>2, <3>1 DEF OwnRowInv, SplitsPointAtOwnRow, Bound, TablesTypeOK, HasSplit, SplitRow
    <3>3. personal'[t] = personal[t]
      BY <1>3, <3>1, <3>2
    <3> HIDE DEF t
    <3> QED
      BY <3>1, <3>2, <3>3 DEF t
  <2> QED
    BY <2>1, <2>2 DEF SplitsPointAtOwnRow
<1>7. OwnRowInv' /\ SettTypeInv'
  BY <1>1, <1>2, <1>5, <1>6 DEF OwnRowInv, GtTypeOK, SettTypeInv, SettTypeOK
<1>8. MemTypeOK'
  BY <1>1, <1>2, <1>7, CallTyped DEF OwnRowInv, SettTypeInv
<1>9. PartiesStay'
  BY <1>1 DEF AccountsInv, PartiesStay, InFlight, Parties, HoldsUser
<1>10. RowsApart' /\ DeletedAccountsGone'
  <2>1. RowsApart'
    BY <1>3 DEF AccountsInv, RowsApart
  <2>2. members' \subseteq accounts'
    BY <1>1 DEF AccountsInv, DeletedAccountsGone
  <2>3. \A t \in RowIds : personal'[t] # NoRow => personal'[t].user \in accounts'
    BY <1>1, <1>3 DEF AccountsInv, DeletedAccountsGone
  <2>4. ASSUME NEW g \in GtIds, NEW v \in Users \ accounts' PROVE ~Bound(g, v)'
    BY <1>1, <1>4 DEF AccountsInv, DeletedAccountsGone
  <2> QED
    BY <2>1, <2>2, <2>3, <2>4 DEF DeletedAccountsGone
<1> QED
  BY <1>7, <1>8, <1>9, <1>10 DEF AccountsInv

\* The deletion of the group hides rows and takes none away.
LEMMA CloseKeepsAccounts ==
  ASSUME AccountsInv, NEW c \in Callers, CommitClose(c)
  PROVE  AccountsInv'
<1>1. /\ groupDeleted' = TRUE
      /\ personal' = RowsClosed(changing[c].rows)
      /\ gts' = GtsClosed(changing[c].gts, changing[c].stamp)
      /\ setts' = SettsClosed(changing[c].setts)
      /\ changing' = [Noted EXCEPT ![c] = None]
      /\ UNCHANGED <<clock, members, splits, pending, purging, settling, accounts>>
      /\ c \in Doing("close")
  BY DEF CommitClose
<1>2. /\ MemTypeOK /\ accounts \subseteq Users /\ OwnRowInv /\ SettTypeInv /\ TablesTypeOK
      /\ NoRow \notin PersonalRow /\ NoRow \notin GtRow /\ NoRow \notin SettRow
  BY StateAssumptions DEF AccountsInv, MemTypeOK, OwnRowInv, GtTypeOK
<1>3. changing[c].stamp \in Nat
  BY <1>1, <1>2, CallFields DEF CloseRequest
<1>4. \A t \in RowIds :
        /\ personal[t] = NoRow => personal'[t] = NoRow
        /\ personal[t] # NoRow => SameOwner(t) /\ personal'[t] \in PersonalRow
  BY <1>1, <1>2 DEF RowsClosed, SameOwner, TablesTypeOK, PersonalRow
<1>5. gts' \in [GtIds -> GtRow \cup {NoRow}] /\ \A g \in GtIds : gts[g] # NoRow => gts'[g] # NoRow
  <2>1. ASSUME NEW g \in GtIds, gts[g] # NoRow PROVE gts'[g] \in GtRow
    <3>1. gts[g] \in GtRow
      BY <1>2, <2>1 DEF TablesTypeOK
    <3>2. \/ gts'[g] = gts[g]
          \/ gts'[g] = [gts[g] EXCEPT !.deleted = TRUE, !.stamp = changing[c].stamp]
      BY <1>1, <2>1 DEF GtsClosed
    <3> QED
      BY <1>3, <3>1, <3>2 DEF GtRow
  <2>2. \A g \in GtIds : gts[g] = NoRow => gts'[g] = NoRow
    BY <1>1 DEF GtsClosed
  <2>3. gts' = [g \in GtIds |-> gts'[g]]
    BY <1>1 DEF GtsClosed
  <2> QED
    BY <1>2, <2>1, <2>2, <2>3
<1>6. \A x \in SettIds :
        /\ setts[x] = NoRow => setts'[x] = NoRow
        /\ setts[x] # NoRow =>
             setts'[x] \in SettRow /\ setts'[x].from = setts[x].from /\ setts'[x].to = setts[x].to
  BY <1>1, <1>2 DEF SettsClosed, TablesTypeOK, SettRow
<1>7. TablesTypeOK'
  <2>1. setts' \in [SettIds -> SettRow \cup {NoRow}]
    <3>1. setts' = [x \in SettIds |-> setts'[x]]
      BY <1>1 DEF SettsClosed
    <3> QED
      BY <1>6, <3>1
  <2>2. personal' \in [RowIds -> PersonalRow \cup {NoRow}]
    <3>1. personal' = [t \in RowIds |-> personal'[t]]
      BY <1>1 DEF RowsClosed
    <3> QED
      BY <1>4, <3>1
  <2> QED
    BY <1>1, <1>2, <1>5, <2>1, <2>2 DEF TablesTypeOK
<1>8. SplitsPointAtOwnRow'
  <2>1. ASSUME NEW g \in GtIds, NEW v \in Users, HasSplit(g, v)'
        PROVE  gts'[g] # NoRow
    BY <1>1, <1>2, <1>5, <2>1 DEF OwnRowInv, SplitsPointAtOwnRow, HasSplit
  <2>2. ASSUME NEW g \in GtIds, NEW v \in Users, HasSplit(g, v)', splits'[g][v].row # None
        PROVE  LET row == personal'[splits'[g][v].row]
               IN  row # NoRow /\ row.user = v /\ row.gt = g
    <3> DEFINE t == splits[g][v].row
    <3>1. splits'[g][v].row = t /\ HasSplit(g, v) /\ t # None
      BY <1>1, <2>2 DEF HasSplit
    <3>2. t \in RowIds /\ personal[t] # NoRow /\ personal[t].user = v /\ personal[t].gt = g
      BY <1>2, <3>1 DEF OwnRowInv, SplitsPointAtOwnRow, TablesTypeOK, HasSplit, SplitRow
    <3>3. personal'[t] # NoRow /\ personal'[t].user = v /\ personal'[t].gt = g
      <4> HIDE DEF t
      <4> QED
        BY <1>2, <1>4, <3>2 DEF SameOwner
    <3> HIDE DEF t
    <3> QED
      BY <3>1, <3>3
  <2> QED
    BY <2>1, <2>2 DEF SplitsPointAtOwnRow
<1>9. OwnRowInv' /\ SettTypeInv'
  BY <1>1, <1>2, <1>7, <1>8 DEF OwnRowInv, GtTypeOK, SettTypeInv, SettTypeOK
<1>10. MemTypeOK'
  BY <1>1, <1>2, <1>9, NotedTyped DEF OwnRowInv, SettTypeInv, MemTypeOK
<1>11. PartiesStay'
  <2>1. \A q \in InFlight("insert")' : {settling'[q].from, settling'[q].to} \subseteq accounts'
    BY <1>1 DEF AccountsInv, PartiesStay, InFlight
  <2>2. ASSUME NEW q \in InFlight("reprice")'
        PROVE  LET y == setts'[settling'[q].sett]
               IN  y # NoRow /\ {y.from, y.to} \subseteq accounts'
    <3>1. q \in InFlight("reprice")
      BY <1>1 DEF InFlight
    <3>2. settling[q].sett \in SettIds
      BY <1>2, <3>1, RequestFields DEF RepricedSett, SettTypeInv
    <3> DEFINE x == settling[q].sett
    <3>3. setts[x] # NoRow /\ setts[x].from \in accounts /\ setts[x].to \in accounts
      BY <3>1 DEF AccountsInv, PartiesStay, Parties
    <3>4. setts'[x] # NoRow /\ setts'[x].from \in accounts /\ setts'[x].to \in accounts
      BY <1>2, <1>6, <3>2, <3>3
    <3> QED
      BY <1>1, <3>4
  <2> QED
    BY <2>1, <2>2 DEF PartiesStay, Parties
<1>12. RowsFor(accounts')
  BY <1>1, <1>4 DEF RowsFor, Bound, HasSplit
<1>13. RowsApart' /\ DeletedAccountsGone'
  BY <1>1, <1>12, RowsForAccounts
<1> QED
  BY <1>9, <1>10, <1>11, <1>13 DEF AccountsInv

LEMMA AccountsStep == AccountsInv /\ [MemNext]_memVars => AccountsInv'
<1> SUFFICES ASSUME AccountsInv, [MemNext]_memVars PROVE AccountsInv'
  OBVIOUS
<1>1. CASE GtStep
  BY <1>1, GtStepKeepsAccounts
<1>2. CASE SettStep
  BY <1>2, SettStepKeepsAccounts
<1>3. ASSUME NEW c \in Callers, MemStep(c) PROVE AccountsInv'
  BY <1>3, CallKeepsAccounts, MembersKeepAccounts, DeleteKeepsAccounts, CloseKeepsAccounts
     DEF MemStep
<1>4. CASE UNCHANGED memVars
  <2>1. OwnRowInv' /\ SettTypeInv'
    BY <1>4 DEF memVars, AccountsInv, OwnRowInv, GtTypeOK, TablesTypeOK, tables,
                SplitsPointAtOwnRow, HasSplit, SettTypeInv, SettTypeOK
  <2> QED
    BY <1>4, <2>1 DEF memVars, tables, AccountsInv, MemTypeOK, OwnRowInv, SettTypeInv, RowsApart,
                      PartiesStay, InFlight, Parties, DeletedAccountsGone, Bound, HasSplit
<1> QED
  BY <1>1, <1>2, <1>3, <1>4 DEF MemNext

\* Whatever was checked before an account was deleted and is committed after it, the
\* deleted account is in no group and owns no row, and no split points at one for it:
\* DELETE FROM users in DeleteMe against the foreign keys of the other handlers.
THEOREM AccountsGone == MemSpec => []MemInv
<1>1. AccountsInv => MemInv
  BY DEF AccountsInv, MemInv
<1> QED
  BY <1>1, AccountsInit, AccountsStep, PTL DEF MemSpec

-----------------------------------------------------------------------------
(* What a deleted group shows.                                             *)

\* A request about membership that is no deletion of the group leaves what is live as
\* it is; a row that shows a share is not made by it.
LEMMA CallRevivesNothing ==
  ASSUME AccountsInv, NEW c \in Callers, CallStep(c)
  PROVE  /\ UNCHANGED <<groupDeleted, gts, setts>>
         /\ \A t \in RowIds : RowLive(t)' => RowLive(t)
<1>1. CASE DeleteAccount(c)
  <2>1. personal' = RowsWithout(changing[c].user) /\ UNCHANGED <<groupDeleted, gts, setts>>
    BY <1>1 DEF DeleteAccount
  <2>2. \A t \in RowIds : personal'[t] \in {NoRow, personal[t]}
    BY <2>1 DEF RowsWithout
  <2> QED
    BY <2>1, <2>2 DEF RowLive
<1>2. CASE ~DeleteAccount(c)
  <2>1. UNCHANGED <<groupDeleted, gts, setts, personal>>
    BY <1>2 DEF CallStep, ReceiveAdd, CommitAdd, ReceiveLeave, LockGroup, Depart, ReceiveQuit,
                ReadBalance, CloseGroup, CloseGts, CloseSetts, MemAbort, MemReceive, tables
  <2> QED
    BY <2>1 DEF RowLive
<1> QED
  BY <1>1, <1>2

\* The deletion of the group leaves nothing live but what its statements had not seen.
LEMMA CloseHides ==
  ASSUME AccountsInv, NEW c \in Callers, CommitClose(c)
  PROVE  /\ \A g \in GtIds : GtLive(g)' => GtLive(g) /\ g \notin changing[c].gts
         /\ \A x \in SettIds : SettLive(x)' => SettLive(x) /\ x \notin changing[c].setts
         /\ \A t \in RowIds : RowLive(t)' /\ personal'[t].gt # None =>
              t \notin changing[c].rows
         /\ c \in Doing("close") /\ changing[c].next = 4 /\ changing'[c] = None
<1>1. /\ gts \in [GtIds -> GtRow \cup {NoRow}] /\ setts \in [SettIds -> SettRow \cup {NoRow}]
      /\ personal \in [RowIds -> PersonalRow \cup {NoRow}] /\ NoRow \notin PersonalRow
  BY StateAssumptions DEF AccountsInv, MemTypeOK, OwnRowInv, GtTypeOK, TablesTypeOK
<1>2. ASSUME NEW g \in GtIds, GtLive(g)' PROVE GtLive(g) /\ g \notin changing[c].gts
  <2>1. gts'[g] = IF g \in changing[c].gts /\ gts[g] # NoRow
                  THEN [gts[g] EXCEPT !.deleted = TRUE, !.stamp = changing[c].stamp] ELSE gts[g]
    BY DEF CommitClose, GtsClosed
  <2>2. gts[g] # NoRow => gts[g] \in GtRow
    BY <1>1
  <2> QED
    BY <1>2, <2>1, <2>2 DEF GtLive, GtRow
<1>3. ASSUME NEW x \in SettIds, SettLive(x)' PROVE SettLive(x) /\ x \notin changing[c].setts
  <2>1. setts'[x] = IF x \in changing[c].setts /\ setts[x] # NoRow
                    THEN [setts[x] EXCEPT !.deleted = TRUE] ELSE setts[x]
    BY DEF CommitClose, SettsClosed
  <2>2. setts[x] # NoRow => setts[x] \in SettRow
    BY <1>1
  <2> QED
    BY <1>3, <2>1, <2>2 DEF SettLive, SettRow
<1>4. ASSUME NEW t \in RowIds, RowLive(t)', personal'[t].gt # None, t \in changing[c].rows
      PROVE  FALSE
  <2>1. personal'[t] = IF personal[t] # NoRow /\ personal[t].gt # None
                       THEN [personal[t] EXCEPT !.deleted = TRUE] ELSE personal[t]
    BY <1>4 DEF CommitClose, RowsClosed
  <2> QED
    BY <1>1, <1>4, <2>1 DEF RowLive, PersonalRow
<1>5. c \in Doing("close") /\ changing[c].next = 4 /\ changing'[c] = None
  <2>1. Noted = [d \in Callers |-> Noted[d]]
    BY DEF Noted
  <2> QED
    BY <2>1 DEF CommitClose
<1> QED
  BY <1>2, <1>3, <1>4, <1>5

\* Of the group-transaction requests, a create alone makes a group transaction live,
\* and one with splits alone a share.
LEMMA GtRevives ==
  ASSUME AccountsInv, NEW c \in Clients, GtRequestStep(c)
  PROVE  /\ \A g \in GtIds : GtLive(g)' /\ ~GtLive(g) =>
              /\ pending[c] # None /\ pending'[c] = None
              /\ pending[c].op = "create" /\ pending[c].gt = g
         /\ \A t \in RowIds : RowLive(t)' /\ ~RowLive(t) =>
              /\ pending[c] # None /\ pending'[c] = None
              /\ pending[c].op \in {"create", "update"} /\ pending[c].splits # <<>>
<1>1. /\ gts \in [GtIds -> GtRow \cup {NoRow}] /\ personal \in [RowIds -> PersonalRow \cup {NoRow}]
      /\ pending \in [Clients -> Request \cup {None}] /\ GtTypeOK
      /\ NoRow \notin PersonalRow /\ NoRow \notin GtRow
  BY StateAssumptions DEF AccountsInv, OwnRowInv, GtTypeOK, TablesTypeOK
<1>2. CASE CommitCreate(c)
  <2>1. pending[c] \in CreateRequest /\ pending[c] # None /\ pending'[c] = None
    BY <1>1, <1>2, PendingType DEF CommitCreate, Finish
  <2>2. pending[c].op = "create" /\ pending[c].splits # <<>>
    BY <2>1, GtAssumptions DEF CreateRequest
  <2>3. \A g \in GtIds : g # pending[c].gt => gts'[g] = gts[g]
    BY <1>1, <1>2 DEF CommitCreate
  <2> QED
    BY <2>1, <2>2, <2>3 DEF GtLive
<1>3. CASE CommitUpdate(c)
  <2> DEFINE r == pending[c]
  <2>1. /\ r # None /\ r.op = "update" /\ pending'[c] = None
        /\ gts' = [gts EXCEPT ![r.gt] = UpdatedRow(r)] /\ gts[r.gt] # NoRow
    BY <1>1, <1>3 DEF CommitUpdate, Finish
  <2>2. UpdatedRow(r).deleted = gts[r.gt].deleted
    BY DEF UpdatedRow
  <2>3. \A g \in GtIds : GtLive(g)' => GtLive(g)
    BY <1>1, <2>1, <2>2 DEF GtLive
  <2>4. CASE r.splits # <<>>
    BY <2>1, <2>3, <2>4
  <2>5. CASE r.splits = <<>>
    <3>1. SyncPersonal(r.gt, r.meta)
      BY <1>3, <2>5 DEF CommitUpdate
    <3>2. \A t \in RowIds : RowLive(t)' => RowLive(t)
      BY <1>1, <3>1 DEF SyncPersonal, RowLive
    <3> QED
      BY <2>3, <3>2
  <2> QED
    BY <2>4, <2>5
<1>4. CASE CommitDelete(c)
  <2>1. \A t \in RowIds : RowLive(t)' => RowLive(t)
    BY <1>1, <1>4 DEF CommitDelete, HiddenRow, RowLive, PersonalRow
  <2>2. \A g \in GtIds : GtLive(g)' => GtLive(g)
    BY <1>1, <1>4 DEF CommitDelete, GtLive, GtRow
  <2> QED
    BY <2>1, <2>2
<1>5. CASE UNCHANGED tables
  BY <1>5 DEF tables, GtLive, RowLive
<1> QED
  BY <1>2, <1>3, <1>4, <1>5, ReceiveKeepsOwnRow DEF GtRequestStep, AccountsInv, LooksOnly, Abort

\* Of the settlement requests, the commit of an insert alone makes a settlement live.
LEMMA SettRevives ==
  ASSUME AccountsInv, NEW c \in Requesters, SettRequestStep(c)
  PROVE  \A x \in SettIds : SettLive(x)' /\ ~SettLive(x) =>
           c \in InFlight("insert") /\ settling'[c] = None /\ settling[c].sett = x
<1> DEFINE r == settling[c]
<1>1. /\ setts \in [SettIds -> SettRow \cup {NoRow}] /\ NoRow \notin SettRow
      /\ settling \in [Requesters -> SettRequest \cup {None}]
  BY StateAssumptions DEF AccountsInv, SettTypeInv, SettTypeOK, TablesTypeOK
<1>2. CASE CommitSettlement(c)
  <2>1. c \in InFlight("insert") /\ settling'[c] = None
    BY <1>1, <1>2 DEF CommitSettlement, SettFinish
  <2>2. \A x \in SettIds : x # r.sett => setts'[x] = setts[x]
    BY <1>1, <1>2 DEF CommitSettlement
  <2> QED
    BY <2>1, <2>2 DEF SettLive
<1>3. CASE CommitReprice(c) \/ CommitNotes(c)
  <2>1. setts' = [setts EXCEPT ![r.sett] = UpdatedSett(r)] /\ setts[r.sett] # NoRow
    BY <1>3 DEF CommitReprice, CommitNotes
  <2>2. r.sett \in SettIds => UpdatedSett(r).deleted = setts[r.sett].deleted
    BY <1>1, <2>1 DEF UpdatedSett, SettRow
  <2> QED
    BY <1>1, <2>1, <2>2 DEF SettLive
<1>4. CASE CommitSettDelete(c)
  BY <1>1, <1>4 DEF CommitSettDelete, SettLive, SettRow
<1>5. CASE UNCHANGED tables
  BY <1>5 DEF tables, SettLive
<1> QED
  BY <1>2, <1>3, <1>4, <1>5
     DEF SettRequestStep, ReceiveSettlement, ReceiveSettUpdate, ReceiveSettDelete, SettReceive,
         HideSettRows, SettAbort, InsertSettlement, RepriceSettlement

\* A write of another component leaves an open deletion of the group what it is.
LEMMA WatchedCloses ==
  ASSUME MemTypeOK, Watched, UNCHANGED groupDeleted
  PROVE  /\ \A g \in GtIds : ~LeftGt(g) /\ LeftGt(g)' => ~GtLive(g) /\ GtLive(g)'
         /\ \A x \in SettIds : ~LeftSett(x) /\ LeftSett(x)' => ~SettLive(x) /\ SettLive(x)'
<1>1. \A c \in Callers : c \in Doing("close")' => c \in Doing("close") /\ changing'[c] = changing[c]
  <2> SUFFICES ASSUME NEW c \in Callers, c \in Doing("close")'
               PROVE  c \in Doing("close") /\ changing'[c] = changing[c]
    OBVIOUS
  <2>1. changing'[c] = Noted[c] /\ Noted[c] # None /\ Noted[c].op = "close"
    BY DEF Watched, Doing
  <2>2. c \notin Doing("leave") \cup Doing("quit")
    <3>1. c \in Doing("leave") \cup Doing("quit") => Noted[c].op = changing[c].op
      BY NotedFields
    <3> QED
      BY <2>1, <3>1 DEF Doing
  <2>3. Noted[c] = changing[c]
    BY <2>2, NotedFields
  <2> QED
    BY <2>1, <2>3 DEF Doing
<1>2. Doing("close")' \subseteq Callers
  BY DEF Doing
<1> QED
  BY <1>1, <1>2 DEF LeftGt, LeftSett

\* A step of a membership request before the commit of a deletion leaves nothing that
\* was not left: a statement sees every row of its table.
LEMMA CallLeavesNothing ==
  ASSUME AccountsInv, NEW c \in Callers, CallStep(c)
  PROVE  /\ \A g \in GtIds : LeftGt(g)' => LeftGt(g)
         /\ \A x \in SettIds : LeftSett(x)' => LeftSett(x)
<1>1. UNCHANGED <<groupDeleted, gts, setts>>
  BY CallRevivesNothing
<1>2. MemTypeOK /\ changing \in [Callers -> MemRequest \cup {None}]
  BY DEF AccountsInv, MemTypeOK
<1>3. PICK r \in MemRequest \cup {None} : changing' = [changing EXCEPT ![c] = r]
  BY <1>2, CallGoesOn
<1>4. \A d \in Callers : changing'[d] = IF d = c THEN r ELSE changing[d]
  BY <1>2, <1>3
<1>5. ASSUME r # None, r.op = "close"
      PROVE  \/ r.next = 2
             \/ r.next = 3 /\ r.gts = {g \in GtIds : gts[g] # NoRow}
             \/ /\ c \in Doing("close") /\ changing[c].next = 3 /\ r.next = 4
                /\ r.gts = changing[c].gts /\ r.setts = {x \in SettIds : setts[x] # NoRow}
  <2>1. changing'[c] = r
    BY <1>4
  <2>2. CASE CloseGroup(c)
    BY <1>2, <2>1, <2>2 DEF CloseGroup, MemReceive
  <2>3. CASE CloseGts(c)
    <3>1. changing[c] \in CloseRequest
      BY <1>2, <2>3, CallFields DEF CloseGts
    <3> QED
      BY <1>2, <2>1, <2>3, <3>1 DEF CloseGts, CloseRequest
  <2>4. CASE CloseSetts(c)
    <3>1. changing[c] \in CloseRequest
      BY <1>2, <2>4, CallFields DEF CloseSetts
    <3> QED
      BY <1>2, <2>1, <2>4, <3>1 DEF CloseSetts, CloseRequest
  <2>5. CASE ReceiveAdd(c) \/ ReceiveLeave(c)
    BY <1>2, <1>5, <2>1, <2>5 DEF ReceiveAdd, ReceiveLeave, MemReceive
  <2>6. CASE ReceiveQuit(c)
    BY <1>2, <1>5, <2>1, <2>6 DEF ReceiveQuit, MemReceive
  <2>7. CASE LockGroup(c) \/ ReadBalance(c)
    <3>1. c \in Doing("leave") \cup Doing("quit")
      BY <2>7 DEF LockGroup, ReadBalance
    <3>2. changing[c] \in DepartRequest /\ changing[c].op # "close"
      BY <1>2, <3>1, CallFields DEF Doing
    <3>3. r.op = changing[c].op
      BY <1>2, <2>1, <2>7, <3>2 DEF LockGroup, ReadBalance, DepartRequest
    <3> QED
      BY <1>5, <3>2, <3>3
  <2>8. CASE CommitAdd(c) \/ Depart(c) \/ DeleteAccount(c) \/ MemAbort(c)
    BY <1>2, <1>5, <2>1, <2>8 DEF CommitAdd, Depart, DeleteAccount, MemAbort, MemFinish
  <2> QED
    BY <2>2, <2>3, <2>4, <2>5, <2>6, <2>7, <2>8 DEF CallStep
<1>6. ASSUME NEW g \in GtIds, LeftGt(g)' PROVE LeftGt(g)
  <2>1. GtLive(g)
    BY <1>1, <1>6 DEF LeftGt, GtLive
  <2>2. CASE groupDeleted
    BY <2>1, <2>2 DEF LeftGt
  <2>3. CASE ~groupDeleted
    <3>1. PICK d \in Callers : /\ changing'[d] # None /\ changing'[d].op = "close"
                               /\ changing'[d].next > 2 /\ g \notin changing'[d].gts
      BY <1>1, <1>6, <2>3 DEF LeftGt, Doing
    <3>2. CASE d = c
      BY <1>4, <1>5, <2>1, <3>1, <3>2 DEF LeftGt, GtLive
    <3>3. CASE d # c
      BY <1>4, <2>1, <3>1, <3>3 DEF LeftGt, Doing
    <3> QED
      BY <3>2, <3>3
  <2> QED
    BY <2>2, <2>3
<1>7. ASSUME NEW x \in SettIds, LeftSett(x)' PROVE LeftSett(x)
  <2>1. SettLive(x)
    BY <1>1, <1>7 DEF LeftSett, SettLive
  <2>2. CASE groupDeleted
    BY <2>1, <2>2 DEF LeftSett
  <2>3. CASE ~groupDeleted
    <3>1. PICK d \in Callers : /\ changing'[d] # None /\ changing'[d].op = "close"
                               /\ changing'[d].next > 3 /\ x \notin changing'[d].setts
      BY <1>1, <1>7, <2>3 DEF LeftSett, Doing
    <3>2. CASE d = c
      BY <1>4, <1>5, <2>1, <3>1, <3>2 DEF SettLive
    <3>3. CASE d # c
      BY <1>4, <2>1, <3>1, <3>3 DEF LeftSett, Doing
    <3> QED
      BY <3>2, <3>3
  <2> QED
    BY <2>2, <2>3
<1> QED
  BY <1>6, <1>7

\* DeleteGroup, statement by statement, against creates and settlements in flight: what
\* is left in a deleted group is only what they insert behind its statements.
THEOREM DeletedGroupStays == MemSpec => NothingRevivesInDeletedGroup
<1> DEFINE Late(g) == \E c \in Clients : pending[c] # None /\ pending'[c] = None
                        /\ pending[c].op = "create" /\ pending[c].gt = g
           LateSett(x) == \E c \in InFlight("insert") : settling'[c] = None /\ settling[c].sett = x
           Kept == /\ \A g \in GtIds : ~LeftGt(g) /\ LeftGt(g)' => Late(g)
                   /\ \A x \in SettIds : ~LeftSett(x) /\ LeftSett(x)' => LateSett(x)
<1>1. ASSUME AccountsInv, MemNext PROVE Kept
  <2>1. MemTypeOK
    BY <1>1 DEF AccountsInv
  <2>2. CASE GtStep
    <3>1. PICK c \in Clients : GtRequestStep(c)
      BY <2>2, GtStepIs
    <3>2. UNCHANGED <<groupDeleted, setts>> /\ Watched
      BY <1>1, <2>2, <3>1, GtRowsFor, GtStepIs
    <3>3. \A x \in SettIds : SettLive(x)' => SettLive(x)
      BY <3>2 DEF SettLive
    <3> QED
      BY <1>1, <2>1, <3>1, <3>2, <3>3, GtRevives, WatchedCloses
  <2>3. CASE SettStep
    <3>1. PICK c \in Requesters : SettRequestStep(c)
      BY <2>3, SettStepIs
    <3>2. UNCHANGED <<groupDeleted, gts>> /\ Watched
      BY <1>1, <2>3, <3>1, SettRowsFor, SettStepIs
    <3>3. \A g \in GtIds : GtLive(g)' => GtLive(g)
      BY <3>2 DEF GtLive
    <3> QED
      BY <1>1, <2>1, <3>1, <3>2, <3>3, SettRevives, WatchedCloses
  <2>4. ASSUME NEW c \in Callers, MemStep(c) PROVE Kept
    <3>1. CASE CallStep(c)
      BY <1>1, <3>1, CallLeavesNothing
    <3>2. CASE CommitClose(c)
      BY <1>1, <3>2, CloseHides DEF LeftGt, LeftSett
    <3> QED
      BY <2>4, <3>1, <3>2, CallStepIs
  <2> QED
    BY <1>1, <2>2, <2>3, <2>4 DEF MemNext
<1>2. AccountsInv /\ [MemNext]_memVars => [Kept]_memVars
  BY <1>1
<1>3. MemSpec => [][Kept]_memVars
  BY <1>2, AccountsInit, AccountsStep, PTL DEF MemSpec
<1> QED
  BY <1>3 DEF NothingRevivesInDeletedGroup

\* DeleteGroup against writes in flight: the shares a dashboard still shows.
THEOREM DeletedGroupHidden == MemSpec => ClosedGroupHidesShares
<1> DEFINE Late(t) ==
             \/ \E c \in Clients : pending[c] # None /\ pending'[c] = None
                  /\ pending[c].op \in {"create", "update"} /\ pending[c].splits # <<>>
             \/ \E c \in Doing("close") : changing'[c] = None /\ t \notin changing[c].rows
           Hidden == \A t \in RowIds :
             groupDeleted' /\ RowLive(t)' /\ personal'[t].gt # None
               /\ ~(groupDeleted /\ RowLive(t)) => Late(t)
<1>1. ASSUME AccountsInv, MemNext PROVE Hidden
  <2> SUFFICES ASSUME NEW t \in RowIds, groupDeleted', RowLive(t)', personal'[t].gt # None,
                      ~(groupDeleted /\ RowLive(t))
               PROVE  Late(t)
    OBVIOUS
  <2>1. CASE GtStep
    <3>1. PICK c \in Clients : GtRequestStep(c)
      BY <2>1, GtStepIs
    <3>2. UNCHANGED groupDeleted
      BY <1>1, <3>1, GtRowsFor
    <3> QED
      BY <1>1, <3>1, <3>2, GtRevives
  <2>2. CASE SettStep
    <3>1. PICK c \in Requesters : SettRequestStep(c)
      BY <2>2, SettStepIs
    <3>2. UNCHANGED groupDeleted /\ BookedFor(accounts)
      BY <1>1, <3>1, SettRowsFor
    <3>3. ~RowLive(t)
      BY <3>2
    <3> QED
      BY <3>2, <3>3 DEF BookedFor, RowLive, SameOwner
  <2>3. ASSUME NEW c \in Callers, CallStep(c) PROVE FALSE
    BY <1>1, <2>3, CallRevivesNothing
  <2>4. ASSUME NEW c \in Callers, CommitClose(c) PROVE Late(t)
    BY <1>1, <2>4, CloseHides
  <2> QED
    BY <1>1, <2>1, <2>2, <2>3, <2>4, CallStepIs DEF MemNext
<1>2. AccountsInv /\ [MemNext]_memVars => [Hidden]_memVars
  BY <1>1
<1>3. MemSpec => [][Hidden]_memVars
  BY <1>2, AccountsInit, AccountsStep, PTL DEF MemSpec
<1> QED
  BY <1>3 DEF ClosedGroupHidesShares

-----------------------------------------------------------------------------
(* DepartsSettled: what a request about to depart has read.                *)

\* The sum of the parts that come before statement k.
ReadSoFar(u, k) ==
  (IF k > 1 THEN BalancePart(u, 1) ELSE 0) + (IF k > 2 THEN BalancePart(u, 2) ELSE 0)
    + (IF k > 3 THEN BalancePart(u, 3) ELSE 0) + (IF k > 4 THEN BalancePart(u, 4) ELSE 0)

\* Unless a sum was moved, the request has read what the balance still is so far.
ReadingInv(c) ==
  LET r == changing[c]
  IN  /\ r.next <= 1 => r.sum = 0
      /\ r.next > 1 /\ ~r.moved => r.sum = ReadSoFar(r.user, r.next)

\* The lock is taken when no insert is open, and no insert opens while it is held.
DepartInv ==
  /\ AccountsInv
  /\ GroupLocked => InFlight("insert") = {}
  /\ \A c \in Doing("leave") \cup Doing("quit") : ReadingInv(c)

\* The balance is its four parts.
LEMMA BalanceParts ==
  ASSUME TablesTypeOK, NEW u \in Users
  PROVE  Balance(u) = ReadSoFar(u, 5)
<1> DEFINE a == BalancePart(u, 1)
           b == BalancePart(u, 2)
           p == BalancePart(u, 3)
           q == BalancePart(u, 4)
           s == Shares({g \in GtIds : GtLive(g)}, u)
           t == Paid({x \in SettIds : SettLive(x) /\ setts[x].to = u})
<1>1. a \in Int /\ b \in Int /\ p \in Int /\ q \in Int
  BY PartsInt
<1>2. b = -s /\ q = -t
  BY DEF BalancePart
<1>3. Balance(u) = a - s + p - t
  BY DEF Balance, BalancePart
<1>4. s \in Nat /\ t \in Nat
  <2>1. {g \in GtIds : GtLive(g)} \in SUBSET GtIds
    OBVIOUS
  <2>2. {x \in SettIds : SettLive(x) /\ setts[x].to = u} \in SUBSET {x \in SettIds : SettLive(x)}
    OBVIOUS
  <2> QED
    BY <2>1, <2>2, SumsOfRows
<1>5. ReadSoFar(u, 5) = a + b + p + q
  BY DEF ReadSoFar
<1> HIDE DEF a, b, p, q, s, t
<1> QED
  BY <1>1, <1>2, <1>3, <1>4, <1>5

\* A statement adds its part.
LEMMA ReadNext ==
  ASSUME TablesTypeOK, NEW u \in Users, NEW n \in 1 .. 4
  PROVE  /\ ReadSoFar(u, n + 1) = ReadSoFar(u, n) + BalancePart(u, n)
         /\ ReadSoFar(u, 1) = 0
<1> DEFINE p(k) == BalancePart(u, k)
<1>1. p(1) \in Int /\ p(2) \in Int /\ p(3) \in Int /\ p(4) \in Int
  BY PartsInt
<1>2. n = 1 \/ n = 2 \/ n = 3 \/ n = 4
  OBVIOUS
<1>3. \A k \in Int : ReadSoFar(u, k) = (IF k > 1 THEN p(1) ELSE 0) + (IF k > 2 THEN p(2) ELSE 0)
        + (IF k > 3 THEN p(3) ELSE 0) + (IF k > 4 THEN p(4) ELSE 0)
  BY DEF ReadSoFar
<1>4. BalancePart(u, n) = p(n)
  OBVIOUS
<1> HIDE DEF p
<1> QED
  BY <1>1, <1>2, <1>3, <1>4

\* No part of a balance moves.
SameParts == \A u \in Users, n \in 1 .. 4 : BalancePart(u, n)' = BalancePart(u, n)

\* Then what was read so far would be read again.
LEMMA SamePartsRead ==
  ASSUME SameParts, NEW u \in Users
  PROVE  \A k : ReadSoFar(u, k)' = ReadSoFar(u, k)
BY DEF SameParts, ReadSoFar

\* The pointers of the splits are no part of a balance.
LEMMA SameAmounts ==
  ASSUME UNCHANGED <<gts, setts>>,
         \A g \in GtIds, u \in Users : SplitAmount(g, u)' = SplitAmount(g, u)
  PROVE  SameParts
<1> SUFFICES ASSUME NEW u \in Users
             PROVE  \A n \in 1 .. 4 : BalancePart(u, n)' = BalancePart(u, n)
  BY DEF SameParts
<1>1. PaidBy(u)' = PaidBy(u) /\ Total(PaidBy(u))' = Total(PaidBy(u))
  BY DEF PaidBy, GtLive, Total
<1>2. Shares({g \in GtIds : GtLive(g)}, u)' = Shares({g \in GtIds : GtLive(g)}, u)
  <2> DEFINE S == {g \in GtIds : GtLive(g)}
  <2>1. S' = S
    BY DEF GtLive
  <2>2. [g \in S |-> SplitAmount(g, u)]' = [g \in S |-> SplitAmount(g, u)]
    BY <2>1
  <2> QED
    BY <2>1, <2>2 DEF Shares
<1>3. /\ Paid({x \in SettIds : SettLive(x) /\ setts[x].from = u})'
           = Paid({x \in SettIds : SettLive(x) /\ setts[x].from = u})
      /\ Paid({x \in SettIds : SettLive(x) /\ setts[x].to = u})'
           = Paid({x \in SettIds : SettLive(x) /\ setts[x].to = u})
  BY DEF SettLive, Paid
<1> QED
  BY <1>1, <1>2, <1>3 DEF BalancePart

\* While the group is locked, no row is inserted.
LEMMA LockStopsInserts ==
  ASSUME DepartInv, GtStep \/ SettStep, GroupLocked
  PROVE  ~RowInserted
<1>1. /\ gts \in [GtIds -> GtRow \cup {NoRow}] /\ setts \in [SettIds -> SettRow \cup {NoRow}]
      /\ InFlight("insert") = {} /\ AccountsInv
  BY DEF DepartInv, AccountsInv, OwnRowInv, GtTypeOK, TablesTypeOK
<1>2. CASE GtStep
  <2>1. PICK c \in Clients : GtRequestStep(c)
    BY <1>2, GtStepIs
  <2>2. setts' = setts
    BY <1>1, <2>1, GtRowsFor
  <2>3. \A g \in GtIds : gts[g] = NoRow => gts'[g] = NoRow
    <3>1. CASE CommitCreate(c) /\ CreateAllowed(pending[c])
      BY <1>1, <3>1 DEF CommitCreate, CreateAllowed
    <3>2. CASE CommitUpdate(c) \/ CommitDelete(c)
      BY <1>1, <3>2 DEF CommitUpdate, CommitDelete
    <3>3. CASE UNCHANGED tables
      BY <3>3 DEF tables
    <3> QED
      BY <1>1, <2>1, <3>1, <3>2, <3>3, ReceiveKeepsOwnRow
         DEF GtRequestStep, AccountsInv, LooksOnly, Abort
  <2> QED
    BY <2>2, <2>3 DEF RowInserted
<1>3. CASE SettStep
  <2>1. PICK c \in Requesters : SettRequestStep(c)
    BY <1>3, SettStepIs
  <2>2. gts' = gts
    BY <1>1, <2>1, SettRowsFor
  <2>3. \A x \in SettIds : setts[x] = NoRow => setts'[x] = NoRow
    <3>1. ~CommitSettlement(c)
      BY <1>1 DEF CommitSettlement
    <3>2. CASE CommitReprice(c) \/ CommitNotes(c)
      BY <1>1, <3>2 DEF CommitReprice, CommitNotes
    <3>3. CASE CommitSettDelete(c)
      BY <1>1, <3>3 DEF CommitSettDelete
    <3>4. CASE UNCHANGED tables
      BY <3>4 DEF tables
    <3> QED
      BY <2>1, <3>1, <3>2, <3>3, <3>4
         DEF SettRequestStep, ReceiveSettlement, ReceiveSettUpdate, ReceiveSettDelete,
             SettReceive, HideSettRows, SettAbort, InsertSettlement, RepriceSettlement
  <2> QED
    BY <2>2, <2>3 DEF RowInserted
<1> QED
  BY <1>2, <1>3

\* A write marks the requests whose sums it moves.
LEMMA NotedKeepsReading ==
  ASSUME MemTypeOK, NEW c \in Doing("leave") \cup Doing("quit"), ReadingInv(c),
         changing'[c] = Noted[c],
         changing[c].next > 1 => changing[c].op = "quit" \/ ~RowInserted
  PROVE  ReadingInv(c)'
<1>1. c \in Callers /\ changing[c] \in DepartRequest
  BY CallFields DEF Doing
<1>2. PICK u \in Users, k \in 0 .. 5, s \in Int :
        u = changing[c].user /\ k = changing[c].next /\ s = changing[c].sum
  BY <1>1 DEF DepartRequest
<1> DEFINE Marks == /\ k > 1 /\ \E n \in 1 .. 4 : BalancePart(u, n)' # BalancePart(u, n)
                    /\ changing[c].op = "quit" \/ ~RowInserted
<1>3. Noted[c] = IF Marks THEN [changing[c] EXCEPT !.moved = TRUE] ELSE changing[c]
  BY <1>1, <1>2 DEF Noted
<1>4. /\ changing'[c].next = k /\ changing'[c].sum = s /\ changing'[c].user = u
      /\ ~changing'[c].moved => ~Marks /\ ~changing[c].moved
  <2> HIDE DEF Marks
  <2> QED
    BY <1>1, <1>2, <1>3 DEF DepartRequest
<1>5. k <= 1 => s = 0
  BY <1>2 DEF ReadingInv
<1>6. ASSUME k > 1, ~changing'[c].moved PROVE s = ReadSoFar(u, k)'
  <2>1. \A n \in 1 .. 4 : BalancePart(u, n)' = BalancePart(u, n)
    BY <1>2, <1>4, <1>6
  <2>2. ReadSoFar(u, k)' = ReadSoFar(u, k)
    BY <2>1 DEF ReadSoFar
  <2>3. s = ReadSoFar(u, k)
    BY <1>2, <1>4, <1>6 DEF ReadingInv
  <2> QED
    BY <2>2, <2>3
<1> QED
  BY <1>4, <1>5, <1>6 DEF ReadingInv

\* The lock keeps rows from being inserted under a leave that reads.
LEMMA WriteKeepsReading ==
  ASSUME DepartInv, GtStep \/ SettStep, NEW c \in Callers, c \in (Doing("leave") \cup Doing("quit"))'
  PROVE  ReadingInv(c)'
<1>1. changing'[c] = Noted[c] /\ MemTypeOK
  BY GtStepIs, SettStepIs DEF DepartInv, AccountsInv, Watched
<1>2. c \in Doing("leave") \cup Doing("quit")
  BY <1>1, NotedFields DEF Doing
<1>3. changing[c] \in DepartRequest /\ ReadingInv(c)
  BY <1>1, <1>2, CallFields DEF DepartInv
<1>4. changing[c].next > 1 => changing[c].op = "quit" \/ ~RowInserted
  <2>1. ASSUME changing[c].next > 1, changing[c].op # "quit" PROVE GroupLocked
    BY <1>2, <1>3, <2>1 DEF GroupLocked, Doing, DepartRequest
  <2> QED
    BY <2>1, LockStopsInserts
<1> QED
  BY <1>1, <1>2, <1>3, <1>4, NotedKeepsReading

\* A membership request's own step.
LEMMA CallKeepsReading ==
  ASSUME DepartInv, NEW c \in Callers, CallStep(c),
         NEW d \in Callers, d \in (Doing("leave") \cup Doing("quit"))'
  PROVE  ReadingInv(d)'
<1>1. /\ MemTypeOK /\ TablesTypeOK /\ changing \in [Callers -> MemRequest \cup {None}]
  BY DEF DepartInv, AccountsInv, MemTypeOK, OwnRowInv, GtTypeOK
<1>2. SameParts
  <2>1. CASE DeleteAccount(c)
    <3>1. /\ UNCHANGED <<gts, setts>>
          /\ splits' = [g \in GtIds |-> [v \in Users |->
                IF v = changing[c].user /\ Bound(g, changing[c].user)
                THEN [splits[g][changing[c].user] EXCEPT !.row = None] ELSE splits[g][v]]]
      BY <2>1 DEF DeleteAccount
    <3>2. \A g \in GtIds, u \in Users : SplitAmount(g, u)' = SplitAmount(g, u)
      <4> SUFFICES ASSUME NEW g \in GtIds, NEW u \in Users
                   PROVE  SplitAmount(g, u)' = SplitAmount(g, u)
        OBVIOUS
      <4>1. splits[g][u] \in SplitRow \cup {NoRow} /\ NoRow \notin SplitRow
        BY <1>1, StateAssumptions DEF TablesTypeOK
      <4>2. \/ splits'[g][u] = splits[g][u]
            \/ HasSplit(g, u) /\ splits'[g][u] = [splits[g][u] EXCEPT !.row = None]
        BY <3>1 DEF Bound
      <4>3. HasSplit(g, u) => [splits[g][u] EXCEPT !.row = None] \in SplitRow
        BY <4>1 DEF HasSplit, SplitRow
      <4>4. HasSplit(g, u) => [splits[g][u] EXCEPT !.row = None].amt = splits[g][u].amt
        BY <4>1 DEF HasSplit, SplitRow
      <4> QED
        BY <4>1, <4>2, <4>3, <4>4 DEF SplitAmount, HasSplit
    <3> QED
      BY <3>1, <3>2, SameAmounts
  <2>2. CASE ~DeleteAccount(c)
    <3>1. UNCHANGED <<gts, setts, splits>>
      BY <2>2 DEF CallStep, ReceiveAdd, CommitAdd, ReceiveLeave, LockGroup, Depart, ReceiveQuit,
                  ReadBalance, CloseGroup, CloseGts, CloseSetts, MemAbort, MemReceive, tables
    <3> QED
      BY <3>1, SameAmounts DEF SplitAmount, HasSplit
  <2> QED
    BY <2>1, <2>2
<1>3. PICK r \in MemRequest \cup {None} : changing' = [changing EXCEPT ![c] = r]
  BY <1>1, CallGoesOn
<1>4. \A e \in Callers : changing'[e] = IF e = c THEN r ELSE changing[e]
  BY <1>1, <1>3
<1>5. changing'[d] # None /\ changing'[d].op \in {"leave", "quit"}
  BY DEF Doing
<1>6. CASE d # c
  <2>1. changing'[d] = changing[d] /\ d \in Doing("leave") \cup Doing("quit")
    BY <1>4, <1>5, <1>6 DEF Doing
  <2>2. changing[d] \in DepartRequest /\ ReadingInv(d)
    BY <1>1, <2>1, CallFields DEF DepartInv
  <2>3. PICK u \in Users, k \in 0 .. 5 : u = changing[d].user /\ k = changing[d].next
    BY <2>2 DEF DepartRequest
  <2>4. ReadSoFar(u, k)' = ReadSoFar(u, k)
    BY <1>2, SamePartsRead
  <2> QED
    BY <2>1, <2>2, <2>3, <2>4 DEF ReadingInv
<1>7. CASE d = c /\ (ReceiveLeave(c) \/ ReceiveQuit(c))
  <2>1. changing'[c].sum = 0 /\ changing'[c].next \in {0, 1, 5}
        /\ (changing'[c].next = 5 => changing'[c].moved)
    <3>1. CASE ReceiveLeave(c)
      BY <1>1, <3>1 DEF ReceiveLeave, MemReceive
    <3>2. CASE ReceiveQuit(c)
      <4>1. PICK u \in accounts :
              LET reads == u \in members /\ ~groupDeleted
              IN  MemReceive(c, [op |-> "quit", user |-> u, next |-> IF reads THEN 1 ELSE 5,
                                 sum |-> 0, moved |-> ~reads])
        BY <3>2 DEF ReceiveQuit
      <4> DEFINE reads == u \in members /\ ~groupDeleted
                 q == [op |-> "quit", user |-> u, next |-> IF reads THEN 1 ELSE 5,
                       sum |-> 0, moved |-> ~reads]
      <4>2. changing' = [changing EXCEPT ![c] = q]
        BY <4>1 DEF MemReceive
      <4>3. q.sum = 0 /\ q.next \in {0, 1, 5} /\ (q.next = 5 => q.moved)
        <5>1. q.sum = 0 /\ q.next = IF reads THEN 1 ELSE 5
          OBVIOUS
        <5>2. ~reads => q.moved
          OBVIOUS
        <5> HIDE DEF q, reads
        <5> QED
          BY <5>1, <5>2
      <4> HIDE DEF q
      <4> QED
        BY <1>1, <4>2, <4>3
    <3> QED
      BY <1>7, <3>1, <3>2
  <2> QED
    BY <1>7, <2>1 DEF ReadingInv
<1>8. CASE d = c /\ LockGroup(c)
  <2>1. changing[c] \in DepartRequest /\ ReadingInv(c) /\ changing[c].next = 0
    BY <1>1, <1>8, CallFields DEF DepartInv, LockGroup
  <2>2. changing'[c].sum = changing[c].sum /\ changing'[c].next = 1
    BY <1>1, <1>8, <2>1 DEF LockGroup, DepartRequest
  <2> QED
    BY <1>8, <2>1, <2>2 DEF ReadingInv
<1>9. CASE d = c /\ ReadBalance(c)
  <2>1. changing[c] \in DepartRequest /\ ReadingInv(c) /\ changing[c].next \in 1 .. 4
    BY <1>1, <1>9, CallFields DEF DepartInv, ReadBalance
  <2>2. PICK u \in Users, k \in 1 .. 4, s \in Int :
          u = changing[c].user /\ k = changing[c].next /\ s = changing[c].sum
    BY <2>1 DEF DepartRequest
  <2>3. /\ changing'[c].next = k + 1 /\ changing'[c].user = u
        /\ changing'[c].sum = s + BalancePart(u, k) /\ changing'[c].moved = changing[c].moved
    BY <1>1, <1>9, <2>1, <2>2 DEF ReadBalance, DepartRequest
  <2>4. ReadSoFar(u, k + 1) = ReadSoFar(u, k) + BalancePart(u, k) /\ ReadSoFar(u, 1) = 0
    BY <1>1, ReadNext
  <2>5. \A j : ReadSoFar(u, j)' = ReadSoFar(u, j)
    BY <1>2, SamePartsRead
  <2>6. k = 1 => s = ReadSoFar(u, k)
    BY <2>1, <2>2, <2>4 DEF ReadingInv
  <2>7. k > 1 /\ ~changing[c].moved => s = ReadSoFar(u, k)
    BY <2>1, <2>2 DEF ReadingInv
  <2>8. ASSUME ~changing[c].moved PROVE s + BalancePart(u, k) = ReadSoFar(u, k + 1)'
    BY <2>4, <2>5, <2>6, <2>7, <2>8
  <2> QED
    BY <1>9, <2>3, <2>8 DEF ReadingInv
<1>10. CASE d = c /\ (ReceiveAdd(c) \/ CloseGroup(c))
  BY <1>1, <1>5, <1>10 DEF ReceiveAdd, CloseGroup, MemReceive
<1>11. CASE d = c /\ (CommitAdd(c) \/ Depart(c) \/ DeleteAccount(c) \/ MemAbort(c))
  BY <1>1, <1>5, <1>11 DEF CommitAdd, Depart, DeleteAccount, MemAbort, MemFinish
<1>12. CASE d = c /\ (CloseGts(c) \/ CloseSetts(c))
  <2>1. changing[c] \in CloseRequest
    BY <1>1, <1>12, CallFields DEF CloseGts, CloseSetts
  <2>2. changing'[c].op = "close"
    BY <1>1, <1>12, <2>1 DEF CloseGts, CloseSetts, CloseRequest
  <2> QED
    BY <1>5, <1>12, <2>2
<1> QED
  BY <1>6, <1>7, <1>8, <1>9, <1>10, <1>11, <1>12 DEF CallStep

\* The commit of the group's deletion waits for the lock, so no leave is reading.
LEMMA CloseKeepsReading ==
  ASSUME DepartInv, NEW c \in Callers, CommitClose(c),
         NEW d \in Callers, d \in (Doing("leave") \cup Doing("quit"))'
  PROVE  ReadingInv(d)'
<1>1. MemTypeOK /\ Noted \in [Callers -> MemRequest \cup {None}]
  BY NotedTyped DEF DepartInv, AccountsInv
<1>2. changing'[d] = Noted[d]
  BY <1>1 DEF CommitClose, Doing
<1>3. d \in Doing("leave") \cup Doing("quit")
  BY <1>1, <1>2, NotedFields DEF Doing
<1>4. changing[d] \in DepartRequest /\ ReadingInv(d)
  BY <1>1, <1>3, CallFields DEF DepartInv
<1>5. changing[d].next > 1 => changing[d].op = "quit"
  BY <1>3, <1>4 DEF CommitClose, GroupLocked, Doing, DepartRequest
<1> QED
  BY <1>1, <1>2, <1>3, <1>4, <1>5, NotedKeepsReading

\* DepartInv is inductive.
LEMMA DepartStep == DepartInv /\ [MemNext]_memVars => DepartInv'
<1> SUFFICES ASSUME DepartInv, [MemNext]_memVars PROVE DepartInv'
  OBVIOUS
<1>1. AccountsInv /\ AccountsInv' /\ MemTypeOK
  BY AccountsStep DEF DepartInv, AccountsInv
<1>2. CASE GtStep \/ SettStep
  <2>1. \A c \in (Doing("leave") \cup Doing("quit"))' : c \in Callers /\ ReadingInv(c)'
    BY <1>2, WriteKeepsReading DEF Doing
  <2>2. Watched
    BY <1>2, GtStepIs, SettStepIs
  <2>3. GroupLocked' => GroupLocked
    <3>1. ASSUME NEW c \in Callers, c \in Doing("leave")', changing'[c].next > 0
          PROVE  c \in Doing("leave") /\ changing[c].next > 0
      <4>1. changing'[c] = Noted[c]
        BY <2>2 DEF Watched
      <4> QED
        BY <1>1, <3>1, <4>1, NotedFields DEF Doing
    <3> QED
      BY <3>1 DEF GroupLocked, Doing
  <2>4. ASSUME GroupLocked, InFlight("insert") = {} PROVE InFlight("insert")' = {}
    <3>1. CASE GtStep
      BY <2>4, <3>1, GtStepIs DEF InFlight
    <3>2. CASE SettStep
      <4>1. PICK q \in Requesters : SettRequestStep(q)
        BY <3>2, SettStepIs
      <4>3. SettTypeOK /\ settling \in [Requesters -> SettRequest \cup {None}]
        BY <1>1 DEF MemTypeOK, SettTypeOK
      <4>4. \A p \in Requesters \ {q} : settling'[p] = settling[p]
        BY <4>1, <4>3 DEF SettRequestStep, ReceiveSettlement, ReceiveSettUpdate,
           ReceiveSettDelete, SettReceive, HideSettRows, SettAbort, InsertSettlement,
           CommitSettlement, RepriceSettlement, CommitReprice, CommitNotes, CommitSettDelete,
           SettFinish
      <4>5. settling'[q] = None \/ settling'[q].op # "insert"
        <5>1. CASE ReceiveSettlement(q) \/ ReceiveSettUpdate(q) \/ ReceiveSettDelete(q)
          BY <1>1, <4>3, <5>1, ReceivedRequest DEF AccountsInv, SettReceive, Receives, Received
        <5>2. CASE HideSettRows(q) \/ RepriceSettlement(q)
          BY <4>3, <5>2 DEF HideSettRows, RepriceSettlement
        <5>3. CASE \/ SettAbort(q) \/ CommitSettlement(q) \/ CommitReprice(q)
                   \/ CommitNotes(q) \/ CommitSettDelete(q)
          BY <4>3, <5>3 DEF SettAbort, CommitSettlement, CommitReprice, CommitNotes,
             CommitSettDelete, SettFinish
        <5> QED
          BY <2>4, <4>1, <5>1, <5>2, <5>3 DEF SettRequestStep
      <4> QED
        BY <2>4, <4>4, <4>5 DEF InFlight
    <3> QED
      BY <1>2, <3>1, <3>2
  <2> QED
    BY <1>1, <2>1, <2>3, <2>4 DEF DepartInv
<1>3. ASSUME NEW c \in Callers, MemStep(c) PROVE DepartInv'
  <2>1. \A d \in (Doing("leave") \cup Doing("quit"))' : d \in Callers /\ ReadingInv(d)'
    BY <1>3, CallStepIs, CallKeepsReading, CloseKeepsReading DEF Doing
  <2>2. UNCHANGED settling
    BY <1>3 DEF MemStep, ReceiveAdd, CommitAdd, ReceiveLeave, LockGroup, Depart, ReceiveQuit,
                ReadBalance, DeleteAccount, CloseGroup, CloseGts, CloseSetts, CommitClose,
                MemAbort, MemReceive
  <2>3. GroupLocked' => GroupLocked \/ InFlight("insert") = {}
    <3>1. CASE LockGroup(c)
      BY <3>1 DEF LockGroup
    <3>2. CASE CommitClose(c)
      <4>1. Noted \in [Callers -> MemRequest \cup {None}]
        BY <1>1, NotedTyped
      <4>2. ASSUME NEW d \in Callers, d \in Doing("leave")', changing'[d].next > 0
            PROVE  d \in Doing("leave") /\ changing[d].next > 0
        <5>1. changing'[d] = Noted[d]
          BY <3>2, <4>1, <4>2 DEF CommitClose, Doing
        <5> QED
          BY <1>1, <4>2, <5>1, NotedFields DEF Doing
      <4> QED
        BY <4>2 DEF GroupLocked, Doing
    <3>3. ASSUME CallStep(c), ~LockGroup(c), NEW d \in Callers, d \in Doing("leave")', changing'[d].next > 0
          PROVE  d \in Doing("leave") /\ changing[d].next > 0
      <4>1. changing \in [Callers -> MemRequest \cup {None}]
        BY <1>1 DEF MemTypeOK
      <4>2. CASE ReadBalance(c)
        <5>1. changing[c] \in DepartRequest /\ changing[c].next > 0
          BY <1>1, <4>2, CallFields DEF ReadBalance
        <5> QED
          BY <3>3, <4>1, <4>2, <5>1 DEF ReadBalance, Doing, DepartRequest
      <4>3. CASE ~ReadBalance(c)
        <5>1. d # c => changing'[d] = changing[d]
          BY <1>1, <3>3, <4>1, CallGoesOn
        <5>2. d = c => FALSE
          <6>1. CASE ReceiveLeave(c)
            BY <3>3, <4>1, <6>1 DEF ReceiveLeave, MemReceive
          <6>2. CASE ReceiveAdd(c) \/ ReceiveQuit(c) \/ CloseGroup(c)
            BY <3>3, <4>1, <6>2 DEF ReceiveAdd, ReceiveQuit, CloseGroup, MemReceive, Doing
          <6>3. CASE CommitAdd(c) \/ Depart(c) \/ DeleteAccount(c) \/ MemAbort(c)
            BY <3>3, <4>1, <6>3 DEF CommitAdd, Depart, DeleteAccount, MemAbort, MemFinish,
                                    Doing
          <6>4. CASE CloseGts(c) \/ CloseSetts(c)
            <7>1. changing[c] \in CloseRequest
              BY <1>1, <6>4, CallFields DEF CloseGts, CloseSetts
            <7>2. changing'[c].op = "close"
              BY <4>1, <6>4, <7>1 DEF CloseGts, CloseSetts, CloseRequest
            <7> QED
              BY <3>3, <7>2 DEF Doing
          <6> QED
            BY <3>3, <4>3, <6>1, <6>2, <6>3, <6>4 DEF CallStep
        <5> QED
          BY <3>3, <5>1, <5>2 DEF Doing
      <4> QED
        BY <4>2, <4>3
    <3> QED
      BY <1>3, <3>1, <3>2, <3>3, CallStepIs DEF GroupLocked, Doing
  <2> QED
    BY <1>1, <2>1, <2>2, <2>3 DEF DepartInv, InFlight
<1>4. CASE UNCHANGED memVars
  <2>1. SameParts
    BY <1>4, SameAmounts DEF memVars, tables, SplitAmount, HasSplit
  <2>2. \A d \in (Doing("leave") \cup Doing("quit"))' : ReadingInv(d)'
    <3> SUFFICES ASSUME NEW d \in (Doing("leave") \cup Doing("quit"))' PROVE ReadingInv(d)'
      OBVIOUS
    <3>1. d \in Doing("leave") \cup Doing("quit") /\ changing'[d] = changing[d] /\ d \in Callers
      BY <1>4 DEF memVars, Doing
    <3>2. PICK u \in Users : u = changing[d].user
      BY <1>1, <3>1, CallFields DEF DepartRequest
    <3>3. \A j : ReadSoFar(u, j)' = ReadSoFar(u, j)
      BY <2>1, SamePartsRead
    <3> QED
      BY <3>1, <3>2, <3>3 DEF DepartInv, ReadingInv
  <2> QED
    BY <1>1, <1>4, <2>2 DEF memVars, DepartInv, GroupLocked, Doing, InFlight
<1> QED
  BY <1>2, <1>3, <1>4 DEF MemNext

\* Nobody leaves, is removed or deletes the account with a balance in the group, for any
\* number of requests in flight, but for a change of a row between the four statements
\* of GetUserGroupBalanceTx that no lock stops: RemoveMember, LeaveGroup and DeleteMe.
THEOREM DepartedSquare == MemSpec => DepartsSettled
<1> DEFINE Square ==
      \A c \in Doing("leave") \cup Doing("quit") :
        /\ changing'[c] = None /\ changing[c].user \in members \ members'
        /\ Balance(changing[c].user) # 0
        => changing[c].moved
<1>1. MemInit => DepartInv
  BY AccountsInit, MemAssumptions DEF MemInit, DepartInv, GroupLocked, Doing
<1>2. ASSUME DepartInv, MemNext PROVE Square
  <2> SUFFICES ASSUME NEW c \in Doing("leave") \cup Doing("quit"), changing'[c] = None,
                      changing[c].user \in members \ members', ~changing[c].moved
               PROVE  Balance(changing[c].user) = 0
    OBVIOUS
  <2>1. AccountsInv /\ MemTypeOK /\ TablesTypeOK /\ c \in Callers /\ changing[c] # None
        /\ changing \in [Callers -> MemRequest \cup {None}]
    BY <1>2 DEF DepartInv, AccountsInv, MemTypeOK, OwnRowInv, GtTypeOK, Doing
  <2>2. changing[c] \in DepartRequest /\ ReadingInv(c)
    BY <1>2, <2>1, CallFields DEF DepartInv
  <2>3. PICK u \in Users : u = changing[c].user
    BY <2>2 DEF DepartRequest
  <2>4. ~GtStep /\ ~SettStep
    BY <1>2, <2>1, GtStepIs, SettStepIs, GtRowsFor, SettRowsFor
  <2>5. PICK d \in Callers : MemStep(d)
    BY <1>2, <2>4 DEF MemNext
  <2>6. d = c
    <3>0. CallStep(d)
      BY <2>5, CallStepIs DEF CommitClose
    <3>1. PICK r \in MemRequest \cup {None} : changing' = [changing EXCEPT ![d] = r]
      BY <2>1, <3>0, CallGoesOn
    <3> QED
      BY <2>1, <3>1
  <2>7. Depart(c) \/ DeleteAccount(c)
    BY <2>5, <2>6 DEF MemStep, ReceiveAdd, CommitAdd, ReceiveLeave, LockGroup, ReceiveQuit,
                      ReadBalance, CloseGroup, CloseGts, CloseSetts, CommitClose, MemAbort,
                      MemReceive, tables
  <2>8. changing[c].next = 5 /\ changing[c].sum = 0
    BY <2>7 DEF Depart, DeleteAccount
  <2>9. ReadSoFar(u, 5) = 0
    BY <2>2, <2>3, <2>8 DEF ReadingInv
  <2> QED
    BY <2>1, <2>3, <2>9, BalanceParts
<1>3. DepartInv /\ [MemNext]_memVars => [Square]_memVars
  BY <1>2
<1>4. MemSpec => [][Square]_memVars
  BY <1>1, <1>3, DepartStep, PTL DEF MemSpec
<1> QED
  BY <1>4 DEF DepartsSettled
================================================================================
