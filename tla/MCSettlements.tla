---------------------------- MODULE MCSettlements ----------------------------
(* Small instances of Settlements for TLC. *)
EXTENDS Settlements, TLC

CONSTANTS alice, bob, carol, g1, g2, m1, c1, c2, c3, s1, s2, s3, t1, t2, r1, r2, r3, r4

MCOneCurrency == [u \in Users |-> "inr"]

\* A group transaction that "payer" paid alone and "ower" has the one share of.
Owes(ower, payer, n) ==
  [gts |-> [g \in GtIds |-> IF g = g1
     THEN [payer |-> payer, total |-> n, meta |-> m1, deleted |-> FALSE, stamp |-> 0]
     ELSE NoRow],
   splits |-> [g \in GtIds |-> [u \in Users |->
     IF g = g1 /\ u = ower THEN [amt |-> n, row |-> t1] ELSE NoRow]],
   personal |-> [t \in RowIds |-> IF t = t1
     THEN [user |-> ower, kind |-> "expense", amt |-> n, meta |-> m1, gt |-> g1,
           sett |-> None, deleted |-> FALSE]
     ELSE NoRow]]

MCDebtOfTwo == {Owes(bob, alice, 2)}
MCDebtOfThree == {Owes(bob, alice, 3)}

MCAll == Users \X Users

\* Towards the debt, against it, and past it to the third member.
MCThreeWays == {<<bob, alice>>, <<alice, bob>>, <<alice, carol>>}

MCSymmetry == Permutations(Requesters) \cup Permutations(SettIds) \cup Permutations(RowIds \ {t1})
=============================================================================
