------------------------- MODULE MCGroupTransactions -------------------------
(* Small instances of GroupTransactions for TLC. *)
EXTENDS GroupTransactions, TLC

CONSTANTS alice, bob, c1, c2, r1, r2, r3, m2

Share(u, a) == [user |-> u, amt |-> a]

MCOneCurrency == [u \in Users |-> "inr"]
MCTwoCurrencies == [u \in Users |-> IF u = alice THEN "inr" ELSE "usd"]

\* One user or both.
MCTwoSplits == {<<Share(alice, 1)>>, <<Share(alice, 1), Share(bob, 1)>>}

\* A user named twice.
MCRepeats == {<<Share(alice, 2)>>, <<Share(alice, 1), Share(alice, 1)>>}

\* One user, either of two.
MCOneShareEach == {<<Share(alice, 1)>>, <<Share(bob, 1)>>}

\* A category is deleted: what had it gets "other".
MCToOther == {[m \in Metas |-> m2]}

MCSymmetry == Permutations(Clients) \cup Permutations(RowIds)

\* Where no category is deleted, a value of Metas is like another.
MCSymmetryOfMetas == MCSymmetry \cup Permutations(Metas)
=============================================================================
