--------------------------- MODULE MCGroupMembership ---------------------------
(* A small instance of GroupMembership for TLC. *)
EXTENDS GroupMembership, TLC

CONSTANTS alice, bob

MCOneCurrency == [u \in Users |-> "inr"]

\* The one share of a group transaction is bob's.
MCShareOfBob == {<<[user |-> bob, amt |-> 1]>>}

MCNoOpening == {}

MCAll == Users \X Users

MCSymmetry == Permutations(RowIds)
=============================================================================
