----------------------------- MODULE MCRecurring -----------------------------
(* Zones for the instances of Recurring: TLC's files have no negative numbers. *)
EXTENDS Recurring

NewYork == -5
=============================================================================
