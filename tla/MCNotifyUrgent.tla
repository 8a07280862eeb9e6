--------------------------- MODULE MCNotifyUrgent ---------------------------
(* Instances of NotifyUrgent for TLC.                                      *)
EXTENDS NotifyUrgent

(* A blocker, for both people, then a proposal to the first.              *)
BlockerThenProposal == [i \in Item |-> IF i = 2 THEN {1} ELSE Person]
=============================================================================
