------------------------------ MODULE MCBroker ------------------------------
(* Small instances of Broker for TLC.                                      *)
EXTENDS Broker, TLC

(* Origins are only ever compared, so they are interchangeable.            *)
OriginSymmetry == Permutations(Origin)
=============================================================================
