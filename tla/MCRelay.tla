------------------------------ MODULE MCRelay ------------------------------
(* Values for the constants of Relay. *)
EXTENDS Relay

TwoEvents == {1, 2}
First == {1}
OneRelay == {"r1"}
TwoRelays == {"r1", "r2"}
OneWorker == {"w1"}
TwoWorkers == {"w1", "w2"}
=============================================================================
