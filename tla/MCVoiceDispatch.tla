-------------------------- MODULE MCVoiceDispatch --------------------------
(* Values for the constants of VoiceDispatch. *)
EXTENDS VoiceDispatch, TLC

\* One row, or three rows of which two belong to the message received first.
OneAttempt == {1}
TwoAttempts == {1, 2}
ThreeAttempts == {1, 2, 3}
TwoMessages == {"m1", "m2"}
OneMessage == {"m1"}
MCMessageOf == [a \in Attempts |-> IF a < 3 THEN "m1" ELSE "m2"]
MCReceivedAt == [m \in Messages |-> IF m = "m1" THEN 1 ELSE 2]
OddAttempts == {a \in Attempts : a % 2 = 1}

Symmetric == Permutations(Dispatchers)
=============================================================================
