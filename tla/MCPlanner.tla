----------------------------- MODULE MCPlanner -----------------------------
(* Values for the constants of Planner. *)
EXTENDS Planner, TLC

OneMessage == {1}
TwoMessages == {1, 2}
OneEvent == {"e"}
BothOfOneEvent == [m \in Messages |-> "e"]
SecondWithoutEvent == [m \in Messages |-> IF m = 1 THEN "e" ELSE None]

OneUser == {"u"}
BothChannels == {"voice", "sms"}

\* Everybody is matched on every channel.
AllChannels == [m \in Messages |-> [u \in Users |-> Channels]]
\* Or on every channel for the first message, on voice for the second.
SecondOnVoice == [m \in Messages |-> [u \in Users |-> IF m = 1 THEN Channels ELSE {"voice"}]]
SecondOnSms == [m \in Messages |-> [u \in Users |-> IF m = 1 THEN Channels ELSE {"sms"}]]
\* Or on voice only.
VoiceForAll == [m \in Messages |-> [u \in Users |-> {"voice"}]]
\* A phone for calls only: sms attempts fail for want of a contact method.
VoiceMethod == [u \in Users |-> {"voice"}]

Symmetric == Permutations(Workers)
=============================================================================
