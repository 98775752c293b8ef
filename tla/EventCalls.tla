----------------------------- MODULE EventCalls -----------------------------
(***************************************************************************)
(* What planner and dispatchers promise: whatever messages of a weather    *)
(* event arrive, and however often each of them is delivered, a recipient  *)
(* gets one attempt for the event on each channel; and an attempt is       *)
(* called once, and again only for a reason of its own: its lease ran out, *)
(* or the answer to a call asked for a retry.                              *)
(*                                                                         *)
(* A key is an attempt that may be planned (message, user, channel); keys  *)
(* with the same slot stand for the same event, user and channel.          *)
(***************************************************************************)
EXTENDS Naturals

CONSTANTS
  Keys,      (* the attempts that may be planned                          *)
  slotOf     (* what an attempt is for                                    *)

VARIABLES
  planned,   (* the attempts that exist                                   *)
  calls,     (* how often each was claimed to be called                   *)
  again      (* how many reasons to call it again there were              *)

Init ==
  /\ planned = {}
  /\ calls = [k \in Keys |-> 0]
  /\ again = [k \in Keys |-> 0]

(* The first message to claim a slot gets it. *)
Plan(k) ==
  /\ \A j \in planned : slotOf[j] # slotOf[k]
  /\ planned' = planned \cup {k}
  /\ UNCHANGED <<calls, again>>

(* The claim finds only rows that are queued or whose lease ran out. *)
Call(k) ==
  /\ k \in planned
  /\ calls[k] <= again[k]
  /\ calls' = [calls EXCEPT ![k] = @ + 1]
  /\ UNCHANGED <<planned, again>>

(* The lease of a claim runs out, or the row is requeued. *)
Again(k) ==
  /\ calls[k] > 0
  /\ again' = [again EXCEPT ![k] = @ + 1]
  /\ UNCHANGED <<planned, calls>>

Next == \E k \in Keys : Plan(k) \/ Call(k) \/ Again(k)

Spec == Init /\ [][Next]_<<planned, calls, again>>
=============================================================================
