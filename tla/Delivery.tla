------------------------------ MODULE Delivery ------------------------------
(***************************************************************************)
(* What the outbox and the stream promise together: a message that was     *)
(* committed is served at least once.  Its event is put into the stream    *)
(* one or more times; the outbox row may be retired once it is there; an   *)
(* entry is dropped when its message has been served.  Only Redis losing   *)
(* its data (Lose) drops entries before.                                   *)
(***************************************************************************)
EXTENDS Naturals, Sequences

CONSTANT Events       (* the outbox events, one for each message           *)

VARIABLES
  accepted,  (* the events whose rows are committed                       *)
  retired,   (* the events the outbox does not offer any more             *)
  entries,   (* all entries ever added                                    *)
  gone,      (* the entries up to this place are lost                     *)
  open,      (* the entries that are still to be served, by place         *)
  served     (* the events whose message was processed                    *)

vars == <<accepted, retired, entries, gone, open, served>>

Init ==
  /\ accepted = {}
  /\ retired = {}
  /\ entries = <<>>
  /\ gone = 0
  /\ open = {}
  /\ served = {}

Accept(e) ==
  /\ accepted' = accepted \cup {e}
  /\ UNCHANGED <<retired, entries, gone, open, served>>

Add(e) ==
  /\ e \in accepted
  /\ entries' = Append(entries, e)
  /\ open' = open \cup {Len(entries) + 1}
  /\ UNCHANGED <<accepted, retired, gone, served>>

Added(e) == \E i \in 1..Len(entries) : entries[i] = e

Retire(e) ==
  /\ Added(e)
  /\ retired' = retired \cup {e}
  /\ UNCHANGED <<accepted, entries, gone, open, served>>

Serve(e) ==
  /\ Added(e)
  /\ served' = served \cup {e}
  /\ UNCHANGED <<accepted, retired, entries, gone, open>>

Drop(i) ==
  /\ i \in open
  /\ entries[i] \in served
  /\ open' = open \ {i}
  /\ UNCHANGED <<accepted, retired, entries, gone, served>>

Lose ==
  /\ gone' = Len(entries)
  /\ open' = {}
  /\ UNCHANGED <<accepted, retired, entries, served>>

Next ==
  \/ \E e \in Events : Accept(e) \/ Add(e) \/ Retire(e) \/ Serve(e)
  \/ \E i \in open : Drop(i)
  \/ Lose

Spec == Init /\ [][Next]_vars
=============================================================================
