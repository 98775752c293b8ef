------------------------------- MODULE Relay -------------------------------
(***************************************************************************)
(* The way of an accepted message from the database to the workers: the    *)
(* outbox relay (OutboxRelay.PublishOnce) puts the events of unpublished   *)
(* rows into a Redis stream and marks the rows; the workers (Runner.Run)   *)
(* read the stream as one consumer group, process each message and         *)
(* acknowledge its entry; entries that stay pending are claimed again.     *)
(*                                                                         *)
(* The events of a batch are handled in the order of their ids, so that a  *)
(* batch is a set.  What processing a message does is in Planner; here it  *)
(* succeeds or fails.  The branches that drop an entry as malformed, of an *)
(* unknown type or without a message are left out: a row is only written   *)
(* by Service.ProcessEnvelope, with a payload of its own, in the           *)
(* transaction that inserts the message, and messages are never deleted.   *)
(* last_error is left out, nothing reads it.                               *)
(***************************************************************************)
EXTENDS Integers, Sequences, FiniteSets

CONSTANTS
  Events,      (* ids of outbox_events; each names one message            *)
  Poison,      (* the events whose message cannot be processed            *)
  Relays,      (* ingest processes, each with its relay                   *)
  Workers,
  BatchSize,   (* rows a relay lists at once                              *)
  ReadCount,   (* entries a worker reads or claims at once                *)
  MaxFaults,   (* bound on crashes, failed statements and lost replies    *)
  None

ASSUME RelayAssumption ==
  /\ Events \subseteq Nat
  /\ Poison \subseteq Events
  /\ IsFiniteSet(Relays)
  /\ BatchSize \in Nat \ {0} /\ ReadCount \in Nat \ {0}
  /\ MaxFaults \in Nat
  /\ None \notin Nat

VARIABLES
  outbox,     (* outbox_events                                            *)
  relay,      (* where each relay is in PublishOnce                       *)
  stream,     (* all entries ever added; an entry's id is its place       *)
  lost,       (* the entries up to this one are lost to Redis             *)
  group,      (* the consumer group's last delivered id, None: no group   *)
  pending,    (* entries that were delivered and not acknowledged         *)
  idle,       (* those of them that were so for ClaimMinIdle              *)
  worker,     (* where each worker is in Run                              *)
  processed,  (* the events whose message has the status 'processed'      *)
  faults

vars == <<outbox, relay, stream, lost, group, pending, idle, worker,
          processed, faults>>
redis == <<stream, lost, group, pending, idle>>

RowStatus == {"absent", "unpublished", "published"}
Row == [status : RowStatus, attempts : Nat]
RelayPc == {"list", "publish", "mark", "markFailed"}
RelayState == [pc : RelayPc, batch : SUBSET Events]
WorkerPc == {"claim", "read", "process", "ack"}
WorkerState == [pc : WorkerPc, batch : SUBSET (Nat \ {0}), next : {"claim", "read"}]

Start == [pc |-> "claim", batch |-> {}, next |-> "claim"]

Init ==
  /\ outbox = [e \in Events |-> [status |-> "absent", attempts |-> 0]]
  /\ relay = [r \in Relays |-> [pc |-> "list", batch |-> {}]]
  /\ stream = <<>>
  /\ lost = 0
  /\ group = None
  /\ pending = {}
  /\ idle = {}
  /\ worker = [w \in Workers |-> Start]
  /\ processed = {}
  /\ faults = 0

Fault == faults < MaxFaults /\ faults' = faults + 1

Least(S) == CHOOSE x \in S : \A y \in S : x <= y
FirstOf(n, S) == {x \in S : Cardinality({y \in S : y < x}) < n}

-----------------------------------------------------------------------------
(* The relay. *)

(* The transaction that accepts the message of e commits. *)
Accept(e) ==
  /\ outbox[e].status = "absent"
  /\ outbox' = [outbox EXCEPT ![e].status = "unpublished"]
  /\ UNCHANGED <<relay, redis, worker, processed, faults>>

(* Mutant: the rows that were published are listed as well. *)
ListedAlways == {e \in Events : outbox[e].status # "absent"}

Unpublished == {e \in Events : outbox[e].status = "unpublished"}

ListUnpublished(r) ==
  /\ relay[r].pc = "list"
  /\ Unpublished # {}
  /\ relay' = [relay EXCEPT ![r] = [pc |-> "publish", batch |-> FirstOf(BatchSize, Unpublished)]]
  /\ UNCHANGED <<outbox, redis, worker, processed, faults>>

InHand(r) == Least(relay[r].batch)
RelayGoto(r, pc) == relay' = [relay EXCEPT ![r].pc = pc]

NextEvent(r) ==
  LET rest == relay[r].batch \ {InHand(r)} IN
  relay' = [relay EXCEPT ![r] =
             [pc |-> IF rest = {} THEN "list" ELSE "publish", batch |-> rest]]

AbortBatch(r) == relay' = [relay EXCEPT ![r] = [pc |-> "list", batch |-> {}]]

XAdd(e) == stream' = Append(stream, e)

Publish(r) ==
  /\ relay[r].pc = "publish"
  /\ XAdd(InHand(r))
  /\ RelayGoto(r, "mark")
  /\ UNCHANGED <<outbox, lost, group, pending, idle, worker, processed, faults>>

(* XADD reports an error; the entry may be there nevertheless. *)
PublishFails(r) ==
  /\ relay[r].pc = "publish"
  /\ Fault
  /\ XAdd(InHand(r)) \/ UNCHANGED stream
  /\ RelayGoto(r, "markFailed")
  /\ UNCHANGED <<outbox, lost, group, pending, idle, worker, processed>>

Attempted(e, status) ==
  outbox' = [outbox EXCEPT ![e] = [status |-> status, attempts |-> outbox[e].attempts + 1]]

MarkPublished(r) ==
  /\ relay[r].pc = "mark"
  /\ Attempted(InHand(r), "published")
  /\ NextEvent(r)
  /\ UNCHANGED <<redis, worker, processed, faults>>

(* The statement reports an error, whether it was executed or not. *)
MarkPublishedFails(r) ==
  /\ relay[r].pc = "mark"
  /\ Fault
  /\ Attempted(InHand(r), "published") \/ UNCHANGED outbox
  /\ RelayGoto(r, "markFailed")
  /\ UNCHANGED <<redis, worker, processed>>

(* Mutant: a row that failed is not offered again. *)
MarkFailedForGood(r) ==
  /\ relay[r].pc = "markFailed"
  /\ Attempted(InHand(r), "published")
  /\ NextEvent(r)
  /\ UNCHANGED <<redis, worker, processed, faults>>

(* The row keeps its published_at, the batch goes on. *)
MarkFailed(r) ==
  /\ relay[r].pc = "markFailed"
  /\ Attempted(InHand(r), outbox[InHand(r)].status)
  /\ NextEvent(r)
  /\ UNCHANGED <<redis, worker, processed, faults>>

(* So does this one, and the batch ends; it belongs to the fault before.   *)
MarkFailedFails(r) ==
  /\ relay[r].pc = "markFailed"
  /\ Attempted(InHand(r), outbox[InHand(r)].status) \/ UNCHANGED outbox
  /\ AbortBatch(r)
  /\ UNCHANGED <<redis, worker, processed, faults>>

(* The process stops or dies, and starts again. *)
RelayStops(r) ==
  /\ relay[r].pc # "list"
  /\ Fault
  /\ AbortBatch(r)
  /\ UNCHANGED <<outbox, redis, worker, processed>>

-----------------------------------------------------------------------------
(* The workers. *)

WorkerGoto(w, pc) == worker' = [worker EXCEPT ![w] = [Start EXCEPT !.pc = pc]]

(* What processMessages is to do, and where Run goes on afterwards. *)
TakeUp(w, batch, next) ==
  worker' = [worker EXCEPT ![w] =
    IF batch = {} THEN [Start EXCEPT !.pc = next]
    ELSE [pc |-> "process", batch |-> batch, next |-> next]]

Message(w) == Least(worker[w].batch)
NextMessage(w) == TakeUp(w, worker[w].batch \ {Message(w)}, worker[w].next)

(* Mutant: the group is made anew each time. *)
EnsureGroupAnew == group' = lost

(* Mutant: the group begins with the entries to come. *)
EnsureGroupAtEnd == group' = IF group = None THEN Len(stream) ELSE group

(* XGROUP CREATE ... 0 MKSTREAM: the group begins with the oldest entry;   *)
(* BUSYGROUP is no error.                                                  *)
EnsureGroup == group' = IF group = None THEN lost ELSE group

(* XAUTOCLAIM, always from the oldest pending entry on. *)
Claimable == FirstOf(ReadCount, idle)

(* Run begins with both.  Redis losing the group between them makes the    *)
(* second fail and Run start over, which is no step.                       *)
AutoClaim(w) ==
  /\ worker[w].pc = "claim"
  /\ EnsureGroup
  /\ idle' = idle \ Claimable
  /\ TakeUp(w, Claimable, "read")
  /\ UNCHANGED <<outbox, relay, stream, lost, pending, processed, faults>>

(* XREADGROUP; without new entries it returns after the block time. *)
Fresh == IF group = None THEN {} ELSE FirstOf(ReadCount, (group + 1)..Len(stream))

Deliver ==
  /\ group' = group + Cardinality(Fresh)
  /\ pending' = pending \cup Fresh

ReadGroup(w) ==
  /\ worker[w].pc = "read"
  /\ group # None
  /\ Deliver
  /\ TakeUp(w, Fresh, "claim")
  /\ UNCHANGED <<outbox, relay, stream, lost, idle, processed, faults>>

(* The group went with Redis's data: NOGROUP, and Run starts over. *)
NoGroup(w) ==
  /\ worker[w].pc = "read"
  /\ group = None
  /\ WorkerGoto(w, "claim")
  /\ UNCHANGED <<outbox, relay, redis, processed, faults>>

(* The reply of either is lost; Redis has delivered the entries. *)
ReplyLost(w) ==
  /\ \/ worker[w].pc = "claim" /\ EnsureGroup /\ idle' = idle \ Claimable /\ UNCHANGED pending
     \/ worker[w].pc = "read" /\ group # None /\ Deliver /\ UNCHANGED idle
  /\ Fault
  /\ WorkerGoto(w, "claim")
  /\ UNCHANGED <<outbox, relay, stream, lost, processed>>

(* ProcessMessage up to its last statement, which sets the status. *)
Process(w) ==
  /\ worker[w].pc = "process"
  /\ stream[Message(w)] \notin Poison
  /\ processed' = processed \cup {stream[Message(w)]}
  /\ worker' = [worker EXCEPT ![w].pc = "ack"]
  /\ UNCHANGED <<outbox, relay, redis, faults>>

(* Mutant: the batch ends with the first error. *)
ProcessFailsEnding(w) ==
  /\ worker[w].pc = "process"
  /\ \/ stream[Message(w)] \in Poison /\ UNCHANGED <<processed, faults>>
     \/ /\ stream[Message(w)] \notin Poison
        /\ Fault
        /\ UNCHANGED processed
  /\ WorkerGoto(w, worker[w].next)
  /\ UNCHANGED <<outbox, relay, redis>>

(* Its error leaves the entry pending. *)
ProcessFails(w) ==
  /\ worker[w].pc = "process"
  /\ \/ stream[Message(w)] \in Poison /\ UNCHANGED <<processed, faults>>
     \/ /\ stream[Message(w)] \notin Poison
        /\ Fault
        /\ processed' \in {processed, processed \cup {stream[Message(w)]}}
  /\ NextMessage(w)
  /\ UNCHANGED <<outbox, relay, redis>>

Acked(i) == pending' = pending \ {i} /\ idle' = idle \ {i}

Ack(w) ==
  /\ worker[w].pc = "ack"
  /\ Acked(Message(w))
  /\ NextMessage(w)
  /\ UNCHANGED <<outbox, relay, stream, lost, group, processed, faults>>

(* ackBestEffort: an error is only logged. *)
AckFails(w) ==
  /\ worker[w].pc = "ack"
  /\ Fault
  /\ Acked(Message(w)) \/ UNCHANGED <<pending, idle>>
  /\ NextMessage(w)
  /\ UNCHANGED <<outbox, relay, stream, lost, group, processed>>

WorkerStops(w) ==
  /\ worker[w].pc \in {"process", "ack"}
  /\ Fault
  /\ WorkerGoto(w, "claim")
  /\ UNCHANGED <<outbox, relay, redis, processed>>

(* Time passes for a pending entry, whether a worker still has it or not. *)
Age(i) ==
  /\ i \in pending \ idle
  /\ idle' = idle \cup {i}
  /\ UNCHANGED <<outbox, relay, stream, lost, group, pending, worker, processed, faults>>

(* Redis restarts without its data. *)
RedisLoses ==
  /\ Fault
  /\ lost' = Len(stream)
  /\ group' = None
  /\ pending' = {}
  /\ idle' = {}
  /\ UNCHANGED <<outbox, relay, stream, worker, processed>>

-----------------------------------------------------------------------------
RelayStep(r) ==
  ListUnpublished(r) \/ Publish(r) \/ MarkPublished(r) \/ MarkFailed(r)

RelayFault(r) ==
  PublishFails(r) \/ MarkPublishedFails(r) \/ MarkFailedFails(r) \/ RelayStops(r)

WorkerStep(w) ==
  \/ AutoClaim(w) \/ NoGroup(w) \/ ReadGroup(w)
  \/ Process(w) \/ ProcessFails(w) \/ Ack(w)

WorkerFault(w) == ReplyLost(w) \/ AckFails(w) \/ WorkerStops(w)

Next ==
  \/ \E e \in Events : Accept(e)
  \/ \E r \in Relays : RelayStep(r) \/ RelayFault(r)
  \/ \E w \in Workers : WorkerStep(w) \/ WorkerFault(w)
  \/ \E i \in pending : Age(i)
  \/ RedisLoses

Spec == Init /\ [][Next]_vars

(* Processes that run take their next step, and time passes. *)
Fairness ==
  /\ \A r \in Relays : WF_vars(RelayStep(r))
  /\ \A w \in Workers : WF_vars(WorkerStep(w))
  /\ \A i \in 1..(Cardinality(Events) * (Cardinality(Relays) + MaxFaults)) : WF_vars(Age(i))

FairSpec == Spec /\ Fairness

-----------------------------------------------------------------------------
(* Properties. *)

Copies(e) == {i \in 1..Len(stream) : stream[i] = e}

(* The entries that are still to be acknowledged. *)
Open == {i \in (lost + 1)..Len(stream) :
           group = None \/ i > group \/ i \in pending}

LostToRedis(e) == Copies(e) # {} /\ \A i \in Copies(e) : i <= lost

(* Everything has its type, and entries are pending only once delivered.   *)
TypeOK ==
  /\ outbox \in [Events -> Row]
  /\ relay \in [Relays -> RelayState]
  /\ stream \in Seq(Events)
  /\ lost \in 0..Len(stream)
  /\ group \in {None} \cup lost..Len(stream)
  /\ pending \subseteq 1..Len(stream)
  /\ \A i \in pending : group # None /\ lost < i /\ i <= group
  /\ idle \subseteq pending
  /\ worker \in [Workers -> WorkerState]
  /\ \A w \in Workers : worker[w].batch \subseteq 1..Len(stream)
  /\ processed \subseteq Events
  /\ faults \in 0..MaxFaults

(* At no moment is an accepted message nowhere: until it is processed its  *)
(* row is still offered or an entry of it still open (PublishOnce marks    *)
(* after it publishes, processMessages acknowledges after it processes,    *)
(* the group begins with the oldest entry), unless Redis lost the entries. *)
NeverForgotten ==
  \A e \in Events :
    outbox[e].status # "absent" /\ e \notin processed /\ ~LostToRedis(e)
      => outbox[e].status = "unpublished" \/ \E i \in Open : stream[i] = e

(* A message gets more than one entry only by relays that listed the row   *)
(* before one of them marked it, and by faults; attempt_count tells of all *)
(* of them but those whose relay is at it or failed on the way             *)
(* (MarkPublished and MarkFailed each count one).                          *)
AtIt(e) == {r \in Relays : relay[r].pc \in {"mark", "markFailed"} /\ InHand(r) = e}
CopiesAccounted ==
  \A e \in Events :
    /\ Cardinality(Copies(e)) <= Cardinality(Relays) + faults
    /\ Cardinality(Copies(e)) <= outbox[e].attempts + Cardinality(AtIt(e)) + faults

(* The outbox and the stream serve every message at least once, whatever   *)
(* the workers and relays do at the same time.                             *)
Promise == INSTANCE Delivery WITH
  accepted <- {e \in Events : outbox[e].status # "absent"},
  retired <- {e \in Events : outbox[e].status = "published"},
  entries <- stream,
  gone <- lost,
  open <- Open,
  served <- processed
Delivers == Promise!Spec

(* As many entries as XAUTOCLAIM takes cannot be processed: it begins with *)
(* the oldest each time, and what comes after them may be left.            *)
Crowded == Cardinality({i \in pending : stream[i] \in Poison}) >= ReadCount

(* Every accepted message that can be processed is processed, if Redis     *)
(* does not lose it and entries that fail do not crowd it out.             *)
EveryMessageServed ==
  \A e \in Events \ Poison :
    outbox[e].status # "absent" ~> e \in processed \/ LostToRedis(e) \/ Crowded
=============================================================================
