---------------------------- MODULE RelayProofs ----------------------------
(***************************************************************************)
(* Proofs about the outbox relay and the workers' stream: its types are    *)
(* right, no accepted message is ever forgotten, and it implements         *)
(* Delivery, for any messages, relays, workers, batch sizes and faults.    *)
(***************************************************************************)
EXTENDS Relay, FiniteSetTheorems, WellFoundedInduction, TLAPS

(* The choice of the smallest number of a set, with which relays and       *)
(* workers go through their batches, finds one.                            *)
LEMMA LeastIn ==
  ASSUME NEW S \in SUBSET Nat, S # {}
  PROVE  Least(S) \in S /\ \A y \in S : Least(S) <= y
<1> DEFINE R == {p \in Nat \X Nat : p[1] < p[2]}
<1>1. IsWellFoundedOn(R, Nat)
  BY NatLessThanWellFounded, Zenon DEF OpToRel
<1>2. PICK x \in S : \A y \in S : <<y, x>> \notin R
  <2> HIDE DEF R
  <2> QED
    BY <1>1, WFMin
<1>3. \A y \in S : x <= y
  <2> TAKE y \in S
  <2>1. <<y, x>> \notin R
    BY <1>2
  <2>2. y \in Nat /\ x \in Nat
    OBVIOUS
  <2> QED
    BY <2>1, <2>2
<1> QED
  BY <1>3 DEF Least

(* What XREADGROUP delivers is the run of entries after the last one that  *)
(* was delivered, as long as the stream goes and as it may read.           *)
LEMMA FirstOfInterval ==
  ASSUME NEW a \in Nat, NEW b \in Nat, a <= b, NEW n \in Nat \ {0}
  PROVE  /\ Cardinality(FirstOf(n, (a + 1)..b)) \in 0..(b - a)
         /\ FirstOf(n, (a + 1)..b) = (a + 1)..(a + Cardinality(FirstOf(n, (a + 1)..b)))
<1> DEFINE I == (a + 1)..b
           F == FirstOf(n, I)
           c == IF a + n <= b THEN n ELSE b - a
<1>1. \A x \in I : Cardinality({y \in I : y < x}) = x - a - 1
  <2> TAKE x \in I
  <2>1. {y \in I : y < x} = (a + 1)..(x - 1)
    OBVIOUS
  <2>2. a + 1 \in Int /\ x - 1 \in Int
    OBVIOUS
  <2>3. Cardinality((a + 1)..(x - 1)) = IF a + 1 > x - 1 THEN 0 ELSE (x - 1) - (a + 1) + 1
    BY <2>2, FS_Interval
  <2>4. Cardinality((a + 1)..(x - 1)) = x - a - 1
    BY <2>3
  <2> QED
    BY <2>1, <2>4, Zenon
<1>2. F = {x \in I : x - a - 1 < n}
  BY <1>1 DEF FirstOf
<1>3. F = (a + 1)..(a + c)
  <2>1. {x \in I : x - a - 1 < n} = (a + 1)..(a + c)
    OBVIOUS
  <2> QED
    BY <1>2, <2>1
<1>4. c \in 0..(b - a)
  OBVIOUS
<1>5. Cardinality(F) = IF a + 1 > a + c THEN 0 ELSE (a + c) - (a + 1) + 1
  <2> HIDE DEF c
  <2> QED
    BY <1>3, <1>4, FS_Interval
<1>6. Cardinality(F) = c
  BY <1>4, <1>5
<1> QED
  BY <1>3, <1>4, <1>6

-----------------------------------------------------------------------------
(* What every reachable state keeps. *)

(* Whoever is at work has something in hand. *)
Busy ==
  /\ \A r \in Relays : relay[r].pc # "list" => relay[r].batch # {}
  /\ \A w \in Workers : worker[w].pc \in {"process", "ack"} => worker[w].batch # {}

Shape == TypeOK /\ Busy

(* An entry of e is in the stream s. *)
In(s, e) == \E i \in 1..Len(s) : s[i] = e

(* A relay only has rows in hand that were committed; a row is only marked *)
(* when an entry of it was added (PublishOnce publishes before it marks).  *)
Offered ==
  /\ \A r \in Relays : \A e \in relay[r].batch : outbox[e].status # "absent"
  /\ \A r \in Relays : relay[r].pc = "mark" => In(stream, InHand(r))
  /\ \A e \in Events : outbox[e].status = "published" => In(stream, e)

(* An entry is only gone from the group when its message was processed     *)
(* (processMessages acknowledges after ProcessMessage).                    *)
Served ==
  /\ \A w \in Workers : worker[w].pc = "ack" => stream[Message(w)] \in processed
  /\ \A i \in (lost + 1)..Len(stream) : i \notin Open => stream[i] \in processed

Kept == Shape /\ Offered /\ Served

-----------------------------------------------------------------------------
(* Types. *)

LEMMA InHandType ==
  ASSUME Shape, NEW r \in Relays, relay[r].pc # "list"
  PROVE  InHand(r) \in relay[r].batch /\ InHand(r) \in Events
<1>1. relay[r].batch \subseteq Events /\ relay[r].batch # {}
  BY DEF Shape, TypeOK, Busy, RelayState
<1>2. relay[r].batch \in SUBSET Nat
  BY <1>1, RelayAssumption
<1> QED
  BY <1>1, <1>2, LeastIn DEF InHand

LEMMA MessageType ==
  ASSUME Shape, NEW w \in Workers, worker[w].pc \in {"process", "ack"}
  PROVE  /\ Message(w) \in worker[w].batch
         /\ Message(w) \in 1..Len(stream)
         /\ stream[Message(w)] \in Events
<1>1. /\ worker[w].batch \subseteq 1..Len(stream)
      /\ worker[w].batch # {}
      /\ stream \in Seq(Events)
  BY DEF Shape, TypeOK, Busy
<1>2. worker[w].batch \in SUBSET Nat
  BY <1>1
<1>3. Message(w) \in worker[w].batch
  BY <1>1, <1>2, LeastIn DEF Message
<1> QED
  BY <1>1, <1>3

(* A relay goes on with its batch, with the next of it or with none. *)
LEMMA RelayMoves ==
  ASSUME Shape, NEW r \in Relays, NEW b \in SUBSET Events, NEW pc \in RelayPc,
         pc # "list" => b # {},
         relay' = [relay EXCEPT ![r] = [pc |-> pc, batch |-> b]]
  PROVE  /\ relay' \in [Relays -> RelayState]
         /\ \A q \in Relays : relay'[q].pc # "list" => relay'[q].batch # {}
         /\ relay'[r].pc = pc /\ relay'[r].batch = b
         /\ \A q \in Relays \ {r} : relay'[q] = relay[q]
<1> DEFINE next == [pc |-> pc, batch |-> b]
<1>1. next \in RelayState /\ next.pc = pc /\ next.batch = b
  BY DEF RelayState
<1>2. relay' = [relay EXCEPT ![r] = next]
  OBVIOUS
<1>3. relay \in [Relays -> RelayState]
  BY DEF Shape, TypeOK
<1> HIDE DEF next
<1>4. relay' \in [Relays -> RelayState]
  BY <1>1, <1>2, <1>3
<1>5. \A q \in Relays : relay'[q] = IF q = r THEN next ELSE relay[q]
  BY <1>2, <1>3
<1> QED
  BY <1>1, <1>4, <1>5 DEF Shape, Busy

LEMMA RelayGoes ==
  ASSUME Shape, NEW r \in Relays, NEW pc \in RelayPc, relay[r].batch # {}, RelayGoto(r, pc)
  PROVE  relay' = [relay EXCEPT ![r] = [pc |-> pc, batch |-> relay[r].batch]]
<1>1. relay[r] \in RelayState /\ relay \in [Relays -> RelayState]
  BY DEF Shape, TypeOK
<1>2. [relay[r] EXCEPT !.pc = pc] = [pc |-> pc, batch |-> relay[r].batch]
  BY <1>1 DEF RelayState
<1>3. relay' = [relay EXCEPT ![r] = [relay[r] EXCEPT !.pc = pc]]
  BY <1>1 DEF RelayGoto
<1> QED
  BY <1>2, <1>3

(* So does a worker. *)
LEMMA WorkerMoves ==
  ASSUME Shape, NEW w \in Workers, NEW b \in SUBSET (1..Len(stream)), NEW pc \in WorkerPc,
         NEW n \in {"claim", "read"},
         pc \in {"process", "ack"} => b # {},
         worker' = [worker EXCEPT ![w] = [pc |-> pc, batch |-> b, next |-> n]]
  PROVE  /\ worker' \in [Workers -> WorkerState]
         /\ \A v \in Workers : worker'[v].pc \in {"process", "ack"} => worker'[v].batch # {}
         /\ \A v \in Workers : worker'[v].batch \subseteq 1..Len(stream)
         /\ worker'[w].pc = pc /\ worker'[w].batch = b
         /\ \A v \in Workers \ {w} : worker'[v] = worker[v]
<1> DEFINE next == [pc |-> pc, batch |-> b, next |-> n]
<1>1. next \in WorkerState /\ next.pc = pc /\ next.batch = b
  BY DEF WorkerState
<1>2. worker' = [worker EXCEPT ![w] = next]
  OBVIOUS
<1>3. worker \in [Workers -> WorkerState]
  BY DEF Shape, TypeOK
<1> HIDE DEF next
<1>4. worker' \in [Workers -> WorkerState]
  BY <1>1, <1>2, <1>3
<1>5. \A v \in Workers : worker'[v] = IF v = w THEN next ELSE worker[v]
  BY <1>2, <1>3
<1> QED
  BY <1>1, <1>4, <1>5 DEF Shape, Busy, TypeOK

LEMMA WorkerTakesUp ==
  ASSUME Shape, NEW w \in Workers, NEW b \in SUBSET (1..Len(stream)),
         NEW n \in {"claim", "read"}, TakeUp(w, b, n)
  PROVE  \E pc \in {"claim", "read", "process"}, m \in {"claim", "read"} :
           /\ pc = "process" => b # {}
           /\ worker' = [worker EXCEPT ![w] = [pc |-> pc, batch |-> b, next |-> m]]
<1>1. CASE b = {}
  <2>1. [Start EXCEPT !.pc = n] = [pc |-> n, batch |-> b, next |-> "claim"]
    BY <1>1 DEF Start
  <2>2. worker' = [worker EXCEPT ![w] = [Start EXCEPT !.pc = n]]
    BY <1>1 DEF TakeUp
  <2> QED
    BY <2>1, <2>2
<1>2. CASE b # {}
  <2>1. worker' = [worker EXCEPT ![w] = [pc |-> "process", batch |-> b, next |-> n]]
    BY <1>2 DEF TakeUp
  <2> QED
    BY <1>2, <2>1
<1> QED
  BY <1>1, <1>2
(* The workers' part of the types, for their states s and n entries. *)
WorkersFit(s, n) ==
  /\ s \in [Workers -> WorkerState]
  /\ \A v \in Workers : s[v].pc \in {"process", "ack"} => s[v].batch # {}
  /\ \A v \in Workers : s[v].batch \subseteq 1..n

RelaysFit(s) ==
  /\ s \in [Relays -> RelayState]
  /\ \A q \in Relays : s[q].pc # "list" => s[q].batch # {}

LEMMA TakeUpFits ==
  ASSUME Shape, NEW w \in Workers, NEW b \in SUBSET (1..Len(stream)),
         NEW n \in {"claim", "read"}, TakeUp(w, b, n)
  PROVE  /\ WorkersFit(worker', Len(stream))
         /\ \A v \in Workers : worker'[v].pc = "ack" => worker'[v] = worker[v]
<1>1. PICK pc \in {"claim", "read", "process"}, m \in {"claim", "read"} :
        /\ pc = "process" => b # {}
        /\ worker' = [worker EXCEPT ![w] = [pc |-> pc, batch |-> b, next |-> m]]
  BY WorkerTakesUp
<1>2. pc \in WorkerPc /\ (pc \in {"process", "ack"} => b # {})
  BY <1>1 DEF WorkerPc
<1> QED
  BY <1>1, <1>2, WorkerMoves, ZenonT(40) DEF WorkersFit

LEMMA WorkerGoes ==
  ASSUME Shape, NEW w \in Workers, NEW n \in {"claim", "read"}, WorkerGoto(w, n)
  PROVE  /\ WorkersFit(worker', Len(stream))
         /\ \A v \in Workers : worker'[v].pc = "ack" => worker'[v] = worker[v]
<1>1. {} \in SUBSET (1..Len(stream))
  OBVIOUS
<1>2. TakeUp(w, {}, n)
  BY DEF TakeUp, WorkerGoto
<1> QED
  BY <1>1, <1>2, TakeUpFits

LEMMA NextMessageFits ==
  ASSUME Shape, NEW w \in Workers, NextMessage(w)
  PROVE  /\ WorkersFit(worker', Len(stream))
         /\ \A v \in Workers : worker'[v].pc = "ack" => worker'[v] = worker[v]
<1>1. worker[w].batch \ {Message(w)} \in SUBSET (1..Len(stream))
  BY DEF Shape, TypeOK
<1>2. worker[w].next \in {"claim", "read"}
  BY DEF Shape, TypeOK, WorkerState
<1>3. TakeUp(w, worker[w].batch \ {Message(w)}, worker[w].next)
  BY DEF NextMessage
<1> QED
  BY <1>1, <1>2, <1>3, TakeUpFits

ToAck(w) == worker' = [worker EXCEPT ![w].pc = "ack"]

LEMMA ProcessFits ==
  ASSUME Shape, NEW w \in Workers, worker[w].pc = "process", ToAck(w)
  PROVE  /\ WorkersFit(worker', Len(stream))
         /\ worker'[w].batch = worker[w].batch
         /\ \A v \in Workers \ {w} : worker'[v] = worker[v]
<1>1. worker[w] \in WorkerState /\ worker \in [Workers -> WorkerState]
  BY DEF Shape, TypeOK
<1>2. [worker[w] EXCEPT !.pc = "ack"]
        = [pc |-> "ack", batch |-> worker[w].batch, next |-> worker[w].next]
  BY <1>1 DEF WorkerState
<1>3. worker' = [worker EXCEPT ![w] =
                   [pc |-> "ack", batch |-> worker[w].batch, next |-> worker[w].next]]
  BY <1>1, <1>2 DEF ToAck
<1> DEFINE b == worker[w].batch
           n == worker[w].next
           pc == "ack"
<1>4. /\ b \in SUBSET (1..Len(stream)) /\ b # {}
      /\ n \in {"claim", "read"} /\ pc \in WorkerPc
      /\ pc \in {"process", "ack"} => b # {}
  BY <1>1 DEF Shape, TypeOK, Busy, WorkerState, WorkerPc
<1>5. worker' = [worker EXCEPT ![w] = [pc |-> pc, batch |-> b, next |-> n]]
  BY <1>3
<1> HIDE DEF b, n, pc
<1>6. /\ worker' \in [Workers -> WorkerState]
      /\ \A v \in Workers : worker'[v].pc \in {"process", "ack"} => worker'[v].batch # {}
      /\ \A v \in Workers : worker'[v].batch \subseteq 1..Len(stream)
      /\ worker'[w].pc = pc /\ worker'[w].batch = b
      /\ \A v \in Workers \ {w} : worker'[v] = worker[v]
  BY <1>4, <1>5, WorkerMoves
<1> QED
  BY <1>6 DEF WorkersFit, b

LEMMA RelayGoesFits ==
  ASSUME Shape, NEW r \in Relays, relay[r].pc # "list",
         NEW pc \in RelayPc \ {"list"}, RelayGoto(r, pc)
  PROVE  /\ RelaysFit(relay')
         /\ relay'[r].pc = pc /\ relay'[r].batch = relay[r].batch
         /\ \A q \in Relays \ {r} : relay'[q] = relay[q]
<1>1. relay[r].batch # {} /\ relay[r].batch \in SUBSET Events
  BY DEF Shape, Busy, TypeOK, RelayState
<1>2. relay' = [relay EXCEPT ![r] = [pc |-> pc, batch |-> relay[r].batch]]
  BY <1>1, RelayGoes
<1> QED
  BY <1>1, <1>2, RelayMoves DEF RelaysFit

LEMMA AbortFits ==
  ASSUME Shape, NEW r \in Relays, AbortBatch(r)
  PROVE  /\ RelaysFit(relay')
         /\ relay'[r].pc = "list" /\ relay'[r].batch = {}
         /\ \A q \in Relays \ {r} : relay'[q] = relay[q]
<1>1. {} \in SUBSET Events /\ "list" \in RelayPc
  BY DEF RelayPc
<1>2. relay' = [relay EXCEPT ![r] = [pc |-> "list", batch |-> {}]]
  BY DEF AbortBatch
<1> QED
  BY <1>1, <1>2, RelayMoves DEF RelaysFit

LEMMA NextEventFits ==
  ASSUME Shape, NEW r \in Relays, NextEvent(r)
  PROVE  /\ RelaysFit(relay')
         /\ relay'[r].pc \in {"list", "publish"} /\ relay'[r].batch \subseteq relay[r].batch
         /\ \A q \in Relays \ {r} : relay'[q] = relay[q]
<1> DEFINE rest == relay[r].batch \ {InHand(r)}
           pc == IF rest = {} THEN "list" ELSE "publish"
<1>1. rest \in SUBSET Events /\ rest \subseteq relay[r].batch
  BY DEF Shape, TypeOK, RelayState
<1>2. pc \in RelayPc /\ pc \in {"list", "publish"} /\ (pc # "list" => rest # {})
  BY DEF RelayPc
<1>3. relay' = [relay EXCEPT ![r] = [pc |-> pc, batch |-> rest]]
  BY DEF NextEvent
<1> HIDE DEF rest, pc
<1> QED
  BY <1>1, <1>2, <1>3, RelayMoves DEF RelaysFit
LEMMA AttemptedFits ==
  ASSUME Shape, NEW e \in Events, NEW status \in RowStatus, Attempted(e, status)
  PROVE  /\ outbox' \in [Events -> Row]
         /\ outbox'[e].status = status
         /\ \A f \in Events \ {e} : outbox'[f] = outbox[f]
<1> DEFINE row == [status |-> status, attempts |-> outbox[e].attempts + 1]
<1>1. outbox \in [Events -> Row] /\ outbox[e] \in Row
  BY DEF Shape, TypeOK
<1>2. row \in Row /\ row.status = status
  BY <1>1 DEF Row
<1>3. outbox' = [outbox EXCEPT ![e] = row]
  BY DEF Attempted
<1> HIDE DEF row
<1> QED
  BY <1>1, <1>2, <1>3

LEMMA XAddFits ==
  ASSUME Shape, NEW e \in Events, XAdd(e)
  PROVE  /\ stream' \in Seq(Events)
         /\ Len(stream') = Len(stream) + 1
         /\ stream'[Len(stream) + 1] = e
         /\ \A i \in 1..Len(stream) : stream'[i] = stream[i]
BY DEF XAdd, Shape, TypeOK

LEMMA FreshFits ==
  ASSUME Shape
  PROVE  /\ Fresh \in SUBSET (1..Len(stream))
         /\ group # None =>
              /\ group \in Nat /\ Cardinality(Fresh) \in Nat
              /\ group + Cardinality(Fresh) \in lost..Len(stream)
              /\ Fresh = (group + 1)..(group + Cardinality(Fresh))
<1>1. CASE group = None
  BY <1>1 DEF Fresh
<1>2. CASE group # None
  <2>1. lost \in Nat /\ Len(stream) \in Nat /\ group \in lost..Len(stream)
    BY <1>2 DEF Shape, TypeOK
  <2>2. group \in Nat /\ group <= Len(stream) /\ lost <= group
    BY <2>1
  <2>3. Fresh = FirstOf(ReadCount, (group + 1)..Len(stream))
    BY <1>2 DEF Fresh
  <2>4. ReadCount \in Nat \ {0}
    BY RelayAssumption
  <2>5. /\ Cardinality(Fresh) \in 0..(Len(stream) - group)
        /\ Fresh = (group + 1)..(group + Cardinality(Fresh))
    BY <2>1, <2>2, <2>3, <2>4, FirstOfInterval
  <2>6. Cardinality(Fresh) \in Nat /\ group + Cardinality(Fresh) \in lost..Len(stream)
    BY <2>1, <2>2, <2>5
  <2>7. Fresh \in SUBSET (1..Len(stream))
    <3> DEFINE c == Cardinality(Fresh)
    <3>1. Fresh = (group + 1)..(group + c) /\ c \in Nat /\ group + c <= Len(stream)
      BY <2>1, <2>2, <2>5, <2>6
    <3> HIDE DEF c
    <3> QED
      BY <2>1, <2>2, <3>1
  <2> QED
    BY <2>2, <2>5, <2>6, <2>7
<1> QED
  BY <1>1, <1>2
(* TypeOK and Busy, put together from the parts of the state. *)
LEMMA Together ==
  ASSUME outbox' \in [Events -> Row], RelaysFit(relay'),
         stream' \in Seq(Events), lost' \in 0..Len(stream'),
         group' \in {None} \cup lost'..Len(stream'),
         pending' \subseteq 1..Len(stream'),
         \A i \in pending' : group' # None /\ lost' < i /\ i <= group',
         idle' \subseteq pending', WorkersFit(worker', Len(stream')),
         processed' \subseteq Events, faults' \in 0..MaxFaults
  PROVE  Shape'
BY DEF Shape, TypeOK, Busy, RelaysFit, WorkersFit

LEMMA Parts ==
  ASSUME Shape
  PROVE  /\ outbox \in [Events -> Row] /\ RelaysFit(relay)
         /\ stream \in Seq(Events) /\ Len(stream) \in Nat /\ lost \in 0..Len(stream)
         /\ group \in {None} \cup lost..Len(stream)
         /\ pending \subseteq 1..Len(stream)
         /\ \A i \in pending : group # None /\ lost < i /\ i <= group
         /\ idle \subseteq pending /\ WorkersFit(worker, Len(stream))
         /\ processed \subseteq Events /\ faults \in 0..MaxFaults
BY DEF Shape, TypeOK, Busy, RelaysFit, WorkersFit

LEMMA FaultFits ==
  ASSUME Shape, Fault
  PROVE  faults' \in 0..MaxFaults
BY RelayAssumption DEF Fault, Shape, TypeOK

(* Adding an entry disturbs nothing that is there. *)
LEMMA XAddKeepsFit ==
  ASSUME Shape, NEW e \in Events, XAdd(e)
  PROVE  /\ lost \in 0..Len(stream')
         /\ group \in {None} \cup lost..Len(stream')
         /\ pending \subseteq 1..Len(stream')
         /\ WorkersFit(worker, Len(stream'))
<1>1. Len(stream') = Len(stream) + 1 /\ Len(stream) \in Nat
  BY XAddFits, Parts
<1>2. /\ 0..Len(stream) \subseteq 0..Len(stream')
      /\ 1..Len(stream) \subseteq 1..Len(stream')
      /\ lost..Len(stream) \subseteq lost..Len(stream')
  BY <1>1, Parts
<1> QED
  BY <1>2, Parts DEF WorkersFit

-----------------------------------------------------------------------------
(* The relay's steps keep the types. *)

LEMMA RelayStepShape ==
  ASSUME Shape, NEW r \in Relays, RelayStep(r) \/ RelayFault(r)
  PROVE  Shape'
<1>1. CASE ListUnpublished(r)
  <2> DEFINE b == FirstOf(BatchSize, Unpublished)
             pc == "publish"
  <2>1. relay' = [relay EXCEPT ![r] = [pc |-> pc, batch |-> b]]
    BY <1>1 DEF ListUnpublished
  <2>2. pc \in RelayPc
    BY DEF RelayPc
  <2>3. b \in SUBSET Events
    BY DEF FirstOf, Unpublished
  <2>4. b # {}
    <3>1. Unpublished \in SUBSET Nat /\ Unpublished # {}
      BY <1>1, RelayAssumption DEF ListUnpublished, Unpublished
    <3> DEFINE x == Least(Unpublished)
    <3>2. x \in Unpublished /\ \A y \in Unpublished : x <= y
      BY <3>1, LeastIn
    <3>3. {y \in Unpublished : y < x} = {}
      <4>1. ASSUME NEW y \in Unpublished, y < x
            PROVE  FALSE
        <5>1. x \in Nat /\ y \in Nat /\ x <= y
          BY <3>1, <3>2
        <5> HIDE DEF x
        <5> QED
          BY <4>1, <5>1
      <4> QED
        BY <4>1
    <3>4. Cardinality({y \in Unpublished : y < x}) < BatchSize
      BY <3>3, FS_EmptySet, RelayAssumption
    <3> QED
      BY <3>2, <3>4 DEF FirstOf
  <2> HIDE DEF b, pc
  <2>5. RelaysFit(relay')
    BY <2>1, <2>2, <2>3, <2>4, RelayMoves DEF RelaysFit
  <2> QED
    BY <1>1, <2>5, Parts, Together DEF ListUnpublished, redis
<1>2. CASE Publish(r)
  <2>1. InHand(r) \in Events /\ XAdd(InHand(r))
    BY <1>2, InHandType DEF Publish
  <2>2. RelaysFit(relay')
    <3>1. "mark" \in RelayPc \ {"list"}
      BY DEF RelayPc
    <3> QED
      BY <1>2, <3>1, RelayGoesFits DEF Publish
  <2> QED
    BY <1>2, <2>1, <2>2, XAddFits, XAddKeepsFit, Parts, Together DEF Publish
<1>3. CASE MarkPublished(r)
  <2>1. InHand(r) \in Events /\ "published" \in RowStatus
    BY <1>3, InHandType DEF MarkPublished, RowStatus
  <2>2. outbox' \in [Events -> Row]
    BY <1>3, <2>1, AttemptedFits DEF MarkPublished
  <2>3. RelaysFit(relay')
    BY <1>3, NextEventFits DEF MarkPublished
  <2> QED
    BY <1>3, <2>2, <2>3, Parts, Together DEF MarkPublished, redis
<1>4. CASE MarkFailed(r)
  <2>1. InHand(r) \in Events /\ outbox[InHand(r)].status \in RowStatus
    BY <1>4, InHandType, Parts DEF MarkFailed, Row
  <2>2. outbox' \in [Events -> Row]
    BY <1>4, <2>1, AttemptedFits DEF MarkFailed
  <2>3. RelaysFit(relay')
    BY <1>4, NextEventFits DEF MarkFailed
  <2> QED
    BY <1>4, <2>2, <2>3, Parts, Together DEF MarkFailed, redis
<1>5. CASE PublishFails(r)
  <2>1. InHand(r) \in Events /\ (XAdd(InHand(r)) \/ UNCHANGED stream)
    BY <1>5, InHandType DEF PublishFails
  <2>2. RelaysFit(relay')
    <3>1. "markFailed" \in RelayPc \ {"list"}
      BY DEF RelayPc
    <3> QED
      BY <1>5, <3>1, RelayGoesFits DEF PublishFails
  <2>3. faults' \in 0..MaxFaults
    BY <1>5, FaultFits DEF PublishFails
  <2>4. CASE XAdd(InHand(r))
    BY <1>5, <2>1, <2>2, <2>3, <2>4, XAddFits, XAddKeepsFit, Parts, Together DEF PublishFails
  <2>5. CASE UNCHANGED stream
    BY <1>5, <2>2, <2>3, <2>5, Parts, Together DEF PublishFails
  <2> QED
    BY <2>1, <2>4, <2>5
<1>6. CASE MarkPublishedFails(r)
  <2>1. InHand(r) \in Events /\ "published" \in RowStatus
    BY <1>6, InHandType DEF MarkPublishedFails, RowStatus
  <2>2. outbox' \in [Events -> Row]
    BY <1>6, <2>1, AttemptedFits, Parts DEF MarkPublishedFails
  <2>3. RelaysFit(relay')
    <3>1. "markFailed" \in RelayPc \ {"list"}
      BY DEF RelayPc
    <3> QED
      BY <1>6, <3>1, RelayGoesFits DEF MarkPublishedFails
  <2>4. faults' \in 0..MaxFaults
    BY <1>6, FaultFits DEF MarkPublishedFails
  <2> QED
    BY <1>6, <2>2, <2>3, <2>4, Parts, Together DEF MarkPublishedFails, redis
<1>7. CASE MarkFailedFails(r)
  <2>1. InHand(r) \in Events /\ outbox[InHand(r)].status \in RowStatus
    BY <1>7, InHandType, Parts DEF MarkFailedFails, Row
  <2>2. outbox' \in [Events -> Row]
    BY <1>7, <2>1, AttemptedFits, Parts DEF MarkFailedFails
  <2>3. RelaysFit(relay')
    BY <1>7, AbortFits DEF MarkFailedFails
  <2> QED
    BY <1>7, <2>2, <2>3, Parts, Together DEF MarkFailedFails, redis
<1>8. CASE RelayStops(r)
  <2>1. RelaysFit(relay') /\ faults' \in 0..MaxFaults
    BY <1>8, AbortFits, FaultFits DEF RelayStops
  <2> QED
    BY <1>8, <2>1, Parts, Together DEF RelayStops, redis
<1> QED
  BY <1>1, <1>2, <1>3, <1>4, <1>5, <1>6, <1>7, <1>8 DEF RelayStep, RelayFault
-----------------------------------------------------------------------------
(* So do the workers' steps and those of their surroundings. *)

LEMMA GroupFits ==
  ASSUME Shape, EnsureGroup
  PROVE  /\ group' \in {None} \cup lost..Len(stream)
         /\ \A i \in pending : group' # None /\ lost < i /\ i <= group'
         /\ group' # None
         /\ group # None => group' = group
         /\ group = None => pending = {} /\ group' = lost
BY Parts, RelayAssumption DEF EnsureGroup

LEMMA DeliverFits ==
  ASSUME Shape, group # None, Deliver
  PROVE  /\ group' \in {None} \cup lost..Len(stream)
         /\ pending' \subseteq 1..Len(stream)
         /\ \A i \in pending' : group' # None /\ lost < i /\ i <= group'
         /\ idle \subseteq pending'
<1> DEFINE c == Cardinality(Fresh)
<1>1. /\ Fresh \in SUBSET (1..Len(stream)) /\ group \in Nat /\ c \in Nat
      /\ group + c \in lost..Len(stream)
      /\ Fresh = (group + 1)..(group + c)
  BY FreshFits
<1>2. group' = group + c /\ pending' = pending \cup Fresh
  BY DEF Deliver
<1> HIDE DEF c
<1>3. lost \in Nat /\ lost <= group /\ group' \in Nat /\ group <= group'
  BY <1>1, <1>2, Parts
<1>4. group' # None
  BY <1>3, RelayAssumption
<1>5. \A i \in Fresh : lost < i /\ i <= group'
  BY <1>1, <1>2, <1>3
<1>6. \A i \in pending : lost < i /\ i <= group'
  <2> TAKE i \in pending
  <2>1. i \in Nat /\ lost < i /\ i <= group
    BY Parts
  <2> QED
    BY <1>1, <1>3, <2>1
<1> QED
  BY <1>1, <1>2, <1>4, <1>5, <1>6, Parts

LEMMA ClaimableFits ==
  ASSUME Shape
  PROVE  Claimable \in SUBSET (1..Len(stream)) /\ idle \ Claimable \subseteq pending
BY Parts DEF Claimable, FirstOf

LEMMA WorkerStepShape ==
  ASSUME Shape, NEW w \in Workers, WorkerStep(w) \/ WorkerFault(w)
  PROVE  Shape'
<1>1. CASE AutoClaim(w)
  <2>1. WorkersFit(worker', Len(stream))
    BY <1>1, ClaimableFits, TakeUpFits DEF AutoClaim
  <2> QED
    BY <1>1, <2>1, GroupFits, ClaimableFits, Parts, Together DEF AutoClaim
<1>2. CASE NoGroup(w)
  <2>1. WorkersFit(worker', Len(stream))
    BY <1>2, WorkerGoes DEF NoGroup
  <2> QED
    BY <1>2, <2>1, Parts, Together DEF NoGroup, redis
<1>3. CASE ReadGroup(w)
  <2>1. WorkersFit(worker', Len(stream))
    BY <1>3, FreshFits, TakeUpFits DEF ReadGroup
  <2> QED
    BY <1>3, <2>1, DeliverFits, Parts, Together DEF ReadGroup
<1>4. CASE Process(w)
  <2>1. WorkersFit(worker', Len(stream)) /\ stream[Message(w)] \in Events
    BY <1>4, ProcessFits, MessageType DEF Process, ToAck
  <2> QED
    BY <1>4, <2>1, Parts, Together DEF Process, redis
<1>5. CASE ProcessFails(w)
  <2>1. WorkersFit(worker', Len(stream)) /\ stream[Message(w)] \in Events
    BY <1>5, NextMessageFits, MessageType DEF ProcessFails
  <2>2. faults' \in 0..MaxFaults /\ processed' \subseteq Events
    BY <1>5, <2>1, FaultFits, Parts DEF ProcessFails
  <2> QED
    BY <1>5, <2>1, <2>2, Parts, Together DEF ProcessFails, redis
<1>6. CASE Ack(w)
  <2>1. WorkersFit(worker', Len(stream))
    BY <1>6, NextMessageFits DEF Ack
  <2> QED
    BY <1>6, <2>1, Parts, Together DEF Ack, Acked
<1>7. CASE ReplyLost(w)
  <2>1. WorkersFit(worker', Len(stream)) /\ faults' \in 0..MaxFaults
    BY <1>7, WorkerGoes, FaultFits DEF ReplyLost
  <2>2. CASE EnsureGroup /\ idle' = idle \ Claimable /\ UNCHANGED pending
    BY <1>7, <2>1, <2>2, GroupFits, ClaimableFits, Parts, Together DEF ReplyLost
  <2>3. CASE group # None /\ Deliver /\ UNCHANGED idle
    BY <1>7, <2>1, <2>3, DeliverFits, Parts, Together DEF ReplyLost
  <2> QED
    BY <1>7, <2>2, <2>3 DEF ReplyLost
<1>8. CASE AckFails(w)
  <2>1. WorkersFit(worker', Len(stream)) /\ faults' \in 0..MaxFaults
    BY <1>8, NextMessageFits, FaultFits DEF AckFails
  <2> QED
    BY <1>8, <2>1, Parts, Together DEF AckFails, Acked
<1>9. CASE WorkerStops(w)
  <2>1. WorkersFit(worker', Len(stream)) /\ faults' \in 0..MaxFaults
    BY <1>9, WorkerGoes, FaultFits DEF WorkerStops
  <2> QED
    BY <1>9, <2>1, Parts, Together DEF WorkerStops, redis
<1> QED
  BY <1>1, <1>2, <1>3, <1>4, <1>5, <1>6, <1>7, <1>8, <1>9 DEF WorkerStep, WorkerFault

LEMMA InitShape ==
  ASSUME Init
  PROVE  Shape
<1>1. Start \in WorkerState /\ Start.pc = "claim" /\ Start.batch = {}
  BY DEF Start, WorkerState, WorkerPc
<1>2. [pc |-> "list", batch |-> {}] \in RelayState
  BY DEF RelayState, RelayPc
<1>3. [status |-> "absent", attempts |-> 0] \in Row
  BY DEF Row, RowStatus
<1> QED
  BY <1>1, <1>2, <1>3, RelayAssumption DEF Init, Shape, TypeOK, Busy

LEMMA NextShape ==
  ASSUME Shape, [Next]_vars
  PROVE  Shape'
<1>1. ASSUME NEW e \in Events, Accept(e)
      PROVE  Shape'
  <2>1. outbox' \in [Events -> Row]
    BY <1>1, Parts DEF Accept, Row, RowStatus
  <2> QED
    BY <1>1, <2>1, Parts, Together DEF Accept, redis
<1>2. ASSUME NEW i \in pending, Age(i)
      PROVE  Shape'
  BY <1>2, Parts, Together DEF Age
<1>3. CASE RedisLoses
  <2>1. /\ lost' = Len(stream) /\ Len(stream') = Len(stream) /\ lost' \in 0..Len(stream')
        /\ faults' \in 0..MaxFaults
    BY <1>3, Parts, FaultFits DEF RedisLoses
  <2> QED
    BY <1>3, <2>1, Parts, Together DEF RedisLoses
<1>4. CASE UNCHANGED vars
  BY <1>4, Parts, Together DEF vars
<1> QED
  BY <1>1, <1>2, <1>3, <1>4, RelayStepShape, WorkerStepShape DEF Next

(* TypeOK: every variable keeps its type, and entries are pending only     *)
(* once delivered, for any relays, workers, batches and faults.            *)
THEOREM RelayTypeCorrect == Spec => []TypeOK
<1>1. Init => Shape
  BY InitShape
<1>2. Shape /\ [Next]_vars => Shape'
  BY NextShape
<1>3. Shape => TypeOK
  BY DEF Shape
<1> QED
  BY <1>1, <1>2, <1>3, PTL DEF Spec
-----------------------------------------------------------------------------
(* What is in the outbox, what is in the stream and what was processed.    *)

(* While entries are only added, what was added stays. *)
LEMMA AddedStays ==
  ASSUME Shape, stream' = stream \/ \E f \in Events : XAdd(f)
  PROVE  \A e : In(stream, e) => In(stream', e)
<1>1. CASE stream' = stream
  BY <1>1 DEF In
<1>2. ASSUME NEW f \in Events, XAdd(f)
      PROVE  \A e : In(stream, e) => In(stream', e)
  <2> TAKE e
  <2> SUFFICES ASSUME NEW i \in 1..Len(stream), stream[i] = e
               PROVE  \E j \in 1..Len(stream') : stream'[j] = e
    BY DEF In
  <2>1. Len(stream') = Len(stream) + 1 /\ stream'[i] = e /\ Len(stream) \in Nat
    BY <1>2, XAddFits, Parts
  <2>2. i \in 1..Len(stream')
    BY <2>1
  <2> QED
    BY <2>1, <2>2
<1> QED
  BY <1>1, <1>2

LEMMA XAddAdds ==
  ASSUME Shape, NEW e \in Events, XAdd(e)
  PROVE  In(stream', e)
<1>1. Len(stream) + 1 \in 1..Len(stream') /\ stream'[Len(stream) + 1] = e
  BY XAddFits, Parts
<1> QED
  BY <1>1 DEF In

(* The open entries grow by the one that is added. *)
LEMMA XAddOpens ==
  ASSUME Shape, NEW e \in Events, XAdd(e), UNCHANGED <<lost, group, pending>>
  PROVE  Open' = Open \cup {Len(stream) + 1}
<1> DEFINE n == Len(stream)
<1>1. /\ n \in Nat /\ lost \in 0..n /\ group \in {None} \cup lost..n
      /\ Len(stream') = n + 1
  BY Parts, XAddFits
<1>2. Open' = {i \in (lost + 1)..(n + 1) : group = None \/ i > group \/ i \in pending}
  BY <1>1 DEF Open
<1>3. Open = {i \in (lost + 1)..n : group = None \/ i > group \/ i \in pending}
  BY DEF Open
<1>4. group # None => n + 1 > group
  BY <1>1
<1> HIDE DEF n
<1>5. (lost + 1)..(n + 1) = (lost + 1)..n \cup {n + 1}
  BY <1>1
<1>6. Open' = Open \cup {n + 1}
  BY <1>2, <1>3, <1>4, <1>5
<1> QED
  BY <1>6 DEF n

(* Making sure that the group exists, claiming and reading leave every     *)
(* entry as open as it was.                                                *)
LEMMA EnsureGroupKeepsOpen ==
  ASSUME Shape, EnsureGroup, UNCHANGED <<stream, lost, pending>>
  PROVE  Open' = Open
<1>1. \A i \in (lost + 1)..Len(stream) :
        (group' = None \/ i > group' \/ i \in pending)
          <=> (group = None \/ i > group \/ i \in pending)
  <2>1. CASE group = None
    <3>1. group' = lost /\ lost \in Nat
      BY <2>1, GroupFits, Parts
    <3> QED
      BY <2>1, <3>1
  <2>2. CASE group # None
    BY <2>2, GroupFits
  <2> QED
    BY <2>1, <2>2
<1>2. Open' = {i \in (lost + 1)..Len(stream) : group' = None \/ i > group' \/ i \in pending}
  BY DEF Open
<1> QED
  BY <1>1, <1>2 DEF Open

LEMMA DeliverKeepsOpen ==
  ASSUME Shape, group # None, Deliver, UNCHANGED <<stream, lost>>
  PROVE  Open' = Open
<1> DEFINE c == Cardinality(Fresh)
<1>1. group \in Nat /\ c \in Nat /\ Fresh = (group + 1)..(group + c)
  BY FreshFits
<1>2. group' = group + c /\ pending' = pending \cup Fresh /\ group' # None
  BY <1>1, RelayAssumption DEF Deliver
<1> HIDE DEF c
<1>3. \A i \in (lost + 1)..Len(stream) :
        (i > group' \/ i \in pending') <=> (i > group \/ i \in pending)
  <2> TAKE i \in (lost + 1)..Len(stream)
  <2>1. i \in Nat
    BY Parts
  <2>2. i \in Fresh <=> i > group /\ i <= group + c
    BY <1>1, <2>1
  <2> QED
    BY <1>1, <1>2, <2>1, <2>2
<1>4. Open' = {i \in (lost + 1)..Len(stream) : group' = None \/ i > group' \/ i \in pending'}
  BY DEF Open
<1>5. Open' = {i \in (lost + 1)..Len(stream) : group = None \/ i > group \/ i \in pending}
  BY <1>2, <1>3, <1>4
<1> QED
  BY <1>5 DEF Open

(* Acknowledging closes the entry, if it was open. *)
LEMMA AckedCloses ==
  ASSUME Shape, NEW i \in 1..Len(stream), Acked(i), UNCHANGED <<stream, lost, group>>
  PROVE  (i \in pending /\ i \in Open /\ Open' = Open \ {i}) \/ Open' = Open
<1>1. Open' = {j \in (lost + 1)..Len(stream) : group = None \/ j > group \/ j \in pending \ {i}}
  BY DEF Open, Acked
<1>2. CASE i \in pending
  <2>1. group # None /\ lost < i /\ i <= group /\ lost \in Nat /\ group \in Nat
    BY <1>2, Parts
  <2>2. i \in (lost + 1)..Len(stream) /\ ~(i > group)
    BY <2>1
  <2>3. Open' = Open \ {i}
    BY <1>1, <2>1, <2>2 DEF Open
  <2> QED
    BY <1>2, <2>2, <2>3 DEF Open
<1>3. CASE i \notin pending
  <2>1. pending \ {i} = pending
    BY <1>3
  <2> QED
    BY <1>1, <2>1 DEF Open
<1> QED
  BY <1>2, <1>3

LEMMA LosesCloses ==
  ASSUME Shape, RedisLoses
  PROVE  Open' = {} /\ (lost' + 1)..Len(stream') = {}
<1>1. lost' = Len(stream) /\ Len(stream') = Len(stream) /\ Len(stream) \in Nat
  BY Parts DEF RedisLoses
<1>2. (lost' + 1)..Len(stream') = {}
  BY <1>1
<1> QED
  BY <1>2 DEF Open

LEMMA SameOpen ==
  ASSUME UNCHANGED <<stream, lost, group, pending>>
  PROVE  Open' = Open
BY DEF Open
-----------------------------------------------------------------------------
(* A row is only marked when an entry of it was added. *)

LEMMA OfferedKept ==
  ASSUME Offered,
         \A e : In(stream, e) => In(stream', e),
         \A e \in Events :
           /\ outbox'[e].status = "absent" => outbox[e].status = "absent"
           /\ outbox'[e].status = "published" => outbox[e].status = "published" \/ In(stream', e),
         \A q \in Relays : relay'[q].batch \subseteq Events,
         \A q \in Relays : \A e \in relay'[q].batch :
           e \in relay[q].batch \/ outbox[e].status # "absent",
         \A q \in Relays : relay'[q].pc = "mark" =>
           relay'[q] = relay[q] \/ In(stream', Least(relay'[q].batch))
  PROVE  Offered'
<1>1. \A q \in Relays : \A e \in relay'[q].batch : outbox'[e].status # "absent"
  BY DEF Offered
<1>2. \A q \in Relays : relay'[q].pc = "mark" => In(stream', Least(relay'[q].batch))
  <2> SUFFICES ASSUME NEW q \in Relays, relay'[q].pc = "mark", relay'[q] = relay[q]
               PROVE  In(stream', Least(relay'[q].batch))
    OBVIOUS
  <2>1. In(stream, Least(relay[q].batch))
    BY DEF Offered, InHand
  <2>2. In(stream', Least(relay[q].batch))
    BY <2>1
  <2> QED
    BY <2>2
<1>3. \A e \in Events : outbox'[e].status = "published" => In(stream', e)
  BY DEF Offered
<1> QED
  BY <1>1, <1>2, <1>3 DEF Offered, InHand

(* A step that leaves outbox and relays alone and removes no entry. *)
LEMMA OthersOffered ==
  ASSUME Shape, Offered, UNCHANGED <<outbox, relay, stream>>
  PROVE  Offered'
BY DEF Offered, InHand, In
LEMMA RelayStepOffered ==
  ASSUME Shape, Offered, NEW r \in Relays, RelayStep(r) \/ RelayFault(r)
  PROVE  Offered'
<1>1. Shape'
  BY RelayStepShape
<1>2. \A q \in Relays : relay'[q].batch \subseteq Events
  BY <1>1 DEF Shape, TypeOK, RelayState
<1>3. relay[r].pc # "list" => InHand(r) \in Events /\ InHand(r) \in relay[r].batch
  BY InHandType
<1>4. CASE ListUnpublished(r)
  <2> DEFINE b == FirstOf(BatchSize, Unpublished)
  <2>1. relay' = [relay EXCEPT ![r] = [pc |-> "publish", batch |-> b]]
        /\ relay \in [Relays -> RelayState]
    BY <1>4, Parts DEF ListUnpublished, RelaysFit
  <2>2. \A q \in Relays : relay'[q] = IF q = r THEN [pc |-> "publish", batch |-> b] ELSE relay[q]
    BY <2>1
  <2>3. \A e \in b : outbox[e].status # "absent"
    BY DEF FirstOf, Unpublished
  <2>4. \A q \in Relays : \A e \in relay'[q].batch : e \in relay[q].batch \/ outbox[e].status # "absent"
    BY <2>2, <2>3
  <2>5. \A q \in Relays : relay'[q].pc = "mark" => relay'[q] = relay[q]
    BY <2>2
  <2>6. UNCHANGED <<outbox, stream>>
    BY <1>4 DEF ListUnpublished, redis
  <2> QED
    BY <1>2, <2>4, <2>5, <2>6, OfferedKept
<1>5. CASE Publish(r)
  <2>1. /\ XAdd(InHand(r)) /\ InHand(r) \in Events /\ relay[r].pc # "list"
        /\ RelayGoto(r, "mark") /\ "mark" \in RelayPc \ {"list"} /\ UNCHANGED outbox
    BY <1>3, <1>5 DEF Publish, RelayPc
  <2>2. In(stream', InHand(r)) /\ \A e : In(stream, e) => In(stream', e)
    BY <2>1, XAddAdds, AddedStays
  <2>3. relay'[r].batch = relay[r].batch /\ \A q \in Relays \ {r} : relay'[q] = relay[q]
    BY <2>1, RelayGoesFits
  <2> QED
    BY <1>2, <2>1, <2>2, <2>3, OfferedKept DEF InHand
<1>6. CASE MarkPublished(r)
  <2>1. /\ Attempted(InHand(r), "published") /\ InHand(r) \in Events /\ "published" \in RowStatus
        /\ UNCHANGED stream /\ NextEvent(r) /\ relay[r].pc = "mark"
    BY <1>3, <1>6 DEF MarkPublished, redis, RowStatus
  <2>2. /\ outbox'[InHand(r)].status = "published"
        /\ \A f \in Events \ {InHand(r)} : outbox'[f] = outbox[f]
    BY <2>1, AttemptedFits
  <2>3. In(stream, InHand(r))
    BY <2>1 DEF Offered
  <2>4. /\ relay'[r].pc # "mark" /\ relay'[r].batch \subseteq relay[r].batch
        /\ \A q \in Relays \ {r} : relay'[q] = relay[q]
    BY <2>1, NextEventFits
  <2> QED
    BY <1>2, <2>1, <2>2, <2>3, <2>4, OfferedKept
<1>7. CASE MarkFailed(r)
  <2>1. /\ Attempted(InHand(r), outbox[InHand(r)].status) /\ InHand(r) \in Events
        /\ outbox[InHand(r)].status \in RowStatus
        /\ UNCHANGED stream /\ NextEvent(r)
    BY <1>3, <1>7, Parts DEF MarkFailed, redis, Row
  <2>2. \A f \in Events : outbox'[f].status = outbox[f].status
    BY <2>1, AttemptedFits
  <2>3. /\ relay'[r].pc # "mark" /\ relay'[r].batch \subseteq relay[r].batch
        /\ \A q \in Relays \ {r} : relay'[q] = relay[q]
    BY <2>1, NextEventFits
  <2> QED
    BY <1>2, <2>1, <2>2, <2>3, OfferedKept
<1>8. CASE PublishFails(r)
  <2>1. /\ InHand(r) \in Events /\ relay[r].pc # "list" /\ "markFailed" \in RelayPc \ {"list"}
        /\ RelayGoto(r, "markFailed") /\ UNCHANGED outbox
        /\ stream' = stream \/ \E f \in Events : XAdd(f)
    BY <1>3, <1>8 DEF PublishFails, RelayPc
  <2>2. \A e : In(stream, e) => In(stream', e)
    BY <2>1, AddedStays
  <2>3. /\ relay'[r].pc # "mark" /\ relay'[r].batch = relay[r].batch
        /\ \A q \in Relays \ {r} : relay'[q] = relay[q]
    BY <2>1, RelayGoesFits
  <2> QED
    BY <1>2, <2>1, <2>2, <2>3, OfferedKept
<1>9. CASE MarkPublishedFails(r)
  <2>1. /\ Attempted(InHand(r), "published") \/ UNCHANGED outbox
        /\ InHand(r) \in Events /\ "published" \in RowStatus
        /\ "markFailed" \in RelayPc \ {"list"} /\ RelayGoto(r, "markFailed")
        /\ UNCHANGED stream /\ relay[r].pc = "mark"
    BY <1>3, <1>9 DEF MarkPublishedFails, redis, RowStatus, RelayPc
  <2>2. /\ outbox'[InHand(r)].status \in {"published", outbox[InHand(r)].status}
        /\ \A f \in Events \ {InHand(r)} : outbox'[f] = outbox[f]
    BY <2>1, AttemptedFits
  <2>3. In(stream, InHand(r))
    BY <2>1 DEF Offered
  <2>4. /\ relay'[r].pc # "mark" /\ relay'[r].batch = relay[r].batch
        /\ \A q \in Relays \ {r} : relay'[q] = relay[q]
    BY <2>1, RelayGoesFits
  <2> QED
    BY <1>2, <2>1, <2>2, <2>3, <2>4, OfferedKept
<1>10. CASE MarkFailedFails(r) \/ RelayStops(r)
  <2>1. /\ AbortBatch(r) /\ UNCHANGED stream
        /\ \/ UNCHANGED outbox
           \/ /\ Attempted(InHand(r), outbox[InHand(r)].status)
              /\ InHand(r) \in Events /\ outbox[InHand(r)].status \in RowStatus
    BY <1>3, <1>10, Parts DEF MarkFailedFails, RelayStops, redis, Row
  <2>2. \A f \in Events : outbox'[f].status = outbox[f].status
    BY <2>1, AttemptedFits
  <2>3. /\ relay'[r].pc # "mark" /\ relay'[r].batch = {}
        /\ \A q \in Relays \ {r} : relay'[q] = relay[q]
    BY <2>1, AbortFits
  <2> QED
    BY <1>2, <2>1, <2>2, <2>3, OfferedKept
<1> QED
  BY <1>4, <1>5, <1>6, <1>7, <1>8, <1>9, <1>10 DEF RelayStep, RelayFault

-----------------------------------------------------------------------------
(* An entry is only gone from the group when its message was processed.    *)

LEMMA ServedKept ==
  ASSUME Shape, Served, processed \subseteq processed',
         \A i \in 1..Len(stream) : stream'[i] = stream[i],
         \A v \in Workers : worker'[v].pc = "ack" =>
           worker'[v] = worker[v] \/ stream'[Least(worker'[v].batch)] \in processed',
         \A i \in (lost' + 1)..Len(stream') : i \notin Open' =>
           \/ i \in (lost + 1)..Len(stream) /\ i \notin Open
           \/ stream'[i] \in processed'
  PROVE  Served'
<1>1. ASSUME NEW v \in Workers, worker'[v].pc = "ack"
      PROVE  stream'[Least(worker'[v].batch)] \in processed'
  <2>1. SUFFICES ASSUME worker'[v] = worker[v]
                 PROVE  stream'[Least(worker[v].batch)] \in processed'
    BY <1>1
  <2>2. /\ stream[Message(v)] \in processed /\ Message(v) \in 1..Len(stream)
        /\ Message(v) = Least(worker[v].batch)
    BY <1>1, <2>1, MessageType DEF Served, Message
  <2> QED
    BY <2>2
<1>2. ASSUME NEW i \in (lost' + 1)..Len(stream'), i \notin Open'
      PROVE  stream'[i] \in processed'
  <2>1. SUFFICES ASSUME i \in (lost + 1)..Len(stream), i \notin Open
                 PROVE  stream'[i] \in processed'
    BY <1>2
  <2>2. stream[i] \in processed
    BY <2>1 DEF Served
  <2>3. i \in 1..Len(stream)
    BY <2>1, Parts
  <2> QED
    BY <2>2, <2>3
<1> QED
  BY <1>1, <1>2 DEF Served, Message
LEMMA RelayStepServed ==
  ASSUME Shape, Served, NEW r \in Relays, RelayStep(r) \/ RelayFault(r)
  PROVE  Served'
<1>1. /\ UNCHANGED <<lost, group, pending, worker, processed>>
      /\ stream' = stream \/ \E e \in Events : XAdd(e)
  BY InHandType DEF RelayStep, RelayFault, ListUnpublished, Publish, MarkPublished, MarkFailed,
     PublishFails, MarkPublishedFails, MarkFailedFails, RelayStops, redis
<1>2. CASE stream' = stream
  BY <1>1, <1>2, SameOpen, ServedKept
<1>3. ASSUME NEW e \in Events, XAdd(e)
      PROVE  Served'
  <2>1. /\ Open' = Open \cup {Len(stream) + 1}
        /\ Len(stream') = Len(stream) + 1 /\ Len(stream) \in Nat /\ lost \in 0..Len(stream)
        /\ \A i \in 1..Len(stream) : stream'[i] = stream[i]
    BY <1>1, <1>3, XAddFits, XAddOpens, Parts
  <2>2. ASSUME NEW i \in (lost + 1)..(Len(stream) + 1), i \notin Open'
        PROVE  i \in (lost + 1)..Len(stream) /\ i \notin Open
    BY <2>1, <2>2
  <2> QED
    BY <1>1, <2>1, <2>2, ServedKept
<1> QED
  BY <1>1, <1>2, <1>3

LEMMA WorkerStepServed ==
  ASSUME Shape, Served, NEW w \in Workers, WorkerStep(w) \/ WorkerFault(w)
  PROVE  Served'
<1>1. UNCHANGED <<stream, lost>>
  BY DEF WorkerStep, WorkerFault, AutoClaim, NoGroup, ReadGroup, Process, ProcessFails, Ack,
     ReplyLost, AckFails, WorkerStops, redis
<1>2. CASE AutoClaim(w)
  <2>1. \A v \in Workers : worker'[v].pc = "ack" => worker'[v] = worker[v]
    BY <1>2, ClaimableFits, TakeUpFits DEF AutoClaim
  <2>2. Open' = Open
    BY <1>2, EnsureGroupKeepsOpen DEF AutoClaim
  <2> QED
    BY <1>1, <1>2, <2>1, <2>2, ServedKept DEF AutoClaim
<1>3. CASE NoGroup(w) \/ WorkerStops(w)
  <2>1. \A v \in Workers : worker'[v].pc = "ack" => worker'[v] = worker[v]
    BY <1>3, WorkerGoes DEF NoGroup, WorkerStops
  <2>2. Open' = Open
    BY <1>3, SameOpen DEF NoGroup, WorkerStops, redis
  <2> QED
    BY <1>1, <1>3, <2>1, <2>2, ServedKept DEF NoGroup, WorkerStops
<1>4. CASE ReadGroup(w)
  <2>1. \A v \in Workers : worker'[v].pc = "ack" => worker'[v] = worker[v]
    BY <1>4, FreshFits, TakeUpFits DEF ReadGroup
  <2>2. Open' = Open
    BY <1>4, DeliverKeepsOpen DEF ReadGroup
  <2> QED
    BY <1>1, <1>4, <2>1, <2>2, ServedKept DEF ReadGroup
<1>5. CASE Process(w)
  <2>1. /\ worker'[w].batch = worker[w].batch
        /\ \A v \in Workers \ {w} : worker'[v] = worker[v]
    BY <1>5, ProcessFits DEF Process, ToAck
  <2>2. stream[Least(worker[w].batch)] \in processed' /\ processed \subseteq processed'
    BY <1>5 DEF Process, Message
  <2>3. Open' = Open
    BY <1>5, SameOpen DEF Process, redis
  <2> QED
    BY <1>1, <2>1, <2>2, <2>3, ServedKept
<1>6. CASE ProcessFails(w)
  <2>1. \A v \in Workers : worker'[v].pc = "ack" => worker'[v] = worker[v]
    BY <1>6, NextMessageFits DEF ProcessFails
  <2>2. Open' = Open /\ processed \subseteq processed'
    BY <1>6, SameOpen DEF ProcessFails, redis
  <2> QED
    BY <1>1, <2>1, <2>2, ServedKept
<1>7. CASE Ack(w) \/ AckFails(w)
  <2>1. \A v \in Workers : worker'[v].pc = "ack" => worker'[v] = worker[v]
    BY <1>7, NextMessageFits DEF Ack, AckFails
  <2>2. stream[Message(w)] \in processed /\ Message(w) \in 1..Len(stream)
    BY <1>7, MessageType DEF Ack, AckFails, Served
  <2>3. Open' = Open \/ Open' = Open \ {Message(w)}
    <3>1. CASE Acked(Message(w))
      BY <1>7, <2>2, <3>1, AckedCloses DEF Ack, AckFails
    <3>2. CASE UNCHANGED <<pending, idle>>
      BY <1>7, <3>2, SameOpen DEF Ack, AckFails
    <3> QED
      BY <1>7, <3>1, <3>2 DEF Ack, AckFails
  <2>4. \A i \in (lost + 1)..Len(stream) : i \notin Open' => i \notin Open \/ stream[i] \in processed
    BY <2>2, <2>3
  <2> QED
    BY <1>1, <1>7, <2>1, <2>4, ServedKept DEF Ack, AckFails
<1>8. CASE ReplyLost(w)
  <2>1. \A v \in Workers : worker'[v].pc = "ack" => worker'[v] = worker[v]
    BY <1>8, WorkerGoes DEF ReplyLost
  <2>2. Open' = Open
    BY <1>8, EnsureGroupKeepsOpen, DeliverKeepsOpen DEF ReplyLost
  <2> QED
    BY <1>1, <1>8, <2>1, <2>2, ServedKept DEF ReplyLost
<1> QED
  BY <1>2, <1>3, <1>4, <1>5, <1>6, <1>7, <1>8 DEF WorkerStep, WorkerFault

-----------------------------------------------------------------------------
(* The invariant. *)

LEMMA InitKept ==
  ASSUME Init
  PROVE  Kept
<1>1. Shape
  BY InitShape
<1>2. Offered
  BY DEF Init, Offered
<1>3. Served
  BY DEF Init, Served, Start
<1> QED
  BY <1>1, <1>2, <1>3 DEF Kept

LEMMA NextKept ==
  ASSUME Kept, [Next]_vars
  PROVE  Kept'
<1> USE DEF Kept
<1>1. Shape'
  BY NextShape
<1>2. ASSUME NEW e \in Events, Accept(e)
      PROVE  Offered' /\ Served'
  <2>1. /\ outbox'[e].status = "unpublished" /\ \A f \in Events \ {e} : outbox'[f] = outbox[f]
        /\ UNCHANGED <<relay, stream>>
    BY <1>2, Parts DEF Accept, redis
  <2>2. \A q \in Relays : relay[q].batch \subseteq Events
    BY DEF Shape, TypeOK, RelayState
  <2>3. Offered'
    BY <2>1, <2>2, OfferedKept
  <2>4. Served'
    BY <1>2, SameOpen, ServedKept DEF Accept, redis
  <2> QED
    BY <2>3, <2>4
<1>3. ASSUME NEW r \in Relays, RelayStep(r) \/ RelayFault(r)
      PROVE  Offered' /\ Served'
  BY <1>3, RelayStepOffered, RelayStepServed
<1>4. ASSUME NEW w \in Workers, WorkerStep(w) \/ WorkerFault(w)
      PROVE  Offered' /\ Served'
  <2>1. UNCHANGED <<outbox, relay, stream>>
    BY <1>4 DEF WorkerStep, WorkerFault, AutoClaim, NoGroup, ReadGroup, Process, ProcessFails, Ack,
       ReplyLost, AckFails, WorkerStops, redis
  <2> QED
    BY <1>4, <2>1, OthersOffered, WorkerStepServed
<1>5. ASSUME NEW i \in pending, Age(i)
      PROVE  Offered' /\ Served'
  BY <1>5, OthersOffered, SameOpen, ServedKept DEF Age
<1>6. CASE RedisLoses
  <2>1. Offered'
    BY <1>6, OthersOffered DEF RedisLoses
  <2>2. Served'
    BY <1>6, LosesCloses, ServedKept DEF RedisLoses
  <2> QED
    BY <1>1, <2>1, <2>2
<1>7. CASE UNCHANGED vars
  BY <1>1, <1>7, OthersOffered, SameOpen, ServedKept DEF vars
<1> QED
  BY <1>1, <1>2, <1>3, <1>4, <1>5, <1>6, <1>7 DEF Next

LEMMA KeptForgetsNone ==
  ASSUME Kept
  PROVE  NeverForgotten
<1> SUFFICES ASSUME NEW e \in Events, outbox[e].status # "absent", e \notin processed,
                    ~LostToRedis(e), outbox[e].status # "unpublished"
             PROVE  \E i \in Open : stream[i] = e
  BY DEF NeverForgotten
<1>1. outbox[e].status = "published"
  BY Parts DEF Kept, Row, RowStatus
<1>2. In(stream, e)
  BY <1>1 DEF Kept, Offered
<1>3. Copies(e) # {}
  BY <1>2 DEF In, Copies
<1>4. PICK i \in Copies(e) : ~(i <= lost)
  BY <1>3 DEF LostToRedis
<1>5. i \in (lost + 1)..Len(stream) /\ stream[i] = e
  BY <1>4, Parts DEF Copies, Kept
<1>6. i \in Open
  BY <1>5 DEF Kept, Served
<1> QED
  BY <1>5, <1>6

LEMMA AlwaysKept == Spec => []Kept
<1>1. Init => Kept
  BY InitKept
<1>2. Kept /\ [Next]_vars => Kept'
  BY NextKept
<1> QED
  BY <1>1, <1>2, PTL DEF Spec

(* NeverForgotten: wherever relays and workers stop and whatever fails, an *)
(* accepted message that is not processed has its row still offered or an  *)
(* entry still open, unless Redis lost its entries.                        *)
THEOREM NoneForgotten == Spec => []NeverForgotten
<1>1. Kept => NeverForgotten
  BY KeptForgetsNone
<1> QED
  BY <1>1, AlwaysKept, PTL

-----------------------------------------------------------------------------
(* The refinement. *)

LEMMA StutterStep ==
  ASSUME Open' = Open, UNCHANGED <<stream, lost, processed>>,
         \A e \in Events : outbox'[e].status = outbox[e].status
  PROVE  UNCHANGED Promise!vars
BY DEF Promise!vars

LEMMA AddStep ==
  ASSUME Shape, NEW e \in Events, XAdd(e), outbox[e].status # "absent",
         UNCHANGED <<lost, group, pending, processed, outbox>>
  PROVE  Promise!Add(e)
<1>1. Open' = Open \cup {Len(stream) + 1}
  BY XAddOpens
<1>2. stream' = Append(stream, e)
  BY DEF XAdd
<1> QED
  BY <1>1, <1>2 DEF Promise!Add

LEMMA RelayStepImplements ==
  ASSUME Kept, NEW r \in Relays, RelayStep(r) \/ RelayFault(r)
  PROVE  (\E e \in Events : Promise!Add(e) \/ Promise!Retire(e)) \/ UNCHANGED Promise!vars
<1> USE DEF Kept
<1>1. /\ UNCHANGED <<lost, group, pending, processed>>
      /\ UNCHANGED stream => Open' = Open
  BY SameOpen DEF RelayStep, RelayFault, ListUnpublished, Publish, MarkPublished, MarkFailed,
     PublishFails, MarkPublishedFails, MarkFailedFails, RelayStops, redis
<1>2. relay[r].pc # "list" =>
        InHand(r) \in Events /\ outbox[InHand(r)].status # "absent"
  BY InHandType DEF Offered
<1>3. CASE ListUnpublished(r) \/ RelayStops(r)
  BY <1>1, <1>3, StutterStep DEF ListUnpublished, RelayStops, redis
<1>4. CASE Publish(r) \/ PublishFails(r)
  <2>1. /\ UNCHANGED outbox /\ relay[r].pc # "list"
        /\ XAdd(InHand(r)) \/ UNCHANGED stream
    BY <1>4 DEF Publish, PublishFails
  <2>2. CASE XAdd(InHand(r))
    BY <1>1, <1>2, <2>1, <2>2, AddStep
  <2>3. CASE UNCHANGED stream
    BY <1>1, <2>1, <2>3, StutterStep
  <2> QED
    BY <2>1, <2>2, <2>3
<1>5. CASE MarkPublished(r) \/ MarkPublishedFails(r)
  <2>1. /\ Attempted(InHand(r), "published") \/ UNCHANGED outbox
        /\ UNCHANGED stream /\ relay[r].pc = "mark" /\ "published" \in RowStatus
    BY <1>5 DEF MarkPublished, MarkPublishedFails, redis, RowStatus
  <2>2. CASE UNCHANGED outbox
    BY <1>1, <2>1, <2>2, StutterStep
  <2>3. CASE Attempted(InHand(r), "published")
    <3>1. PICK e \in Events : e = InHand(r)
      BY <1>2, <2>1
    <3>2. /\ outbox[e].status # "absent" /\ In(stream, e)
          /\ outbox'[e].status = "published" /\ \A f \in Events \ {e} : outbox'[f] = outbox[f]
      BY <1>2, <2>1, <2>3, <3>1, AttemptedFits DEF Offered
    <3>3. /\ {f \in Events : outbox'[f].status # "absent"} = {f \in Events : outbox[f].status # "absent"}
          /\ {f \in Events : outbox'[f].status = "published"}
               = {f \in Events : outbox[f].status = "published"} \cup {e}
      BY <3>2
    <3>4. Promise!Retire(e)
      BY <1>1, <2>1, <3>2, <3>3 DEF Promise!Retire, Promise!Added, In
    <3> QED
      BY <3>4, Zenon
  <2> QED
    BY <2>1, <2>2, <2>3
<1>6. CASE MarkFailed(r) \/ MarkFailedFails(r)
  <2>1. /\ Attempted(InHand(r), outbox[InHand(r)].status) \/ UNCHANGED outbox
        /\ UNCHANGED stream /\ relay[r].pc # "list"
    BY <1>6 DEF MarkFailed, MarkFailedFails, redis
  <2>2. outbox[InHand(r)].status \in RowStatus /\ InHand(r) \in Events
    BY <1>2, <2>1, Parts DEF Row
  <2>3. \A f \in Events : outbox'[f].status = outbox[f].status
    BY <2>1, <2>2, AttemptedFits
  <2> QED
    BY <1>1, <2>1, <2>3, StutterStep
<1> QED
  BY <1>3, <1>4, <1>5, <1>6 DEF RelayStep, RelayFault
LEMMA WorkerStepImplements ==
  ASSUME Kept, NEW w \in Workers, WorkerStep(w) \/ WorkerFault(w)
  PROVE  \/ \E e \in Events : Promise!Serve(e)
         \/ \E i \in Open : Promise!Drop(i)
         \/ UNCHANGED Promise!vars
<1> USE DEF Kept
<1>1. UNCHANGED <<outbox, stream, lost>>
  BY DEF WorkerStep, WorkerFault, AutoClaim, NoGroup, ReadGroup, Process, ProcessFails, Ack,
     ReplyLost, AckFails, WorkerStops, redis
<1>2. CASE AutoClaim(w)
  BY <1>1, <1>2, EnsureGroupKeepsOpen, StutterStep DEF AutoClaim
<1>3. CASE NoGroup(w) \/ WorkerStops(w)
  BY <1>1, <1>3, SameOpen, StutterStep DEF NoGroup, WorkerStops, redis
<1>4. CASE ReadGroup(w)
  BY <1>1, <1>4, DeliverKeepsOpen, StutterStep DEF ReadGroup
<1>5. CASE ReplyLost(w)
  BY <1>1, <1>5, EnsureGroupKeepsOpen, DeliverKeepsOpen, StutterStep DEF ReplyLost
<1>6. CASE Process(w) \/ ProcessFails(w)
  <2> DEFINE e == stream[Message(w)]
  <2>1. e \in Events /\ In(stream, e)
    BY <1>6, MessageType DEF Process, ProcessFails, In
  <2>2. Open' = Open
    BY <1>6, SameOpen DEF Process, ProcessFails, redis
  <2>3. processed' = processed \/ processed' = processed \cup {e}
    BY <1>6 DEF Process, ProcessFails
  <2> HIDE DEF e
  <2>4. CASE processed' = processed
    BY <1>1, <2>2, <2>4, StutterStep
  <2>5. CASE processed' = processed \cup {e}
    <3>1. Promise!Serve(e)
      BY <1>1, <2>1, <2>2, <2>5 DEF Promise!Serve, Promise!Added, In
    <3> QED
      BY <2>1, <3>1, Zenon
  <2> QED
    BY <2>3, <2>4, <2>5
<1>7. CASE Ack(w) \/ AckFails(w)
  <2> DEFINE i == Message(w)
  <2>1. i \in 1..Len(stream) /\ stream[i] \in processed
    BY <1>7, MessageType DEF Ack, AckFails, Served
  <2>2. UNCHANGED <<group, processed>> /\ (Acked(i) \/ UNCHANGED pending)
    BY <1>7 DEF Ack, AckFails
  <2> HIDE DEF i
  <2>3. (i \in Open /\ Open' = Open \ {i}) \/ Open' = Open
    BY <1>1, <2>1, <2>2, AckedCloses, SameOpen
  <2>4. CASE i \in Open /\ Open' = Open \ {i}
    <3>1. Promise!Drop(i)
      BY <1>1, <2>1, <2>2, <2>4 DEF Promise!Drop
    <3> QED
      BY <2>4, <3>1, Zenon
  <2>5. CASE Open' = Open
    BY <1>1, <2>2, <2>5, StutterStep
  <2> QED
    BY <2>3, <2>4, <2>5
<1> QED
  BY <1>2, <1>3, <1>4, <1>5, <1>6, <1>7 DEF WorkerStep, WorkerFault

LEMMA NextImplements ==
  ASSUME Kept, [Next]_vars
  PROVE  [Promise!Next]_(Promise!vars)
<1> USE DEF Kept
<1>1. ASSUME NEW e \in Events, Accept(e)
      PROVE  Promise!Next
  <2>1. /\ outbox'[e].status = "unpublished" /\ outbox[e].status = "absent"
        /\ \A f \in Events \ {e} : outbox'[f] = outbox[f]
        /\ UNCHANGED <<stream, lost, group, pending, processed>>
    BY <1>1, Parts DEF Accept, redis
  <2>2. /\ {f \in Events : outbox'[f].status # "absent"}
             = {f \in Events : outbox[f].status # "absent"} \cup {e}
        /\ {f \in Events : outbox'[f].status = "published"}
             = {f \in Events : outbox[f].status = "published"}
    BY <2>1
  <2>3. Promise!Accept(e)
    BY <2>1, <2>2, SameOpen DEF Promise!Accept
  <2> QED
    BY <2>3, Zenon DEF Promise!Next
<1>2. ASSUME NEW r \in Relays, RelayStep(r) \/ RelayFault(r)
      PROVE  Promise!Next \/ UNCHANGED Promise!vars
  BY <1>2, RelayStepImplements, Zenon DEF Promise!Next
<1>3. ASSUME NEW w \in Workers, WorkerStep(w) \/ WorkerFault(w)
      PROVE  Promise!Next \/ UNCHANGED Promise!vars
  BY <1>3, WorkerStepImplements, Zenon DEF Promise!Next
<1>4. ASSUME NEW i \in pending, Age(i)
      PROVE  UNCHANGED Promise!vars
  BY <1>4, SameOpen, StutterStep DEF Age
<1>5. CASE RedisLoses
  <2>1. Promise!Lose
    BY <1>5, LosesCloses DEF RedisLoses, Promise!Lose
  <2> QED
    BY <2>1, Zenon DEF Promise!Next
<1>6. CASE UNCHANGED vars
  BY <1>6, SameOpen, StutterStep DEF vars
<1> QED
  BY <1>1, <1>2, <1>3, <1>4, <1>5, <1>6 DEF Next

(* Delivers: outbox, relays, stream and workers together implement the     *)
(* abstract promise that a committed message is served at least once.      *)
THEOREM RelayImplementsDelivery == Spec => Delivers
<1>1. Init => Promise!Init
  <2> SUFFICES ASSUME Init
               PROVE  Promise!Init
    OBVIOUS
  <2>1. Open = {}
    BY DEF Init, Open
  <2> QED
    BY <2>1 DEF Init, Promise!Init
<1>2. Kept /\ [Next]_vars => [Promise!Next]_(Promise!vars)
  BY NextImplements
<1> QED
  BY <1>1, <1>2, AlwaysKept, PTL DEF Spec, Delivers, Promise!Spec

-----------------------------------------------------------------------------
(* The number of entries.  A message gets an entry by a relay that has its *)
(* row in hand.  While the row is unpublished, each entry is of a relay    *)
(* that is about to mark it or of a fault; once it is marked, only relays  *)
(* that still hold the row in a batch they listed before can add another.  *)

(* The relays that added an entry of e and are yet to mark its row, and    *)
(* those that may still add one.                                           *)
Marking(e) == {r \in Relays : relay[r].pc = "mark" /\ InHand(r) = e}
Holding(e) == {r \in Relays : relay[r].pc # "list" /\ e \in relay[r].batch /\ r \notin AtIt(e)}

AccountOf(e) ==
  /\ outbox[e].status # "published" =>
       Cardinality(Copies(e)) <= Cardinality(Marking(e)) + faults
  /\ outbox[e].status = "published" =>
       Cardinality(Copies(e)) + Cardinality(Holding(e)) <= Cardinality(Relays) + faults
  /\ Cardinality(Copies(e)) <= outbox[e].attempts + Cardinality(Marking(e)) + faults

Accounted == \A e \in Events : AccountOf(e)

(* The numbers in the account are numbers, and no relay is in it twice. *)
LEMMA AccountTypes ==
  ASSUME Shape, NEW e \in Events
  PROVE  /\ IsFiniteSet(Copies(e)) /\ Cardinality(Copies(e)) \in Nat
         /\ IsFiniteSet(Marking(e)) /\ Cardinality(Marking(e)) \in Nat
         /\ IsFiniteSet(Holding(e)) /\ Cardinality(Holding(e)) \in Nat
         /\ Cardinality(Marking(e)) + Cardinality(Holding(e)) <= Cardinality(Relays)
         /\ Cardinality(Relays) \in Nat /\ faults \in Nat /\ outbox[e].attempts \in Nat
<1>1. IsFiniteSet(Relays) /\ Cardinality(Relays) \in Nat
  BY RelayAssumption, FS_CardinalityType
<1>2. faults \in Nat /\ outbox[e].attempts \in Nat
  BY Parts, RelayAssumption DEF Row
<1>3. IsFiniteSet(Copies(e)) /\ Cardinality(Copies(e)) \in Nat
  <2>1. IsFiniteSet(1..Len(stream))
    BY Parts, FS_Interval
  <2>2. Copies(e) \in SUBSET (1..Len(stream))
    BY DEF Copies
  <2> QED
    BY <2>1, <2>2, FS_Subset, FS_CardinalityType
<1>4. Marking(e) \in SUBSET Relays /\ Holding(e) \in SUBSET Relays
  BY DEF Marking, Holding
<1>5. /\ IsFiniteSet(Marking(e)) /\ Cardinality(Marking(e)) \in Nat
      /\ IsFiniteSet(Holding(e)) /\ Cardinality(Holding(e)) \in Nat
  BY <1>1, <1>4, FS_Subset, FS_CardinalityType
<1>6. Cardinality(Marking(e)) + Cardinality(Holding(e)) <= Cardinality(Relays)
  <2>1. Marking(e) \cap Holding(e) = {}
    BY DEF Marking, Holding, AtIt
  <2>2. Cardinality(Marking(e) \cap Holding(e)) = 0
    BY <2>1, FS_EmptySet
  <2>3. Cardinality(Marking(e) \cup Holding(e))
          = Cardinality(Marking(e)) + Cardinality(Holding(e)) - Cardinality(Marking(e) \cap Holding(e))
    BY <1>5, FS_Union
  <2>4. Marking(e) \cup Holding(e) \in SUBSET Relays
    BY <1>4
  <2>5. Cardinality(Marking(e) \cup Holding(e)) <= Cardinality(Relays)
    BY <1>1, <2>4, FS_Subset
  <2> QED
    BY <1>5, <2>2, <2>3, <2>5
<1> QED
  BY <1>1, <1>2, <1>3, <1>5, <1>6

(* What a step can do to the account of e: nothing that counts; an entry   *)
(* and a relay that will mark; a fault and at most an entry; a mark; a     *)
(* fault and a relay that marks no more.                                   *)
RowKept(e) ==
  /\ outbox'[e].status = "published" <=> outbox[e].status = "published"
  /\ outbox'[e].attempts >= outbox[e].attempts

Nothing(e) ==
  /\ Copies(e)' = Copies(e)
  /\ Marking(e)' = Marking(e)
  /\ outbox[e].status = "published" => Holding(e)' \subseteq Holding(e)
  /\ RowKept(e)
  /\ faults' >= faults

Entry(e) ==
  /\ Copies(e)' = Copies(e) \cup {Len(stream) + 1}
  /\ \E r \in Holding(e) \ Marking(e) :
       Marking(e)' = Marking(e) \cup {r} /\ Holding(e)' \subseteq Holding(e) \ {r}
  /\ RowKept(e)
  /\ faults' = faults

EntryFails(e) ==
  /\ Copies(e)' \subseteq Copies(e) \cup {Len(stream) + 1}
  /\ Marking(e)' = Marking(e) /\ Holding(e)' \subseteq Holding(e)
  /\ RowKept(e)
  /\ faults' = faults + 1

Mark(e) ==
  /\ Copies(e)' = Copies(e)
  /\ \E r \in Marking(e) : Marking(e)' = Marking(e) \ {r}
  /\ Holding(e)' \subseteq Holding(e)
  /\ outbox'[e].status = "published" /\ outbox'[e].attempts = outbox[e].attempts + 1
  /\ faults' = faults

MarkFails(e) ==
  /\ Copies(e)' = Copies(e)
  /\ \E r \in Marking(e) : Marking(e)' = Marking(e) \ {r}
  /\ Holding(e)' \subseteq Holding(e)
  /\ outbox'[e].status \in {outbox[e].status, "published"}
  /\ outbox'[e].attempts >= outbox[e].attempts
  /\ faults' = faults + 1

Booked(e) == Nothing(e) \/ Entry(e) \/ EntryFails(e) \/ Mark(e) \/ MarkFails(e)

(* Each of them leaves the account right. *)
LEMMA BookedKeepsAccount ==
  ASSUME Shape, Shape', NEW e \in Events, AccountOf(e), Booked(e)
  PROVE  AccountOf(e)'
<1>1. /\ IsFiniteSet(Copies(e)) /\ IsFiniteSet(Marking(e)) /\ IsFiniteSet(Holding(e))
      /\ Cardinality(Copies(e)) \in Nat /\ Cardinality(Marking(e)) \in Nat
      /\ Cardinality(Holding(e)) \in Nat
      /\ Cardinality(Marking(e)) + Cardinality(Holding(e)) <= Cardinality(Relays)
      /\ Cardinality(Relays) \in Nat /\ faults \in Nat /\ outbox[e].attempts \in Nat
  BY AccountTypes
<1>2. /\ Cardinality(Copies(e)') \in Nat /\ Cardinality(Marking(e)') \in Nat
      /\ Cardinality(Holding(e)') \in Nat
      /\ faults' \in Nat /\ outbox'[e].attempts \in Nat
  <2>1. /\ IsFiniteSet(Copies(e))' /\ (Cardinality(Copies(e)) \in Nat)'
        /\ IsFiniteSet(Marking(e))' /\ (Cardinality(Marking(e)) \in Nat)'
        /\ IsFiniteSet(Holding(e))' /\ (Cardinality(Holding(e)) \in Nat)'
        /\ (Cardinality(Marking(e)) + Cardinality(Holding(e)) <= Cardinality(Relays))'
        /\ (Cardinality(Relays) \in Nat)' /\ (faults \in Nat)' /\ (outbox[e].attempts \in Nat)'
    BY AccountTypes, PTL
  <2> QED
    BY <2>1
<1>3. Holding(e)' \subseteq Holding(e) => Cardinality(Holding(e)') <= Cardinality(Holding(e))
  BY <1>1, FS_Subset
<1> DEFINE c == Cardinality(Copies(e))
           d == Cardinality(Copies(e)')
           m == Cardinality(Marking(e))
           l == Cardinality(Marking(e)')
           h == Cardinality(Holding(e))
           k == Cardinality(Holding(e)')
           n == Cardinality(Relays)
           a == outbox[e].attempts
           b == outbox'[e].attempts
           was == outbox[e].status = "published"
           is == outbox'[e].status = "published"
<1>4. /\ ~was => c <= m + faults
      /\ was => c + h <= n + faults
      /\ c <= a + m + faults
      /\ c \in Nat /\ m \in Nat /\ h \in Nat /\ n \in Nat /\ a \in Nat /\ faults \in Nat
      /\ d \in Nat /\ l \in Nat /\ k \in Nat /\ b \in Nat /\ faults' \in Nat
      /\ m + h <= n
  BY <1>1, <1>2 DEF AccountOf
<1>5. SUFFICES /\ ~is => d <= l + faults'
               /\ is => d + k <= n + faults'
               /\ d <= b + l + faults'
  BY DEF AccountOf
<1>6. CASE Nothing(e)
  <2> DEFINE F == faults
             G == faults'
  <2>1. /\ d = c /\ l = m /\ (was => k <= h) /\ (is <=> was) /\ a <= b /\ F <= G
    BY <1>1, <1>2, <1>3, <1>6 DEF Nothing, RowKept
  <2>2. F \in Nat /\ G \in Nat
    BY <1>4
  <2>3. SUFFICES /\ ~is => d <= l + G
                 /\ is => d + k <= n + G
                 /\ d <= b + l + G
    OBVIOUS
  <2>4. /\ ~was => c <= m + F
        /\ was => c + h <= n + F
        /\ c <= a + m + F
    BY <1>4
  <2> HIDE DEF a, b, c, d, h, k, l, m, n, was, is, F, G
  <2> QED
    BY <1>4, <2>1, <2>2, <2>4
<1>7. CASE Entry(e)
  <2>1. PICK r \in Holding(e) \ Marking(e) :
          Marking(e)' = Marking(e) \cup {r} /\ Holding(e)' \subseteq Holding(e) \ {r}
    BY <1>7 DEF Entry
  <2>2. l = m + 1
    BY <1>1, <2>1, FS_AddElement
  <2>3. k <= h - 1
    <3>1. IsFiniteSet(Holding(e) \ {r}) /\ Cardinality(Holding(e) \ {r}) = h - 1
      BY <1>1, <2>1, FS_RemoveElement
    <3>2. Cardinality(Holding(e)') <= Cardinality(Holding(e) \ {r})
      BY <2>1, <3>1, FS_Subset
    <3> QED
      BY <3>1, <3>2
  <2>4. d <= c + 1
    <3>1. d = IF Len(stream) + 1 \in Copies(e) THEN c ELSE c + 1
      BY <1>1, <1>7, FS_AddElement DEF Entry
    <3> HIDE DEF c, d
    <3> QED
      BY <1>4, <3>1
  <2>5. (is <=> was) /\ b >= a /\ faults' = faults
    BY <1>7 DEF Entry, RowKept
  <2> HIDE DEF a, b, c, d, h, k, l, m, n, was, is
  <2> QED
    BY <1>4, <2>2, <2>3, <2>4, <2>5
<1>8. CASE EntryFails(e)
  <2>1. l = m /\ k <= h /\ (is <=> was) /\ b >= a /\ faults' = faults + 1
    BY <1>3, <1>8 DEF EntryFails, RowKept
  <2>2. d <= c + 1
    <3> DEFINE more == Copies(e) \cup {Len(stream) + 1}
    <3>1. /\ IsFiniteSet(more)
          /\ Cardinality(more) = IF Len(stream) + 1 \in Copies(e) THEN c ELSE c + 1
      BY <1>1, FS_AddElement
    <3>2. d <= Cardinality(more)
      BY <1>8, <3>1, FS_Subset DEF EntryFails
    <3> HIDE DEF c, d, more
    <3> QED
      BY <1>4, <3>1, <3>2
  <2> HIDE DEF a, b, c, d, h, k, l, m, n, was, is
  <2> QED
    BY <1>4, <2>1, <2>2
<1>9. CASE Mark(e) \/ MarkFails(e)
  <2>1. PICK r \in Marking(e) : Marking(e)' = Marking(e) \ {r}
    BY <1>9 DEF Mark, MarkFails
  <2>2. l = m - 1
    BY <1>1, <2>1, FS_RemoveElement
  <2>3. d = c /\ k <= h
    BY <1>3, <1>9 DEF Mark, MarkFails
  <2>4. CASE Mark(e)
    <3>1. is /\ b = a + 1 /\ faults' = faults
      BY <2>4 DEF Mark
    <3> HIDE DEF a, b, c, d, h, k, l, m, n, was, is
    <3> QED
      BY <1>4, <2>2, <2>3, <3>1
  <2>5. CASE MarkFails(e)
    <3>1. (was => is) /\ b >= a /\ faults' = faults + 1
      BY <2>5 DEF MarkFails
    <3> HIDE DEF a, b, c, d, h, k, l, m, n, was, is
    <3> QED
      BY <1>4, <2>2, <2>3, <3>1
  <2> QED
    BY <1>9, <2>4, <2>5
<1> QED
  BY <1>6, <1>7, <1>8, <1>9 DEF Booked
(* Where one relay is in the account decides; the others stay.             *)
LEMMA OneRelayMoves ==
  ASSUME NEW r \in Relays, NEW e \in Events, \A q \in Relays \ {r} : relay'[q] = relay[q]
  PROVE  /\ Marking(e)' \ {r} = Marking(e) \ {r}
         /\ Holding(e)' \ {r} = Holding(e) \ {r}
         /\ r \in Marking(e) <=> relay[r].pc = "mark" /\ InHand(r) = e
         /\ r \in Marking(e)' <=> relay'[r].pc = "mark" /\ InHand(r)' = e
         /\ r \in Holding(e) <=>
              /\ relay[r].pc # "list" /\ e \in relay[r].batch
              /\ ~(relay[r].pc \in {"mark", "markFailed"} /\ InHand(r) = e)
         /\ r \in Holding(e)' <=>
              /\ relay'[r].pc # "list" /\ e \in relay'[r].batch
              /\ ~(relay'[r].pc \in {"mark", "markFailed"} /\ InHand(r)' = e)
         /\ (r \in Marking(e)' <=> r \in Marking(e)) => Marking(e)' = Marking(e)
<1>1. \A q \in Relays \ {r} : q \in Marking(e)' <=> q \in Marking(e)
  BY DEF Marking, InHand
<1>2. Marking(e)' \subseteq Relays /\ Marking(e) \subseteq Relays
  BY DEF Marking
<1>3. (r \in Marking(e)' <=> r \in Marking(e)) => Marking(e)' = Marking(e)
  BY <1>1, <1>2
<1> QED
  BY <1>3 DEF Marking, Holding, AtIt, InHand

LEMMA XAddCopies ==
  ASSUME Shape, NEW e \in Events, NEW f \in Events, XAdd(f)
  PROVE  Copies(e)' = IF e = f THEN Copies(e) \cup {Len(stream) + 1} ELSE Copies(e)
<1>1. /\ Len(stream) \in Nat /\ Len(stream') = Len(stream) + 1
      /\ stream'[Len(stream) + 1] = f
      /\ \A i \in 1..Len(stream) : stream'[i] = stream[i]
  BY XAddFits, Parts
<1>2. \A i : i \in 1..Len(stream') <=> i \in 1..Len(stream) \/ i = Len(stream) + 1
  BY <1>1
<1> QED
  BY <1>1, <1>2 DEF Copies

(* A statement on the row of f leaves the other rows, and counts on f. *)
LEMMA AttemptedCounts ==
  ASSUME Shape, NEW e \in Events, NEW f \in Events, NEW status \in RowStatus,
         Attempted(f, status)
  PROVE  /\ e # f => outbox'[e] = outbox[e]
         /\ outbox'[f].status = status /\ outbox'[f].attempts = outbox[f].attempts + 1
         /\ outbox'[e].attempts >= outbox[e].attempts
<1>1. outbox[e].attempts \in Nat /\ outbox[f].attempts \in Nat
  BY Parts DEF Row
<1>2. \A g \in Events :
        outbox'[g] = IF g = f THEN [status |-> status, attempts |-> outbox[f].attempts + 1]
                     ELSE outbox[g]
  BY Parts DEF Attempted
<1> QED
  BY <1>1, <1>2

LEMMA RelayBooked ==
  ASSUME Shape, NEW e \in Events, NEW r \in Relays, RelayStep(r) \/ RelayFault(r)
  PROVE  Booked(e)
<1> DEFINE f == InHand(r)
<1>1. outbox[e].attempts \in Nat /\ outbox[e].status \in RowStatus /\ faults \in Nat
  BY Parts, RelayAssumption DEF Row
<1>2. Copies(e)' = Copies(e) \/ ~UNCHANGED stream
  BY DEF Copies
<1>3. relay[r].pc # "list" => f \in relay[r].batch /\ f \in Events
  BY InHandType
<1>4. CASE ListUnpublished(r)
  <2>1. /\ \A q \in Relays \ {r} : relay'[q] = relay[q]
        /\ relay'[r].pc = "publish" /\ relay'[r].batch \subseteq Unpublished
    BY <1>4, Parts DEF ListUnpublished, FirstOf, RelaysFit
  <2>2. Marking(e)' = Marking(e)
    BY <1>4, <2>1, OneRelayMoves DEF ListUnpublished
  <2>3. outbox[e].status = "published" => Holding(e)' \subseteq Holding(e)
    BY <2>1, OneRelayMoves DEF Unpublished
  <2>4. Nothing(e)
    BY <1>1, <1>2, <1>4, <2>2, <2>3 DEF Nothing, RowKept, ListUnpublished, redis
  <2> QED
    BY <2>4 DEF Booked
<1>5. CASE Publish(r)
  <2>1. relay[r].pc = "publish" /\ XAdd(f)
    BY <1>5 DEF Publish
  <2>2. /\ \A q \in Relays \ {r} : relay'[q] = relay[q]
        /\ relay'[r].pc = "mark" /\ InHand(r)' = f
    <3>1. "mark" \in RelayPc \ {"list"}
      BY DEF RelayPc
    <3> QED
      BY <1>5, <2>1, <3>1, RelayGoesFits DEF Publish, InHand
  <2>3. RowKept(e) /\ faults' = faults
    BY <1>1, <1>5 DEF RowKept, Publish
  <2>4. CASE e = f
    <3>1. Copies(e)' = Copies(e) \cup {Len(stream) + 1}
      BY <1>3, <2>1, <2>4, XAddCopies
    <3>2. r \in Holding(e) \ Marking(e)
      BY <1>3, <2>1, <2>2, <2>4, OneRelayMoves
    <3>3. Marking(e)' = Marking(e) \cup {r} /\ Holding(e)' \subseteq Holding(e) \ {r}
      BY <2>1, <2>2, <2>4, OneRelayMoves
    <3> QED
      BY <2>3, <3>1, <3>2, <3>3 DEF Booked, Entry
  <2>5. CASE e # f
    <3>1. Copies(e)' = Copies(e)
      BY <1>3, <2>1, <2>5, XAddCopies
    <3>2. Marking(e)' = Marking(e)
      BY <2>1, <2>2, <2>5, OneRelayMoves
    <3>3. Holding(e)' \subseteq Holding(e)
      <4>1. relay'[r].batch = relay[r].batch
        BY <1>5, <2>1, RelayGoesFits DEF Publish, RelayPc
      <4> QED
        BY <2>1, <2>2, <2>5, <4>1, OneRelayMoves
    <3> QED
      BY <1>1, <2>3, <3>1, <3>2, <3>3 DEF Booked, Nothing
  <2> QED
    BY <2>4, <2>5
<1>6. CASE PublishFails(r)
  <2>1. relay[r].pc = "publish" /\ (XAdd(f) \/ UNCHANGED stream)
    BY <1>6 DEF PublishFails
  <2>2. /\ \A q \in Relays \ {r} : relay'[q] = relay[q]
        /\ relay'[r].pc = "markFailed" /\ relay'[r].batch = relay[r].batch
    <3>1. "markFailed" \in RelayPc \ {"list"}
      BY DEF RelayPc
    <3> QED
      BY <1>6, <2>1, <3>1, RelayGoesFits DEF PublishFails
  <2>3. RowKept(e) /\ faults' = faults + 1
    BY <1>1, <1>6 DEF RowKept, PublishFails, Fault
  <2>4. Copies(e)' \subseteq Copies(e) \cup {Len(stream) + 1}
    BY <1>2, <1>3, <2>1, XAddCopies
  <2>5. Marking(e)' = Marking(e) /\ Holding(e)' \subseteq Holding(e)
    BY <2>1, <2>2, OneRelayMoves
  <2> QED
    BY <2>3, <2>4, <2>5 DEF Booked, EntryFails
<1>7. CASE MarkPublished(r) \/ MarkFailed(r)
  <2>1. /\ relay[r].pc \in {"mark", "markFailed"} /\ NextEvent(r)
        /\ UNCHANGED <<stream, faults>>
    BY <1>7 DEF MarkPublished, MarkFailed, redis
  <2>2. /\ \A q \in Relays \ {r} : relay'[q] = relay[q]
        /\ relay'[r].pc \in {"list", "publish"}
        /\ relay'[r].batch = relay[r].batch \ {f}
    <3>1. relay'[r].batch = relay[r].batch \ {f}
      BY <2>1, Parts DEF NextEvent, RelaysFit
    <3> QED
      BY <2>1, <3>1, NextEventFits
  <2>3. Holding(e)' \subseteq Holding(e)
    <3>1. r \in Holding(e)' => r \in Holding(e)
      BY <2>1, <2>2, OneRelayMoves
    <3> QED
      BY <2>2, <3>1, OneRelayMoves
  <2>4. Marking(e)' = Marking(e) \ {r}
    BY <2>2, OneRelayMoves
  <2>5. CASE MarkPublished(r) /\ e = f
    <3>1. r \in Marking(e)
      BY <2>2, <2>5, OneRelayMoves DEF MarkPublished
    <3>2. outbox'[e].status = "published" /\ outbox'[e].attempts = outbox[e].attempts + 1
      <4>1. "published" \in RowStatus
        BY DEF RowStatus
      <4> QED
        BY <2>5, <4>1, AttemptedCounts DEF MarkPublished
    <3> QED
      BY <1>2, <2>1, <2>3, <2>4, <3>1, <3>2 DEF Booked, Mark
  <2>6. CASE MarkFailed(r) \/ e # f
    <3>1. r \notin Marking(e)
      BY <2>1, <2>2, <2>6, OneRelayMoves DEF MarkFailed
    <3>2. RowKept(e)
      <4>1. f \in Events /\ outbox[f].status \in RowStatus /\ "published" \in RowStatus
        BY <1>3, <2>1, Parts DEF Row, RowStatus
      <4>2. outbox'[e].attempts >= outbox[e].attempts
        BY <1>7, <4>1, AttemptedCounts DEF MarkPublished, MarkFailed
      <4>3. outbox'[e].status = outbox[e].status
        <5>1. CASE e # f
          BY <1>7, <4>1, <5>1, AttemptedCounts DEF MarkPublished, MarkFailed
        <5>2. CASE e = f
          BY <2>6, <4>1, <5>2, AttemptedCounts DEF MarkFailed
        <5> QED
          BY <5>1, <5>2
      <4> QED
        BY <4>2, <4>3 DEF RowKept
    <3> QED
      BY <1>1, <1>2, <2>1, <2>3, <2>4, <3>1, <3>2 DEF Booked, Nothing
  <2> QED
    BY <1>7, <2>5, <2>6
<1>8. CASE MarkPublishedFails(r)
  <2>1. /\ relay[r].pc = "mark" /\ UNCHANGED stream
        /\ Attempted(f, "published") \/ UNCHANGED outbox
    BY <1>8 DEF MarkPublishedFails, redis
  <2>2. /\ \A q \in Relays \ {r} : relay'[q] = relay[q]
        /\ relay'[r].pc = "markFailed" /\ relay'[r].batch = relay[r].batch /\ InHand(r)' = f
    <3>1. "markFailed" \in RelayPc \ {"list"}
      BY DEF RelayPc
    <3> QED
      BY <1>8, <2>1, <3>1, RelayGoesFits DEF MarkPublishedFails, InHand
  <2>3. faults' = faults + 1
    BY <1>8 DEF MarkPublishedFails, Fault
  <2>4. Holding(e)' \subseteq Holding(e) /\ Marking(e)' = Marking(e) \ {r}
    BY <2>1, <2>2, OneRelayMoves
  <2>5. /\ outbox'[e].attempts >= outbox[e].attempts
        /\ outbox'[e].status \in {outbox[e].status, "published"}
        /\ e # f => outbox'[e] = outbox[e]
    <3>1. f \in Events /\ "published" \in RowStatus
      BY <1>3, <2>1 DEF RowStatus
    <3>2. CASE Attempted(f, "published")
      BY <3>1, <3>2, AttemptedCounts
    <3>3. CASE UNCHANGED outbox
      BY <1>1, <3>3
    <3> QED
      BY <2>1, <3>2, <3>3
  <2>6. CASE e = f
    <3>1. r \in Marking(e)
      BY <2>1, <2>2, <2>6, OneRelayMoves
    <3> QED
      BY <1>2, <2>1, <2>3, <2>4, <2>5, <3>1 DEF Booked, MarkFails
  <2>7. CASE e # f
    <3>1. r \notin Marking(e)
      BY <2>1, <2>2, <2>7, OneRelayMoves
    <3>2. RowKept(e)
      BY <1>1, <2>5, <2>7 DEF RowKept
    <3> QED
      BY <1>1, <1>2, <2>1, <2>3, <2>4, <3>1, <3>2 DEF Booked, Nothing
  <2> QED
    BY <2>6, <2>7
<1>9. CASE MarkFailedFails(r) \/ RelayStops(r)
  <2>1. /\ AbortBatch(r) /\ UNCHANGED stream /\ relay[r].pc # "list"
        /\ Attempted(f, outbox[f].status) \/ UNCHANGED outbox
    BY <1>9 DEF MarkFailedFails, RelayStops, redis
  <2>2. /\ \A q \in Relays \ {r} : relay'[q] = relay[q]
        /\ relay'[r].pc = "list"
    BY <2>1, AbortFits
  <2>3. Holding(e)' \subseteq Holding(e) /\ Marking(e)' = Marking(e) \ {r}
    BY <2>2, OneRelayMoves
  <2>4. outbox'[e].attempts >= outbox[e].attempts /\ outbox'[e].status = outbox[e].status
    <3>1. f \in Events /\ outbox[f].status \in RowStatus
      BY <1>3, <2>1, Parts DEF Row
    <3>2. CASE Attempted(f, outbox[f].status)
      BY <3>1, <3>2, AttemptedCounts
    <3>3. CASE UNCHANGED outbox
      BY <1>1, <3>3
    <3> QED
      BY <2>1, <3>2, <3>3
  <2>5. CASE MarkFailedFails(r)
    <3>1. r \notin Marking(e)
      BY <2>2, <2>5, OneRelayMoves DEF MarkFailedFails
    <3>2. faults' = faults
      BY <2>5 DEF MarkFailedFails
    <3> QED
      BY <1>1, <1>2, <2>1, <2>3, <2>4, <3>1, <3>2 DEF Booked, Nothing, RowKept
  <2>6. CASE RelayStops(r)
    <3>1. faults' = faults + 1
      BY <2>6 DEF RelayStops, Fault
    <3>2. CASE r \in Marking(e)
      BY <1>2, <2>1, <2>3, <2>4, <3>1, <3>2 DEF Booked, MarkFails
    <3>3. CASE r \notin Marking(e)
      BY <1>1, <1>2, <2>1, <2>3, <2>4, <3>1, <3>3 DEF Booked, Nothing, RowKept
    <3> QED
      BY <3>2, <3>3
  <2> QED
    BY <1>9, <2>5, <2>6
<1> QED
  BY <1>4, <1>5, <1>6, <1>7, <1>8, <1>9 DEF RelayStep, RelayFault

(* No other step touches it: to accept a message writes its row, and the   *)
(* workers' steps and Redis's loss may at most be faults.                  *)
LEMMA OthersBooked ==
  ASSUME Shape, NEW e \in Events, UNCHANGED <<relay, stream>>, RowKept(e), faults' >= faults
  PROVE  Booked(e)
<1>1. Copies(e)' = Copies(e)
  BY DEF Copies
<1>2. Marking(e)' = Marking(e) /\ Holding(e)' = Holding(e)
  BY DEF Marking, Holding, AtIt, InHand
<1> QED
  BY <1>1, <1>2 DEF Booked, Nothing

LEMMA NextBooked ==
  ASSUME Shape, [Next]_vars, NEW e \in Events
  PROVE  Booked(e)
<1>1. outbox[e].attempts \in Nat /\ faults \in Nat
  BY Parts, RelayAssumption DEF Row
<1>2. ASSUME NEW f \in Events, Accept(f)
      PROVE  Booked(e)
  <2>1. /\ outbox[f].status = "absent" /\ UNCHANGED <<relay, stream, faults>>
        /\ outbox' = [outbox EXCEPT ![f].status = "unpublished"]
    BY <1>2 DEF Accept, redis
  <2>2. /\ outbox'[e].attempts = outbox[e].attempts
        /\ outbox'[e].status = IF e = f THEN "unpublished" ELSE outbox[e].status
    BY <2>1, Parts DEF Row
  <2>3. RowKept(e)
    BY <1>1, <2>1, <2>2 DEF RowKept
  <2> QED
    BY <1>1, <2>1, <2>3, OthersBooked
<1>3. ASSUME NEW r \in Relays, RelayStep(r) \/ RelayFault(r)
      PROVE  Booked(e)
  BY <1>3, RelayBooked
<1>4. ASSUME UNCHANGED <<outbox, relay, stream>>, faults' \in {faults, faults + 1}
      PROVE  Booked(e)
  BY <1>1, <1>4, OthersBooked DEF RowKept
<1>5. ASSUME NEW w \in Workers, WorkerStep(w) \/ WorkerFault(w)
      PROVE  UNCHANGED <<outbox, relay, stream>> /\ faults' \in {faults, faults + 1}
  BY <1>5 DEF WorkerStep, WorkerFault, AutoClaim, NoGroup, ReadGroup, Process, ProcessFails, Ack,
     ReplyLost, AckFails, WorkerStops, redis, Fault
<1>6. ASSUME NEW i \in pending, Age(i)
      PROVE  UNCHANGED <<outbox, relay, stream>> /\ faults' \in {faults, faults + 1}
  BY <1>6 DEF Age
<1>7. CASE RedisLoses \/ UNCHANGED vars
  BY <1>4, <1>7 DEF RedisLoses, Fault, vars
<1> QED
  BY <1>2, <1>3, <1>4, <1>5, <1>6, <1>7 DEF Next

LEMMA InitAccounted ==
  ASSUME Init
  PROVE  Accounted
<1> SUFFICES ASSUME NEW e \in Events
             PROVE  AccountOf(e)
  BY DEF Accounted
<1>1. Shape
  BY InitShape
<1>2. Copies(e) = {}
  BY DEF Init, Copies
<1>3. Cardinality(Copies(e)) = 0
  BY <1>2, FS_EmptySet
<1>4. outbox[e].status = "absent" /\ outbox[e].attempts \in Nat /\ faults \in Nat
  BY <1>1, Parts, RelayAssumption DEF Init, Row
<1>5. Cardinality(Marking(e)) \in Nat
  BY <1>1, AccountTypes
<1> QED
  BY <1>3, <1>4, <1>5 DEF AccountOf

(* CopiesAccounted: a message has no more entries than relays that listed  *)
(* its row before one marked it, and faults; and no more than attempts     *)
(* counted at its row, relays at it, and faults.                           *)
THEOREM CopiesCounted == Spec => []CopiesAccounted
<1>1. Init => Accounted
  BY InitAccounted
<1>2. Shape /\ Shape' /\ Accounted /\ [Next]_vars => Accounted'
  BY NextBooked, BookedKeepsAccount DEF Accounted
<1>3. Shape /\ Accounted => CopiesAccounted
  <2> SUFFICES ASSUME Shape, Accounted, NEW e \in Events
               PROVE  /\ Cardinality(Copies(e)) <= Cardinality(Relays) + faults
                      /\ Cardinality(Copies(e)) <= outbox[e].attempts + Cardinality(AtIt(e)) + faults
    BY DEF CopiesAccounted
  <2>1. AccountOf(e)
    BY DEF Accounted
  <2>2. /\ Cardinality(Copies(e)) \in Nat /\ Cardinality(Marking(e)) \in Nat
        /\ Cardinality(Holding(e)) \in Nat
        /\ Cardinality(Marking(e)) + Cardinality(Holding(e)) <= Cardinality(Relays)
        /\ Cardinality(Relays) \in Nat /\ faults \in Nat /\ outbox[e].attempts \in Nat
    BY AccountTypes
  <2>3. Cardinality(Marking(e)) <= Cardinality(AtIt(e)) /\ Cardinality(AtIt(e)) \in Nat
    <3>1. AtIt(e) \in SUBSET Relays /\ Marking(e) \in SUBSET AtIt(e)
      BY DEF AtIt, Marking
    <3>2. IsFiniteSet(AtIt(e))
      BY <3>1, RelayAssumption, FS_Subset
    <3> QED
      BY <3>1, <3>2, FS_Subset, FS_CardinalityType
  <2> QED
    BY <2>1, <2>2, <2>3 DEF AccountOf
<1>4. Kept => Shape
  BY DEF Kept
<1> QED
  BY <1>1, <1>2, <1>3, <1>4, AlwaysKept, PTL DEF Spec
=============================================================================
