--------------------------- MODULE PlannerProofs ---------------------------
(***************************************************************************)
(* Proofs about Planner, for any messages, recipients, workers and faults: *)
(* type correctness, one attempt per event, nothing left to plan in a      *)
(* processed message, and that the planner implements EventCalls.          *)
(*                                                                         *)
(* The invariant follows a worker through a message: for every recipient   *)
(* and channel of the message either an attempt exists or the worker still *)
(* has the recipient, or the channel, before it.  Since attempts are never *)
(* deleted that stays so whatever other workers do, and a worker that died *)
(* leaves nothing behind that the next delivery would have to know.        *)
(*                                                                         *)
(* For the calls it counts: an attempt that can be claimed was called at   *)
(* most as often as there were reasons to call it again.                   *)
(***************************************************************************)
EXTENDS Planner, TLAPS

PerUser == {"existing", "channels", "touch", "list", "create", "destination",
            "failAttempt", "failNotification", "summary"}
PerChannel == {"touch", "list", "create", "destination", "failAttempt", "failNotification"}
BeforeCreate == {"touch", "list", "create"}
AfterCreate == {"destination", "failAttempt", "failNotification"}

(* Attempts are made for the slot of a key, in the table tab. *)
Planned(k, tab) == \E j \in Keys : tab[j].status # "absent" /\ slotOf[j] = slotOf[k]

(* A worker's record is well formed, *)
Shape(r, tab) ==
  /\ r \in Worker
  /\ r.pc # "idle" => r.msg \in Messages
  /\ r.pc \in PerUser => r.user \in Users /\ r.chans \subseteq channelsOf[r.msg][r.user]
  /\ r.pc \in PerChannel => r.chan \in channelsOf[r.msg][r.user]
  /\ r.pc \in AfterCreate => tab[<<r.msg, r.user, r.chan>>].status # "absent"
  /\ r.pc = "summary" => r.chans = {}
  /\ r.pc \in {"processed", "ack"} => r.users = {}

(* and every attempt its message calls for is made or still before it. *)
Ahead(r, u, c) ==
  \/ u \in r.users
  \/ /\ r.pc \in PerUser
     /\ u = r.user
     /\ c \in r.chans \/ (r.pc \in BeforeCreate /\ c = r.chan)
Progress(r, tab) ==
  r.pc # "idle" =>
    \A u \in Users : \A c \in channelsOf[r.msg][u] :
      Planned(<<r.msg, u, c>>, tab) \/ Ahead(r, u, c)

Good(r, tab) == Shape(r, tab) /\ Progress(r, tab)

WorkersGood == \A w \in Workers : Good(worker[w], attempt)

NothingLeft ==
  \A m \in Messages : processed[m] =>
    \A u \in Users : \A c \in channelsOf[m][u] : Planned(<<m, u, c>>, attempt)

(* What a dispatcher, *)
CallGood(x, k, tab, count) ==
  x.pc # "none" =>
    /\ tab[k].status # "absent" /\ count[k].calls > 0
    /\ x.pc \in {"attempt", "notification"} => x.outcome \in Answer
    /\ x.pc = "user" => x.outcome \in Outcome

(* or a callback handler has in hand is there, with an outcome to record.  *)
HookGood(x, tab) ==
  x.pc # "none" =>
    x.key \in Keys /\ tab[x.key].status # "absent" /\ x.outcome \in Outcome

(* The calls of an attempt a against the reasons for them. *)
Open(a) == a.status \in {"absent", "queued", "dispatching"} /\ ~a.leased
Counted(a, t) ==
  /\ t.calls <= t.again + 1
  /\ Open(a) => t.calls <= t.again
  /\ a.leased => t.calls > 0
  /\ a.status = "absent" => t.calls = 0 /\ a.call = "none"

TakenUp ==
  /\ \A d \in Dispatchers : \A k \in Keys : CallGood(caller[d][k], k, attempt, trail)
  /\ \A h \in Handlers : HookGood(hook[h], attempt)
  /\ \A k \in Keys : Counted(attempt[k], trail[k])

PlanInv == TypeOK /\ WorkersGood /\ NothingLeft /\ OneAttemptPerEvent /\ TakenUp

-----------------------------------------------------------------------------
(* Lemmas about the tables *)

(* No attempt is deleted. *)
Keeps(tab, tab2) == \A j \in Keys : tab[j].status # "absent" => tab2[j].status # "absent"

LEMMA MatchedChannels ==
  ASSUME NEW m \in Messages, NEW u \in Users
  PROVE  channelsOf[m][u] \subseteq Channels
  <1>1. channelsOf[m] \in [Users -> SUBSET Channels]
    BY ConstantsAssumption
  <1>2. channelsOf[m][u] \in SUBSET Channels
    BY <1>1
  <1> QED
    BY <1>2

LEMMA PlannedStays ==
  ASSUME NEW tab, NEW tab2, Keeps(tab, tab2), NEW k, Planned(k, tab)
  PROVE  Planned(k, tab2)
  BY DEF Keeps, Planned

LEMMA GoodStays ==
  ASSUME NEW tab, NEW tab2, Keeps(tab, tab2), NEW r, Good(r, tab)
  PROVE  Good(r, tab2)
  <1>1. Progress(r, tab2)
    BY PlannedStays DEF Good, Progress
  <1>2. ASSUME r.pc \in AfterCreate PROVE tab2[<<r.msg, r.user, r.chan>>].status # "absent"
    <2>1. r.msg \in Messages /\ r.user \in Users /\ r.chan \in channelsOf[r.msg][r.user]
      BY <1>2 DEF Good, Shape, PerUser, PerChannel, AfterCreate
    <2>2. r.chan \in Channels
      BY <2>1, MatchedChannels
    <2>3. <<r.msg, r.user, r.chan>> \in Keys
      BY <2>1, <2>2 DEF Keys
    <2> QED
      BY <1>2, <2>3 DEF Good, Shape, Keeps
  <1>3. Shape(r, tab2)
    BY <1>2 DEF Good, Shape
  <1> QED
    BY <1>1, <1>3 DEF Good

(* A step moves one worker on, and deletes no attempt. *)
LEMMA MoveWorker ==
  ASSUME TypeOK, WorkersGood, NEW w \in Workers, NEW next,
         worker' = [worker EXCEPT ![w] = next], Good(next, attempt'),
         Keeps(attempt, attempt')
  PROVE  WorkersGood' /\ worker' \in [Workers -> Worker]
  <1>1. ASSUME NEW x \in Workers PROVE Good(worker'[x], attempt')
    BY <1>1, GoodStays DEF WorkersGood, TypeOK
  <1>2. worker' \in [Workers -> Worker]
    BY DEF Good, Shape, TypeOK
  <1> QED
    BY <1>1, <1>2 DEF WorkersGood

LEMMA KeepsSame == \A tab : Keeps(tab, tab)
  BY DEF Keeps

(* The key a worker has in hand is one of the table. *)
LEMMA KeyInHand ==
  ASSUME WorkersGood, NEW w \in Workers, worker[w].pc \in PerChannel
  PROVE  /\ KeyOf(w) \in Keys
         /\ worker[w].msg \in Messages /\ worker[w].user \in Users
         /\ worker[w].chan \in Channels
  <1>1. /\ worker[w].msg \in Messages /\ worker[w].user \in Users
        /\ worker[w].chan \in channelsOf[worker[w].msg][worker[w].user]
    BY DEF WorkersGood, Good, Shape, PerUser, PerChannel
  <1>2. worker[w].chan \in Channels
    BY <1>1, MatchedChannels
  <1> QED
    BY <1>1, <1>2 DEF KeyOf, Keys

(* Without an event, a slot has one key. *)
LEMMA OwnSlot ==
  ASSUME NEW j \in Keys, NEW k \in Keys, slotOf[j] = slotOf[k], ~EventBacked(k[1])
  PROVE  j = k
  <1>1. slotOf[k] = <<None, k[1], k[2], k[3]>>
    BY DEF slotOf, EventBacked
  <1>2. j[1] \in Messages /\ eventOf[j[1]] \in Events \cup {None}
    BY ConstantsAssumption DEF Keys
  <1>3. CASE eventOf[j[1]] = None
    <2>1. slotOf[j] = <<None, j[1], j[2], j[3]>>
      BY <1>3 DEF slotOf
    <2> QED
      BY <1>1, <2>1 DEF Keys
  <1>4. CASE eventOf[j[1]] # None
    <2>1. slotOf[j] = <<eventOf[j[1]], None, j[2], j[3]>>
      BY <1>4 DEF slotOf
    <2> QED
      BY <1>1, <1>2, <1>4, <2>1, ConstantsAssumption
  <1> QED
    BY <1>3, <1>4

-----------------------------------------------------------------------------
(* What the other conjuncts need of a step *)

LEMMA IdleGood == \A tab : Good(Idle, tab)
  <1>1. NoPlan \in [Channels -> PlanStatus]
    BY DEF NoPlan, PlanStatus
  <1>2. Idle \in Worker
    BY <1>1 DEF Idle, Worker, WorkerPc
  <1> QED
    BY <1>2 DEF Idle, Good, Shape, Progress, PerUser, PerChannel, AfterCreate

(* A step that adds and removes no attempt. *)
LEMMA SameAttempts ==
  ASSUME PlanInv,
         \A j \in Keys : attempt'[j].status = "absent" <=> attempt[j].status = "absent"
  PROVE  /\ Keeps(attempt, attempt')
         /\ OneAttemptPerEvent'
         /\ processed' = processed => NothingLeft'
  <1>1. Keeps(attempt, attempt')
    BY DEF Keeps
  <1>2. OneAttemptPerEvent'
    BY DEF PlanInv, OneAttemptPerEvent, Exists
  <1>3. ASSUME processed' = processed PROVE NothingLeft'
    BY <1>1, <1>3, PlannedStays DEF PlanInv, NothingLeft
  <1> QED
    BY <1>1, <1>2, <1>3

(* What is in hand stays so while no attempt goes and no call is forgotten. *)
LEMMA TakenUpStays ==
  ASSUME PlanInv, Keeps(attempt, attempt'), UNCHANGED <<caller, hook>>,
         \A k \in Keys : /\ Counted(attempt'[k], trail'[k])
                         /\ trail'[k].calls = trail[k].calls
  PROVE  TakenUp'
  <1>1. ASSUME NEW d \in Dispatchers, NEW k \in Keys
        PROVE  CallGood(caller'[d][k], k, attempt', trail')
    BY DEF PlanInv, TakenUp, CallGood, Keeps
  <1>2. ASSUME NEW h \in Handlers PROVE HookGood(hook'[h], attempt')
    BY DEF PlanInv, TakenUp, HookGood, Keeps
  <1> QED
    BY <1>1, <1>2 DEF TakenUp

(* A step of one worker that leaves attempts and dispatch alone. *)
LEMMA WorkerStep ==
  ASSUME PlanInv, NEW w \in Workers, NEW next,
         worker' = [worker EXCEPT ![w] = next], Good(next, attempt),
         UNCHANGED <<processed, attempt, caller, hook>>,
         trail' \in [Keys -> Trail],
         \A k \in Keys : trail'[k].calls = trail[k].calls /\ trail'[k].again = trail[k].again,
         entry' \in [Messages -> EntryState],
         userMessage' \in [Messages \X Users -> UserMessageStatus],
         notification' \in [Events \X Users \X Channels -> Notification],
         takes' \in [Messages -> Nat],
         faults' \in 0..MaxFaults
  PROVE  PlanInv'
  <1>1. WorkersGood' /\ worker' \in [Workers -> Worker]
    <2>1. Good(next, attempt') /\ Keeps(attempt, attempt')
      BY KeepsSame
    <2> QED
      BY <2>1, MoveWorker DEF PlanInv
  <1>2. OneAttemptPerEvent' /\ NothingLeft'
    BY SameAttempts
  <1>3. \A k \in Keys : Counted(attempt'[k], trail'[k])
    BY DEF PlanInv, TakenUp, Counted
  <1>4. TakenUp'
    BY <1>3, KeepsSame, TakenUpStays
  <1>5. TypeOK'
    BY <1>1 DEF PlanInv, TypeOK
  <1> QED
    BY <1>1, <1>2, <1>4, <1>5 DEF PlanInv

(* Most leave the trail alone too. *)
LEMMA QuietStep ==
  ASSUME PlanInv, NEW w \in Workers, NEW next,
         worker' = [worker EXCEPT ![w] = next], Good(next, attempt),
         UNCHANGED <<processed, attempt, dispatch>>,
         entry' \in [Messages -> EntryState],
         userMessage' \in [Messages \X Users -> UserMessageStatus],
         notification' \in [Events \X Users \X Channels -> Notification],
         takes' \in [Messages -> Nat],
         faults' \in 0..MaxFaults
  PROVE  PlanInv'
  <1>1. UNCHANGED <<caller, hook, trail>>
    BY DEF dispatch
  <1>2. trail' \in [Keys -> Trail]
    BY <1>1 DEF PlanInv, TypeOK
  <1> QED
    BY <1>1, <1>2, WorkerStep

LEMMA FaultType ==
  ASSUME PlanInv, Fault
  PROVE  faults' \in 0..MaxFaults
  BY ConstantsAssumption DEF PlanInv, TypeOK, Fault

(* The worker's channel is settled once an attempt for it is there. *)
LEMMA ChannelDoneGood ==
  ASSUME PlanInv, NEW w \in Workers, NEW status \in PlanStatus, ChannelDone(w, status),
         worker[w].pc \in PerChannel, Planned(KeyOf(w), attempt'), Keeps(attempt, attempt')
  PROVE  \E next : worker' = [worker EXCEPT ![w] = next] /\ Good(next, attempt')
  <1> DEFINE r == worker[w]
             pc == IF r.chans = {} THEN "summary" ELSE "channels"
             plan == [r.plan EXCEPT ![r.chan] = status]
             next == [r EXCEPT !.pc = pc, !.chan = None, !.plan = plan]
  <1>1. worker' = [worker EXCEPT ![w] = next]
    BY DEF ChannelDone
  <1>2. /\ r \in Worker /\ r.msg \in Messages /\ r.user \in Users
        /\ r.chan \in channelsOf[r.msg][r.user]
        /\ r.chans \subseteq channelsOf[r.msg][r.user]
    BY DEF PlanInv, WorkersGood, Good, Shape, PerUser, PerChannel
  <1>3. plan \in [Channels -> PlanStatus]
    BY <1>2 DEF Worker
  <1>4. next \in Worker /\ next.msg = r.msg /\ next.user = r.user /\ next.users = r.users
        /\ next.chans = r.chans /\ next.pc = pc
    <2> HIDE DEF plan
    <2> QED
      BY <1>2, <1>3 DEF Worker, WorkerPc
  <1>5. Good(r, attempt')
    BY GoodStays DEF PlanInv, WorkersGood
  <1> HIDE DEF next
  <1>6. Shape(next, attempt')
    BY <1>2, <1>4 DEF Shape, PerUser, PerChannel, AfterCreate
  <1>7. Progress(next, attempt')
    <2> SUFFICES ASSUME NEW u \in Users, NEW c \in channelsOf[r.msg][u]
                 PROVE  Planned(<<r.msg, u, c>>, attempt') \/ Ahead(next, u, c)
      BY <1>4 DEF Progress
    <2>1. Planned(<<r.msg, u, c>>, attempt') \/ Ahead(r, u, c)
      BY <1>5 DEF Good, Progress, PerChannel
    <2>2. CASE u \in r.users
      BY <2>2, <1>4 DEF Ahead
    <2>3. CASE u = r.user /\ c \in r.chans
      BY <2>3, <1>4 DEF Ahead, PerUser
    <2>4. CASE u = r.user /\ c = r.chan
      BY <2>4 DEF KeyOf
    <2> QED
      BY <2>1, <2>2, <2>3, <2>4 DEF Ahead
  <1> QED
    BY <1>1, <1>6, <1>7 DEF Good

-----------------------------------------------------------------------------
(* The stream and the runner *)

LEMMA BeginGood ==
  ASSUME PlanInv, NEW w \in Workers, NEW m \in Messages, Begin(w, m)
  PROVE  /\ \E next : worker' = [worker EXCEPT ![w] = next] /\ Good(next, attempt)
         /\ takes' \in [Messages -> Nat]
  <1> DEFINE pc == IF Matched(m) = {} THEN "processed" ELSE "users"
             next == [Idle EXCEPT !.pc = pc, !.msg = m, !.users = Matched(m)]
  <1>1. worker' = [worker EXCEPT ![w] = next]
    BY DEF Begin
  <1>2. Idle \in Worker /\ Matched(m) \subseteq Users
    BY IdleGood DEF Good, Shape, Matched
  <1>3. /\ next \in Worker /\ next.pc = pc /\ next.msg = m /\ next.users = Matched(m)
    BY <1>2 DEF Worker, WorkerPc
  <1> HIDE DEF next
  <1>4. Shape(next, attempt)
    BY <1>3 DEF Shape, PerUser, PerChannel, AfterCreate
  <1>5. Progress(next, attempt)
    BY <1>3 DEF Progress, Ahead, Matched
  <1>6. takes' \in [Messages -> Nat]
    BY DEF Begin, PlanInv, TypeOK
  <1> QED
    BY <1>1, <1>4, <1>5, <1>6 DEF Good

LEMMA TakeInv ==
  ASSUME PlanInv, NEW w \in Workers, NEW m \in Messages,
         ReadGroup(w, m) \/ AutoClaim(w, m) \/ AutoClaimInWork(w, m)
  PROVE  PlanInv'
  <1>1. Begin(w, m)
    BY DEF ReadGroup, AutoClaim, AutoClaimInWork
  <1>2. UNCHANGED <<processed, userMessage, notification, attempt, dispatch>>
    BY DEF ReadGroup, AutoClaim, AutoClaimInWork, rows
  <1>3. entry' \in [Messages -> EntryState]
    BY DEF ReadGroup, AutoClaim, AutoClaimInWork, PlanInv, TypeOK, EntryState
  <1>4. faults' \in 0..MaxFaults
    BY FaultType DEF ReadGroup, AutoClaim, AutoClaimInWork, PlanInv, TypeOK
  <1>5. PICK next : worker' = [worker EXCEPT ![w] = next] /\ Good(next, attempt)
    BY <1>1, BeginGood
  <1>6. takes' \in [Messages -> Nat]
    BY <1>1, BeginGood
  <1>7. /\ userMessage' \in [Messages \X Users -> UserMessageStatus]
        /\ notification' \in [Events \X Users \X Channels -> Notification]
    BY <1>2 DEF PlanInv, TypeOK
  <1> QED
    BY <1>2, <1>3, <1>4, <1>5, <1>6, <1>7, QuietStep

(* A fault that hits attempts is only noted. *)
LEMMA HitOnly ==
  ASSUME PlanInv, NEW S, Hit(S)
  PROVE  /\ trail' \in [Keys -> Trail]
         /\ \A k \in Keys : /\ trail'[k].calls = trail[k].calls
                             /\ trail'[k].again = trail[k].again
                             /\ trail'[k].told = trail[k].told
  <1> DEFINE Row2(k) == [trail[k] EXCEPT !.disturbed = trail[k].disturbed \/ k \in S]
  <1>1. trail' = [k \in Keys |-> Row2(k)]
    BY DEF Hit
  <1>2. ASSUME NEW k \in Keys
        PROVE  /\ Row2(k) \in Trail
               /\ Row2(k).calls = trail[k].calls /\ Row2(k).again = trail[k].again
               /\ Row2(k).told = trail[k].told
    <2>1. trail[k] \in Trail
      BY DEF PlanInv, TypeOK
    <2> QED
      BY <2>1 DEF Trail
  <1> HIDE DEF Row2
  <1> QED
    BY <1>1, <1>2

LEMMA AbandonInv ==
  ASSUME PlanInv, NEW w \in Workers, Abandon(w)
  PROVE  PlanInv'
  <1>1. /\ UNCHANGED <<entry, processed, userMessage, notification, attempt, caller, hook, takes>>
        /\ worker' = [worker EXCEPT ![w] = Idle]
        /\ Hit({KeyOf(w)})
    BY DEF Abandon, rows
  <1>2. faults' \in 0..MaxFaults
    BY FaultType DEF Abandon
  <1>3. Good(Idle, attempt)
    BY IdleGood
  <1>4. /\ trail' \in [Keys -> Trail]
        /\ \A k \in Keys : trail'[k].calls = trail[k].calls /\ trail'[k].again = trail[k].again
    BY <1>1, HitOnly
  <1> QED
    BY <1>1, <1>2, <1>3, <1>4, WorkerStep DEF PlanInv, TypeOK

LEMMA AckInv ==
  ASSUME PlanInv, NEW w \in Workers, Ack(w)
  PROVE  PlanInv'
  <1>1. /\ UNCHANGED <<processed, userMessage, notification, attempt, dispatch, takes, faults>>
        /\ worker' = [worker EXCEPT ![w] = Idle]
    BY DEF Ack, rows
  <1>2. entry' \in [Messages -> EntryState]
    BY DEF Ack, PlanInv, TypeOK, EntryState
  <1>3. Good(Idle, attempt)
    BY IdleGood
  <1> QED
    BY <1>1, <1>2, <1>3, QuietStep DEF PlanInv, TypeOK

(* At the mark no recipient is left before the worker. *)
LEMMA MarkProcessedInv ==
  ASSUME PlanInv, NEW w \in Workers, MarkProcessed(w)
  PROVE  PlanInv'
  <1> DEFINE r == worker[w]
             next == [r EXCEPT !.pc = "ack"]
  <1>1. /\ worker' = [worker EXCEPT ![w] = next]
        /\ processed' = [processed EXCEPT ![r.msg] = TRUE]
        /\ r.pc = "processed"
        /\ UNCHANGED <<entry, userMessage, notification, attempt, dispatch, takes, faults>>
    BY DEF MarkProcessed, Goto
  <1>2. Shape(r, attempt) /\ Progress(r, attempt)
    BY DEF PlanInv, WorkersGood, Good
  <1>3. r \in Worker /\ r.msg \in Messages /\ r.users = {}
    BY <1>1, <1>2 DEF Shape
  <1>4. /\ next \in Worker /\ next.pc = "ack" /\ next.msg = r.msg /\ next.users = {}
    BY <1>3 DEF Worker, WorkerPc
  <1>5. \A u \in Users : \A c \in channelsOf[r.msg][u] : Planned(<<r.msg, u, c>>, attempt)
    BY <1>1, <1>2, <1>3 DEF Progress, Ahead, PerUser
  <1> HIDE DEF next
  <1>6. Good(next, attempt)
    BY <1>3, <1>4, <1>5 DEF Good, Shape, Progress, PerUser, PerChannel, AfterCreate
  <1> HIDE DEF r
  <1>7. WorkersGood' /\ worker' \in [Workers -> Worker]
    <2>1. Good(next, attempt') /\ Keeps(attempt, attempt')
      BY <1>1, <1>6, KeepsSame
    <2> QED
      BY <1>1, <2>1, MoveWorker DEF PlanInv
  <1>8. NothingLeft'
    <2> SUFFICES ASSUME NEW m \in Messages, processed'[m]
                 PROVE  \A u \in Users : \A c \in channelsOf[m][u] : Planned(<<m, u, c>>, attempt)
      BY <1>1 DEF NothingLeft
    <2>1. m = r.msg \/ processed[m]
      BY <1>1, <1>3 DEF PlanInv, TypeOK
    <2> QED
      BY <1>5, <2>1 DEF PlanInv, NothingLeft
  <1>9. OneAttemptPerEvent' /\ TakenUp'
    BY <1>1 DEF PlanInv, OneAttemptPerEvent, Exists, TakenUp, dispatch
  <1>10. TypeOK'
    BY <1>1, <1>3, <1>7 DEF PlanInv, TypeOK, dispatch
  <1> QED
    BY <1>7, <1>8, <1>9, <1>10 DEF PlanInv

-----------------------------------------------------------------------------
(* Dispatch, up to the attempt *)

LEMMA CreateUserMessageInv ==
  ASSUME PlanInv, NEW w \in Workers, NEW u \in Users, CreateUserMessage(w, u)
  PROVE  PlanInv'
  <1> DEFINE r == worker[w]
             chans == channelsOf[r.msg][u]
             pc == IF EventBacked(r.msg) THEN "channels" ELSE "existing"
             next == [r EXCEPT !.pc = pc, !.users = r.users \ {u}, !.user = u, !.chan = None,
                               !.chans = chans, !.plan = NoPlan]
  <1>1. /\ worker' = [worker EXCEPT ![w] = next]
        /\ r.pc = "users"
        /\ UNCHANGED <<entry, processed, notification, attempt, dispatch, takes, faults>>
    BY DEF CreateUserMessage
  <1>2. userMessage' \in [Messages \X Users -> UserMessageStatus]
    <2> DEFINE p == <<r.msg, u>>
    <2>1. userMessage' = [userMessage EXCEPT ![p] =
                            IF userMessage[p] = "absent" THEN "queued" ELSE userMessage[p]]
      BY DEF CreateUserMessage
    <2> HIDE DEF p
    <2> QED
      BY <2>1 DEF PlanInv, TypeOK, UserMessageStatus
  <1>3. Shape(r, attempt) /\ Progress(r, attempt)
    BY DEF PlanInv, WorkersGood, Good
  <1>4. r \in Worker /\ r.msg \in Messages
    BY <1>1, <1>3 DEF Shape
  <1>5. chans \subseteq Channels /\ NoPlan \in [Channels -> PlanStatus]
    BY <1>4, MatchedChannels DEF NoPlan, PlanStatus
  <1>6. /\ next \in Worker /\ next.pc = pc /\ next.msg = r.msg /\ next.user = u
        /\ next.users = r.users \ {u} /\ next.chans = chans
    <2> HIDE DEF chans
    <2> QED
      BY <1>4, <1>5 DEF Worker, WorkerPc
  <1> HIDE DEF next
  <1>7. Shape(next, attempt)
    BY <1>4, <1>6 DEF Shape, PerUser, PerChannel, AfterCreate
  <1>8. Progress(next, attempt)
    BY <1>1, <1>3, <1>6 DEF Progress, Ahead, PerUser
  <1> QED
    BY <1>1, <1>2, <1>7, <1>8, QuietStep DEF PlanInv, TypeOK, Good

(* A channel the worker does not look at again has an attempt. *)
LEMMA ListExistingInv ==
  ASSUME PlanInv, NEW w \in Workers, ListExisting(w)
  PROVE  PlanInv'
  <1> DEFINE r == worker[w]
             Read(c) == IF c \in channelsOf[r.msg][r.user] /\ Exists(<<r.msg, r.user, c>>)
                        THEN attempt[<<r.msg, r.user, c>>].status ELSE "none"
             open == {c \in r.chans : Read(c) \in {"none", "queued"}}
             pc == IF open = {} THEN "summary" ELSE "channels"
             plan == [c \in Channels |-> Read(c)]
             next == [r EXCEPT !.pc = pc, !.chans = open, !.plan = plan]
  <1>1. /\ worker' = [worker EXCEPT ![w] = next]
        /\ r.pc = "existing"
        /\ UNCHANGED <<entry, processed, userMessage, notification, attempt, dispatch, takes, faults>>
    BY DEF ListExisting, rows
  <1>2. Shape(r, attempt) /\ Progress(r, attempt)
    BY DEF PlanInv, WorkersGood, Good
  <1>3. /\ r \in Worker /\ r.msg \in Messages /\ r.user \in Users
        /\ r.chans \subseteq channelsOf[r.msg][r.user]
    BY <1>1, <1>2 DEF Shape, PerUser
  <1>4. ASSUME NEW c \in channelsOf[r.msg][r.user] PROVE <<r.msg, r.user, c>> \in Keys
    BY <1>3, <1>4, MatchedChannels DEF Keys
  <1>5. ASSUME NEW c \in Channels PROVE Read(c) \in PlanStatus
    <2>1. CASE c \in channelsOf[r.msg][r.user] /\ Exists(<<r.msg, r.user, c>>)
      <3>1. attempt[<<r.msg, r.user, c>>] \in Attempt
        BY <1>4, <2>1 DEF PlanInv, TypeOK
      <3> QED
        BY <2>1, <3>1 DEF Attempt, AttemptStatus, PlanStatus, Exists
    <2>2. CASE ~(c \in channelsOf[r.msg][r.user] /\ Exists(<<r.msg, r.user, c>>))
      BY <2>2 DEF PlanStatus
    <2> QED
      BY <2>1, <2>2
  <1>6. plan \in [Channels -> PlanStatus]
    BY <1>5
  <1>7. ASSUME NEW c \in r.chans, c \notin open
        PROVE  Planned(<<r.msg, r.user, c>>, attempt)
    <2>1. Exists(<<r.msg, r.user, c>>)
      BY <1>7
    <2>2. <<r.msg, r.user, c>> \in Keys
      BY <1>3, <1>4
    <2> QED
      BY <2>1, <2>2 DEF Planned, Exists
  <1>8. /\ next \in Worker /\ next.pc = pc /\ next.msg = r.msg /\ next.user = r.user
        /\ next.users = r.users /\ next.chans = open
    <2>1. open \subseteq r.chans
      OBVIOUS
    <2> HIDE DEF open, plan
    <2> QED
      BY <1>3, <1>6, <2>1 DEF Worker, WorkerPc
  <1>9. open \subseteq r.chans
    OBVIOUS
  <1> HIDE DEF next, open
  <1>10. Shape(next, attempt)
    BY <1>3, <1>8, <1>9 DEF Shape, PerUser, PerChannel, AfterCreate
  <1>11. Progress(next, attempt)
    <2> SUFFICES ASSUME NEW u \in Users, NEW c \in channelsOf[r.msg][u]
                 PROVE  Planned(<<r.msg, u, c>>, attempt) \/ Ahead(next, u, c)
      BY <1>8 DEF Progress
    <2>1. Planned(<<r.msg, u, c>>, attempt) \/ Ahead(r, u, c)
      BY <1>1, <1>2 DEF Progress
    <2>2. CASE u \in r.users
      BY <2>2, <1>8 DEF Ahead
    <2>3. CASE u = r.user /\ c \in open
      BY <2>3, <1>8 DEF Ahead, PerUser
    <2>4. CASE u = r.user /\ c \in r.chans /\ c \notin open
      BY <2>4, <1>7
    <2> QED
      BY <1>1, <2>1, <2>2, <2>3, <2>4 DEF Ahead, BeforeCreate
  <1> QED
    BY <1>1, <1>10, <1>11, QuietStep DEF PlanInv, TypeOK, Good

(* The channel the worker turns to stays before it. *)
LEMMA NextChannelGood ==
  ASSUME PlanInv, NEW w \in Workers, worker[w].pc = "channels",
         NEW c \in worker[w].chans, NEW pc \in BeforeCreate,
         worker' = [worker EXCEPT ![w] =
           [worker[w] EXCEPT !.pc = pc, !.chans = worker[w].chans \ {c}, !.chan = c]]
  PROVE  \E next : worker' = [worker EXCEPT ![w] = next] /\ Good(next, attempt)
  <1> DEFINE r == worker[w]
             next == [r EXCEPT !.pc = pc, !.chans = r.chans \ {c}, !.chan = c]
  <1>1. Shape(r, attempt) /\ Progress(r, attempt)
    BY DEF PlanInv, WorkersGood, Good
  <1>2. /\ r \in Worker /\ r.msg \in Messages /\ r.user \in Users
        /\ r.chans \subseteq channelsOf[r.msg][r.user]
    BY <1>1 DEF Shape, PerUser
  <1>3. c \in channelsOf[r.msg][r.user] /\ c \in Channels
    BY <1>2, MatchedChannels
  <1>4. /\ next \in Worker /\ next.pc = pc /\ next.msg = r.msg /\ next.user = r.user
        /\ next.users = r.users /\ next.chans = r.chans \ {c} /\ next.chan = c
    BY <1>2, <1>3 DEF Worker, WorkerPc, BeforeCreate
  <1>5. worker' = [worker EXCEPT ![w] = next]
    OBVIOUS
  <1> HIDE DEF next
  <1>6. Shape(next, attempt)
    BY <1>2, <1>3, <1>4 DEF Shape, PerUser, PerChannel, BeforeCreate, AfterCreate
  <1>7. Progress(next, attempt)
    BY <1>1, <1>4 DEF Progress, Ahead, PerUser, BeforeCreate
  <1> QED
    BY <1>5, <1>6, <1>7 DEF Good

LEMMA EnsureNotificationInv ==
  ASSUME PlanInv, NEW w \in Workers, NEW c \in Channels, EnsureNotification(w, c)
  PROVE  PlanInv'
  <1> DEFINE n == NotificationOf(w, c)
             pc == IF notification[n].first = None THEN "list" ELSE "touch"
             made == [first |-> worker[w].msg, last |-> worker[w].msg, status |-> "queued"]
  <1>1. /\ worker[w].pc = "channels" /\ c \in worker[w].chans
        /\ worker' = [worker EXCEPT ![w] =
             [worker[w] EXCEPT !.pc = pc, !.chans = worker[w].chans \ {c}, !.chan = c]]
        /\ notification' = [notification EXCEPT ![n] =
             IF notification[n].first = None THEN made ELSE notification[n]]
        /\ UNCHANGED <<entry, processed, userMessage, attempt, dispatch, takes, faults>>
    BY DEF EnsureNotification
  <1>2. made \in Notification
    BY <1>1 DEF Notification, PlanInv, WorkersGood, Good, Shape
  <1>3. pc \in BeforeCreate
    BY DEF BeforeCreate
  <1> HIDE DEF n, pc, made
  <1>4. notification' \in [Events \X Users \X Channels -> Notification]
    BY <1>1, <1>2 DEF PlanInv, TypeOK
  <1>5. PICK next : worker' = [worker EXCEPT ![w] = next] /\ Good(next, attempt)
    BY <1>1, <1>3, NextChannelGood
  <1> QED
    BY <1>1, <1>4, <1>5, QuietStep DEF PlanInv, TypeOK

LEMMA CreateWithoutEventInv ==
  ASSUME PlanInv, NEW w \in Workers, NEW c \in Channels, CreateWithoutEvent(w, c)
  PROVE  PlanInv'
  <1>1. /\ worker[w].pc = "channels" /\ c \in worker[w].chans
        /\ worker' = [worker EXCEPT ![w] =
             [worker[w] EXCEPT !.pc = "create", !.chans = worker[w].chans \ {c}, !.chan = c]]
        /\ UNCHANGED <<entry, processed, userMessage, notification, attempt, dispatch, takes, faults>>
    BY DEF CreateWithoutEvent, rows
  <1>2. PICK next : worker' = [worker EXCEPT ![w] = next] /\ Good(next, attempt)
    BY <1>1, NextChannelGood DEF BeforeCreate
  <1> QED
    BY <1>1, <1>2, QuietStep DEF PlanInv, TypeOK

(* From one statement before the INSERT to the next. *)
LEMMA StillBeforeGood ==
  ASSUME PlanInv, NEW w \in Workers, worker[w].pc \in BeforeCreate,
         NEW pc \in BeforeCreate, Goto(w, pc)
  PROVE  \E next : worker' = [worker EXCEPT ![w] = next] /\ Good(next, attempt)
  <1> DEFINE r == worker[w]
             next == [r EXCEPT !.pc = pc]
  <1>1. Shape(r, attempt) /\ Progress(r, attempt)
    BY DEF PlanInv, WorkersGood, Good
  <1>2. r \in Worker
    BY <1>1 DEF Shape
  <1>3. /\ next \in Worker /\ next.pc = pc /\ next.msg = r.msg /\ next.user = r.user
        /\ next.users = r.users /\ next.chans = r.chans /\ next.chan = r.chan
    BY <1>2 DEF Worker, WorkerPc, BeforeCreate
  <1>4. worker' = [worker EXCEPT ![w] = next]
    BY DEF Goto
  <1> HIDE DEF next
  <1>5. Shape(next, attempt)
    BY <1>1, <1>3 DEF Shape, PerUser, PerChannel, BeforeCreate, AfterCreate
  <1>6. Progress(next, attempt)
    BY <1>1, <1>3 DEF Progress, Ahead, PerUser, BeforeCreate
  <1> QED
    BY <1>4, <1>5, <1>6 DEF Good

LEMMA TouchLastMessageInv ==
  ASSUME PlanInv, NEW w \in Workers, TouchLastMessage(w)
  PROVE  PlanInv'
  <1> DEFINE n == NotificationOf(w, worker[w].chan)
             last == Newer(notification[n].last, worker[w].msg)
             touched == [notification[n] EXCEPT !.last = last]
  <1>1. /\ worker[w].pc = "touch"
        /\ notification' = [notification EXCEPT ![n] = touched]
        /\ Goto(w, "list")
        /\ UNCHANGED <<entry, processed, userMessage, attempt, dispatch, takes, faults>>
    BY DEF TouchLastMessage
  <1>2. worker[w].msg \in Messages \cup {None}
    BY DEF PlanInv, TypeOK, Worker
  <1>3. ASSUME n \in Events \X Users \X Channels PROVE touched \in Notification
    <2>1. notification[n] \in Notification
      BY <1>3 DEF PlanInv, TypeOK
    <2>2. last \in Messages \cup {None}
      BY <1>2, <2>1 DEF Newer, Notification
    <2> HIDE DEF last
    <2> QED
      BY <2>1, <2>2 DEF Notification
  <1> HIDE DEF touched, n
  <1>4. notification' \in [Events \X Users \X Channels -> Notification]
    BY <1>1, <1>3 DEF PlanInv, TypeOK
  <1>5. PICK next : worker' = [worker EXCEPT ![w] = next] /\ Good(next, attempt)
    BY <1>1, StillBeforeGood DEF BeforeCreate
  <1> QED
    BY <1>1, <1>4, <1>5, QuietStep DEF PlanInv, TypeOK

(* Suppressed or kept, an attempt for the channel is there. *)
LEMMA ListAttemptsInv ==
  ASSUME PlanInv, NEW w \in Workers, ListAttempts(w)
  PROVE  PlanInv'
  <1>1. /\ worker[w].pc = "list"
        /\ UNCHANGED <<entry, processed, userMessage, notification, attempt, dispatch, takes, faults>>
    BY DEF ListAttempts, rows
  <1>2. ASSUME NEW j \in OfSlot(KeyOf(w))
        PROVE  Planned(KeyOf(w), attempt') /\ attempt[j].status \in PlanStatus
    BY <1>1, <1>2 DEF OfSlot, Planned, Exists, PlanInv, TypeOK, Attempt, AttemptStatus, PlanStatus
  <1>3. Keeps(attempt, attempt')
    BY <1>1, KeepsSame
  <1>4. \E next : worker' = [worker EXCEPT ![w] = next] /\ Good(next, attempt)
    <2>1. CASE Goto(w, "create")
      BY <1>1, <2>1, StillBeforeGood DEF BeforeCreate
    <2>2. ASSUME NEW status \in PlanStatus, ChannelDone(w, status), OfSlot(KeyOf(w)) # {}
          PROVE  \E next : worker' = [worker EXCEPT ![w] = next] /\ Good(next, attempt')
      BY <1>1, <1>2, <1>3, <2>2, ChannelDoneGood DEF PerChannel
    <2>3. "suppressed" \in PlanStatus
      BY DEF PlanStatus
    <2> QED
      BY <1>1, <1>2, <2>1, <2>2, <2>3 DEF ListAttempts
  <1> QED
    BY <1>1, <1>4, QuietStep DEF PlanInv, TypeOK
-----------------------------------------------------------------------------
(* The attempt *)

(* The INSERT goes through only where no attempt has the slot. *)
LEMMA NewSlot ==
  ASSUME NEW k \in Keys, ~Duplicate(k), NEW j \in Keys, Exists(j)
  PROVE  slotOf[j] # slotOf[k]
  <1> SUFFICES ASSUME slotOf[j] = slotOf[k] PROVE FALSE
    OBVIOUS
  <1>1. CASE EventBacked(k[1])
    BY <1>1 DEF Duplicate
  <1>2. CASE ~EventBacked(k[1])
    <2>1. j = k
      BY <1>2, OwnSlot
    <2> QED
      BY <2>1 DEF Duplicate
  <1> QED
    BY <1>1, <1>2

LEMMA CreateInv ==
  ASSUME PlanInv, NEW w \in Workers, worker[w].pc = "create", Create(w),
         UNCHANGED <<entry, processed, userMessage, notification, dispatch, takes, faults>>
  PROVE  PlanInv'
  <1> DEFINE r == worker[w]
             k == KeyOf(w)
             new == Row("queued")
             pc == IF SelectContactMethod(r.user, r.chan) = None
                   THEN "failAttempt" ELSE "destination"
             next == [r EXCEPT !.pc = pc]
  <1>1. /\ worker' = [worker EXCEPT ![w] = next]
        /\ attempt' = [attempt EXCEPT ![k] = new]
        /\ ~Duplicate(k)
    BY DEF Create
  <1>2. k \in Keys
    BY KeyInHand DEF PlanInv, PerChannel
  <1>3. attempt \in [Keys -> Attempt] /\ new \in Attempt
    BY DEF PlanInv, TypeOK, Attempt, AttemptStatus, Row
  <1>4. Shape(r, attempt) /\ Progress(r, attempt)
    BY DEF PlanInv, WorkersGood, Good
  <1>5. r \in Worker /\ r.msg \in Messages /\ r.user \in Users
    BY <1>4 DEF Shape, PerUser
  <1>6. /\ next \in Worker /\ next.pc = pc /\ next.msg = r.msg /\ next.user = r.user
        /\ next.users = r.users /\ next.chans = r.chans /\ next.chan = r.chan
    BY <1>5 DEF Worker, WorkerPc
  <1>7. k = <<r.msg, r.user, r.chan>>
    BY DEF KeyOf
  <1> HIDE DEF next, new
  <1>8. attempt'[k] = new /\ \A j \in Keys : j # k => attempt'[j] = attempt[j]
    BY <1>1, <1>2, <1>3
  <1>9. new.status = "queued" /\ ~new.leased
    BY DEF new, Row
  <1>10. attempt[k].status = "absent"
    BY <1>1 DEF Duplicate, Exists
  <1> HIDE DEF k
  <1>11. Keeps(attempt, attempt')
    BY <1>8, <1>9 DEF Keeps
  <1>12. Planned(k, attempt')
    BY <1>2, <1>8, <1>9 DEF Planned
  <1>13. Shape(next, attempt')
    BY <1>4, <1>5, <1>6, <1>7, <1>8, <1>9 DEF Shape, PerUser, PerChannel, AfterCreate
  <1>14. Progress(next, attempt')
    <2> SUFFICES ASSUME NEW u \in Users, NEW c \in channelsOf[r.msg][u]
                 PROVE  Planned(<<r.msg, u, c>>, attempt') \/ Ahead(next, u, c)
      BY <1>6 DEF Progress
    <2>1. Planned(<<r.msg, u, c>>, attempt') \/ Ahead(r, u, c)
      BY <1>4, <1>11, PlannedStays DEF Progress
    <2>2. CASE u \in r.users
      BY <2>2, <1>6 DEF Ahead
    <2>3. CASE u = r.user /\ c \in r.chans
      BY <2>3, <1>6 DEF Ahead, PerUser
    <2>4. CASE u = r.user /\ c = r.chan
      BY <2>4, <1>7, <1>12
    <2> QED
      BY <2>1, <2>2, <2>3, <2>4 DEF Ahead
  <1>15. WorkersGood' /\ worker' \in [Workers -> Worker]
    BY <1>1, <1>11, <1>13, <1>14, MoveWorker DEF PlanInv, Good
  <1>16. NothingLeft'
    BY <1>11, PlannedStays DEF PlanInv, NothingLeft
  <1>17. \A j \in Keys : Exists(j) => slotOf[j] # slotOf[k]
    BY <1>1, <1>2, NewSlot
  <1>18. OneAttemptPerEvent'
    <2> SUFFICES ASSUME NEW i \in Keys, NEW j \in Keys, Exists(i)', Exists(j)',
                        slotOf[i] = slotOf[j]
                 PROVE  i = j
      BY DEF OneAttemptPerEvent
    <2>1. (i # k => Exists(i)) /\ (j # k => Exists(j))
      BY <1>8 DEF Exists
    <2>2. CASE i # k /\ j # k
      BY <2>1, <2>2 DEF PlanInv, OneAttemptPerEvent
    <2>3. CASE i = k \/ j = k
      BY <1>17, <2>1, <2>3
    <2> QED
      BY <2>2, <2>3
  <1>19. TakenUp'
    <2>1. Counted(new, trail[k])
      <3>1. Counted(attempt[k], trail[k]) /\ trail[k] \in Trail
        BY <1>2 DEF PlanInv, TypeOK, TakenUp
      <3> QED
        BY <1>9, <1>10, <3>1 DEF Counted, Open, Trail
    <2>2. \A j \in Keys : Counted(attempt'[j], trail[j])
      BY <1>8, <2>1 DEF PlanInv, TakenUp
    <2> QED
      BY <1>11, <2>2, TakenUpStays DEF dispatch
  <1>20. TypeOK'
    BY <1>1, <1>2, <1>3, <1>15 DEF PlanInv, TypeOK, dispatch
  <1> QED
    BY <1>15, <1>16, <1>18, <1>19, <1>20 DEF PlanInv

(* Losing the INSERT means that another attempt is there. *)
LEMMA CreateLosesInv ==
  ASSUME PlanInv, NEW w \in Workers, worker[w].pc = "create", CreateLoses(w),
         UNCHANGED <<entry, processed, userMessage, notification, dispatch, takes, faults>>
  PROVE  PlanInv'
  <1>1. attempt' = attempt
    BY DEF CreateLoses
  <1>2. PICK j \in OfSlot(KeyOf(w)) : ChannelDone(w, attempt[j].status)
    BY DEF CreateLoses
  <1>3. Planned(KeyOf(w), attempt') /\ attempt[j].status \in PlanStatus
    BY <1>1, <1>2 DEF OfSlot, Planned, Exists, PlanInv, TypeOK, Attempt, AttemptStatus, PlanStatus
  <1>4. PICK next : worker' = [worker EXCEPT ![w] = next] /\ Good(next, attempt)
    BY <1>1, <1>2, <1>3, KeepsSame, ChannelDoneGood DEF PerChannel
  <1> QED
    BY <1>1, <1>4, QuietStep DEF PlanInv, TypeOK

LEMMA CreateAttemptInv ==
  ASSUME PlanInv, NEW w \in Workers, CreateAttempt(w)
  PROVE  PlanInv'
  BY CreateInv, CreateLosesInv DEF CreateAttempt

(* A worker changes the attempt it has in hand, and settles the channel or *)
(* goes on with the notification.                                          *)
LEMMA OwnAttemptStep ==
  ASSUME PlanInv, NEW w \in Workers, worker[w].pc \in AfterCreate,
         NEW new \in Attempt, new.status # "absent",
         Counted(new, trail[KeyOf(w)]),
         attempt' = [attempt EXCEPT ![KeyOf(w)] = new],
         UNCHANGED <<entry, processed, userMessage, notification, dispatch, takes, faults>>,
         \/ Goto(w, "failNotification")
         \/ \E status \in PlanStatus : ChannelDone(w, status)
  PROVE  PlanInv'
  <1> DEFINE r == worker[w]
             k == KeyOf(w)
  <1>1. k \in Keys /\ r.pc \in PerChannel
    BY KeyInHand DEF PlanInv, AfterCreate, PerChannel
  <1>2. attempt \in [Keys -> Attempt]
    BY DEF PlanInv, TypeOK
  <1>3. Good(r, attempt)
    BY DEF PlanInv, WorkersGood
  <1>4. attempt[k].status # "absent"
    BY <1>3 DEF Good, Shape, KeyOf
  <1>5. attempt'[k] = new /\ \A j \in Keys : j # k => attempt'[j] = attempt[j]
    BY <1>1, <1>2
  <1>6. \A j \in Keys : attempt'[j].status = "absent" <=> attempt[j].status = "absent"
    BY <1>4, <1>5
  <1>7. Keeps(attempt, attempt') /\ OneAttemptPerEvent' /\ NothingLeft'
    BY <1>6, SameAttempts
  <1>8. Planned(k, attempt')
    BY <1>1, <1>5 DEF Planned
  <1>9. \E next : worker' = [worker EXCEPT ![w] = next] /\ Good(next, attempt')
    <2>1. CASE \E status \in PlanStatus : ChannelDone(w, status)
      BY <1>1, <1>7, <1>8, <2>1, ChannelDoneGood
    <2>2. CASE Goto(w, "failNotification")
      <3> DEFINE next == [r EXCEPT !.pc = "failNotification"]
      <3>1. Good(r, attempt')
        BY <1>3, <1>7, GoodStays
      <3>2. /\ next \in Worker /\ next.pc = "failNotification" /\ next.msg = r.msg
            /\ next.user = r.user /\ next.users = r.users /\ next.chans = r.chans
            /\ next.chan = r.chan
        BY <1>3 DEF Good, Shape, Worker, WorkerPc
      <3>3. worker' = [worker EXCEPT ![w] = next]
        BY <2>2 DEF Goto
      <3> HIDE DEF next
      <3>4. Shape(next, attempt')
        BY <3>1, <3>2 DEF Good, Shape, PerUser, PerChannel, AfterCreate
      <3>5. Progress(next, attempt')
        BY <3>1, <3>2 DEF Good, Progress, Ahead, PerUser, BeforeCreate, AfterCreate
      <3> QED
        BY <3>3, <3>4, <3>5 DEF Good
    <2> QED
      BY <2>1, <2>2
  <1>10. WorkersGood' /\ worker' \in [Workers -> Worker]
    BY <1>7, <1>9, MoveWorker DEF PlanInv
  <1>11. TakenUp'
    <2>1. \A j \in Keys : Counted(attempt'[j], trail[j])
      BY <1>5 DEF PlanInv, TakenUp
    <2> QED
      BY <1>7, <2>1, TakenUpStays DEF dispatch
  <1>12. TypeOK'
    BY <1>1, <1>2, <1>10 DEF PlanInv, TypeOK, dispatch
  <1> QED
    BY <1>7, <1>10, <1>11, <1>12 DEF PlanInv

LEMMA UpdateDestinationInv ==
  ASSUME PlanInv, NEW w \in Workers, UpdateDestination(w)
  PROVE  PlanInv'
  <1> DEFINE k == KeyOf(w)
             d == SelectContactMethod(worker[w].user, worker[w].chan)
             new == [attempt[k] EXCEPT !.destination = d]
  <1>1. /\ worker[w].pc = "destination"
        /\ attempt' = [attempt EXCEPT ![k] = new]
        /\ ChannelDone(w, "queued")
        /\ UNCHANGED <<entry, processed, userMessage, notification, dispatch, takes, faults>>
    BY DEF UpdateDestination
  <1>2. k \in Keys /\ worker[w].user \in Users /\ worker[w].chan \in Channels
    BY <1>1, KeyInHand DEF PlanInv, PerChannel
  <1>3. d \in Channels \cup {None}
    BY <1>2, ConstantsAssumption DEF SelectContactMethod
  <1>4. attempt[k] \in Attempt
    BY <1>2 DEF PlanInv, TypeOK
  <1>5. attempt[k].status # "absent"
    BY <1>1 DEF PlanInv, WorkersGood, Good, Shape, AfterCreate, KeyOf
  <1>6. /\ new \in Attempt /\ new.status = attempt[k].status
        /\ new.leased = attempt[k].leased /\ new.call = attempt[k].call
    <2> HIDE DEF d
    <2> QED
      BY <1>3, <1>4 DEF Attempt
  <1>7. Counted(new, trail[k])
    <2>1. Counted(attempt[k], trail[k])
      BY <1>2 DEF PlanInv, TakenUp
    <2> HIDE DEF new
    <2> QED
      BY <1>6, <2>1 DEF Counted, Open
  <1>8. \E status \in PlanStatus : ChannelDone(w, status)
    BY <1>1 DEF PlanStatus
  <1> HIDE DEF new
  <1> QED
    BY <1>1, <1>5, <1>6, <1>7, <1>8, OwnAttemptStep DEF AfterCreate

LEMMA FailAttemptInv ==
  ASSUME PlanInv, NEW w \in Workers, FailAttempt(w)
  PROVE  PlanInv'
  <1> DEFINE k == KeyOf(w)
             new == [attempt[k] EXCEPT !.status = "failed", !.leased = FALSE, !.call = "none"]
  <1>1. /\ worker[w].pc = "failAttempt"
        /\ attempt' = [attempt EXCEPT ![k] = new]
        /\ UNCHANGED <<entry, processed, userMessage, notification, dispatch, takes, faults>>
    BY DEF FailAttempt, UpdateStatus
  <1>2. k \in Keys
    BY <1>1, KeyInHand DEF PlanInv, PerChannel
  <1>3. attempt[k] \in Attempt
    BY <1>2 DEF PlanInv, TypeOK
  <1>4. new \in Attempt /\ new.status = "failed" /\ ~new.leased
    BY <1>3 DEF Attempt, AttemptStatus, Outcome
  <1>5. \/ Goto(w, "failNotification")
        \/ \E status \in PlanStatus : ChannelDone(w, status)
    BY DEF FailAttempt, PlanStatus, Outcome
  <1> HIDE DEF new
  <1>6. Counted(new, trail[k])
    <2>1. Counted(attempt[k], trail[k])
      BY <1>2 DEF PlanInv, TakenUp
    <2> QED
      BY <1>4, <2>1 DEF Counted, Open
  <1> QED
    BY <1>1, <1>4, <1>5, <1>6, OwnAttemptStep DEF AfterCreate

LEMMA UpdateNotificationType ==
  ASSUME PlanInv, NEW n, NEW m \in Messages, NEW status \in Answer,
         UpdateNotification(n, m, status)
  PROVE  notification' \in [Events \X Users \X Channels -> Notification]
  <1> DEFINE last == Newer(notification[n].last, m)
             new == [first |-> notification[n].first, last |-> last, status |-> status]
  <1>1. notification' = [notification EXCEPT ![n] = new]
    BY DEF UpdateNotification
  <1>2. ASSUME n \in Events \X Users \X Channels PROVE new \in Notification
    <2>1. notification[n] \in Notification
      BY <1>2 DEF PlanInv, TypeOK
    <2>2. last \in Messages \cup {None}
      BY <2>1 DEF Newer, Notification
    <2> HIDE DEF last
    <2> QED
      BY <2>1, <2>2 DEF Notification, Answer
  <1> HIDE DEF new
  <1> QED
    BY <1>1, <1>2 DEF PlanInv, TypeOK

LEMMA FailNotificationInv ==
  ASSUME PlanInv, NEW w \in Workers, FailNotification(w)
  PROVE  PlanInv'
  <1> DEFINE r == worker[w]
  <1>1. /\ r.pc = "failNotification"
        /\ UpdateNotification(NotificationOf(w, r.chan), r.msg, "failed")
        /\ ChannelDone(w, "failed")
        /\ UNCHANGED <<entry, processed, userMessage, attempt, dispatch, takes, faults>>
    BY DEF FailNotification
  <1>2. KeyOf(w) \in Keys /\ r.msg \in Messages
    BY <1>1, KeyInHand DEF PlanInv, PerChannel
  <1>3. notification' \in [Events \X Users \X Channels -> Notification]
    BY <1>1, <1>2, UpdateNotificationType DEF Outcome, Answer
  <1>4. attempt[KeyOf(w)].status # "absent"
    BY <1>1 DEF PlanInv, WorkersGood, Good, Shape, AfterCreate, KeyOf
  <1>5. Planned(KeyOf(w), attempt')
    BY <1>1, <1>2, <1>4 DEF Planned
  <1>6. PICK next : worker' = [worker EXCEPT ![w] = next] /\ Good(next, attempt)
    BY <1>1, <1>5, KeepsSame, ChannelDoneGood DEF PerChannel, PlanStatus, Outcome
  <1> QED
    BY <1>1, <1>3, <1>6, QuietStep DEF PlanInv, TypeOK

(* With no channel before it the recipient is done. *)
LEMMA SummaryInv ==
  ASSUME PlanInv, NEW w \in Workers, Summary(w)
  PROVE  PlanInv'
  <1> DEFINE r == worker[w]
             status == Summarize(channelsOf[r.msg][r.user], r.plan)
             pc == IF r.users = {} THEN "processed" ELSE "users"
             next == [r EXCEPT !.pc = pc, !.user = None, !.plan = NoPlan]
  <1>1. /\ r.pc = "summary"
        /\ userMessage' = [userMessage EXCEPT ![RowOf(w)] = status]
        /\ worker' = [worker EXCEPT ![w] = next]
        /\ UNCHANGED <<entry, processed, notification, attempt, dispatch, takes, faults>>
    BY DEF Summary
  <1>2. status \in UserMessageStatus
    BY DEF Summarize, UserMessageStatus
  <1>3. Shape(r, attempt) /\ Progress(r, attempt)
    BY DEF PlanInv, WorkersGood, Good
  <1>4. r \in Worker /\ r.msg \in Messages /\ r.chans = {}
    BY <1>1, <1>3 DEF Shape
  <1>5. NoPlan \in [Channels -> PlanStatus]
    BY DEF NoPlan, PlanStatus
  <1>6. /\ next \in Worker /\ next.pc = pc /\ next.msg = r.msg /\ next.users = r.users
    BY <1>4, <1>5 DEF Worker, WorkerPc
  <1> HIDE DEF next, status
  <1>7. Shape(next, attempt)
    BY <1>4, <1>6 DEF Shape, PerUser, PerChannel, AfterCreate
  <1>8. Progress(next, attempt)
    BY <1>1, <1>3, <1>4, <1>6 DEF Progress, Ahead, BeforeCreate
  <1>9. userMessage' \in [Messages \X Users -> UserMessageStatus]
    BY <1>1, <1>2 DEF PlanInv, TypeOK
  <1> QED
    BY <1>1, <1>7, <1>8, <1>9, QuietStep DEF PlanInv, TypeOK, Good

-----------------------------------------------------------------------------
(* The relay and the dispatcher *)

LEMMA PublishInv ==
  ASSUME PlanInv, NEW m \in Messages, Publish(m) \/ Republish(m)
  PROVE  PlanInv'
  <1>1. UNCHANGED <<processed, userMessage, notification, attempt, worker, dispatch, takes>>
    BY DEF Publish, Republish, rows
  <1>2. entry' \in [Messages -> EntryState]
    BY DEF Publish, Republish, PlanInv, TypeOK, EntryState
  <1>3. faults' \in 0..MaxFaults
    BY FaultType DEF Publish, Republish, PlanInv, TypeOK
  <1> QED
    BY <1>1, <1>2, <1>3
    DEF PlanInv, TypeOK, WorkersGood, NothingLeft, OneAttemptPerEvent, Exists, TakenUp, dispatch

(* A step of a dispatcher, of a callback handler or of the clock: it       *)
(* changes at most one attempt that is there, and takes no call back.      *)
LEMMA DispatchStep ==
  ASSUME PlanInv, NEW k \in Keys, Exists(k), NEW new \in Attempt, new.status # "absent",
         attempt' = [attempt EXCEPT ![k] = new],
         trail' \in [Keys -> Trail], Counted(new, trail'[k]),
         \A j \in Keys : trail'[j].calls >= trail[j].calls,
         \A j \in Keys : j # k => /\ trail'[j].calls = trail[j].calls
                                  /\ trail'[j].again = trail[j].again,
         caller' \in [Dispatchers -> [Keys -> Caller]],
         \A d \in Dispatchers : \A j \in Keys :
           caller'[d][j] = caller[d][j] \/ CallGood(caller'[d][j], j, attempt', trail'),
         hook' \in [Handlers -> Hook],
         \A h \in Handlers : hook'[h] = hook[h] \/ HookGood(hook'[h], attempt'),
         UNCHANGED <<entry, processed, worker, takes>>,
         faults' \in 0..MaxFaults,
         userMessage' \in [Messages \X Users -> UserMessageStatus],
         notification' \in [Events \X Users \X Channels -> Notification]
  PROVE  PlanInv'
  <1>1. attempt \in [Keys -> Attempt] /\ trail \in [Keys -> Trail]
    BY DEF PlanInv, TypeOK
  <1>2. attempt'[k] = new /\ \A j \in Keys : j # k => attempt'[j] = attempt[j]
    BY <1>1
  <1>3. \A j \in Keys : attempt'[j].status = "absent" <=> attempt[j].status = "absent"
    BY <1>2 DEF Exists
  <1>4. Keeps(attempt, attempt') /\ OneAttemptPerEvent' /\ NothingLeft'
    BY <1>3, SameAttempts
  <1>5. WorkersGood'
    BY <1>4, GoodStays DEF PlanInv, WorkersGood
  <1>6. TakenUp'
    <2>1. ASSUME NEW d \in Dispatchers, NEW j \in Keys, caller'[d][j] = caller[d][j]
          PROVE  CallGood(caller'[d][j], j, attempt', trail')
      <3>1. CallGood(caller[d][j], j, attempt, trail)
        BY DEF PlanInv, TakenUp
      <3>2. trail'[j].calls \in Nat /\ trail[j].calls \in Nat /\ trail'[j].calls >= trail[j].calls
        BY <1>1 DEF Trail
      <3> QED
        BY <1>4, <2>1, <3>1, <3>2 DEF CallGood, Keeps
    <2>2. ASSUME NEW h \in Handlers, hook'[h] = hook[h] PROVE HookGood(hook'[h], attempt')
      BY <1>4, <2>2 DEF PlanInv, TakenUp, HookGood, Keeps
    <2>3. ASSUME NEW j \in Keys PROVE Counted(attempt'[j], trail'[j])
      BY <1>2 DEF PlanInv, TakenUp, Counted
    <2> QED
      BY <2>1, <2>2, <2>3 DEF TakenUp
  <1>7. TypeOK'
    BY <1>1 DEF PlanInv, TypeOK
  <1> QED
    BY <1>4, <1>5, <1>6, <1>7 DEF PlanInv

LEMMA TrailMove ==
  ASSUME PlanInv, NEW k \in Keys, NEW t \in Trail, trail' = [trail EXCEPT ![k] = t],
         t.calls >= trail[k].calls
  PROVE  /\ trail' \in [Keys -> Trail] /\ trail'[k] = t
         /\ \A j \in Keys : j # k => trail'[j] = trail[j]
         /\ \A j \in Keys : trail'[j].calls >= trail[j].calls
  <1>1. trail \in [Keys -> Trail]
    BY DEF PlanInv, TypeOK
  <1>2. \A j \in Keys : trail[j].calls \in Nat
    BY <1>1 DEF Trail
  <1> QED
    BY <1>1, <1>2

LEMMA TrailSame ==
  ASSUME PlanInv, UNCHANGED trail
  PROVE  /\ trail' \in [Keys -> Trail]
         /\ \A j \in Keys : trail'[j].calls >= trail[j].calls
  <1>1. trail \in [Keys -> Trail]
    BY DEF PlanInv, TypeOK
  <1>2. \A j \in Keys : trail[j].calls \in Nat
    BY <1>1 DEF Trail
  <1> QED
    BY <1>1, <1>2

LEMMA CallerMove ==
  ASSUME PlanInv, NEW d \in Dispatchers, NEW k \in Keys, NEW c \in Caller,
         caller' = [caller EXCEPT ![d][k] = c]
  PROVE  /\ caller' \in [Dispatchers -> [Keys -> Caller]] /\ caller'[d][k] = c
         /\ \A e \in Dispatchers : \A j \in Keys :
              caller'[e][j] = caller[e][j] \/ (e = d /\ j = k)
  BY DEF PlanInv, TypeOK

LEMMA HookMove ==
  ASSUME PlanInv, NEW h \in Handlers, NEW x \in Hook, hook' = [hook EXCEPT ![h] = x]
  PROVE  /\ hook' \in [Handlers -> Hook] /\ hook'[h] = x
         /\ \A g \in Handlers : hook'[g] = hook[g] \/ g = h
  BY DEF PlanInv, TypeOK

(* An attempt that stays as it is. *)
LEMMA AttemptSame ==
  ASSUME PlanInv, NEW k \in Keys, UNCHANGED attempt
  PROVE  attempt' = [attempt EXCEPT ![k] = attempt[k]] /\ attempt[k] \in Attempt
  BY DEF PlanInv, TypeOK

(* What a dispatcher has in hand. *)
LEMMA InHandGood ==
  ASSUME PlanInv, NEW d \in Dispatchers, NEW k \in Keys, caller[d][k].pc # "none"
  PROVE  /\ Exists(k) /\ attempt[k] \in Attempt /\ trail[k] \in Trail /\ caller[d][k] \in Caller
         /\ trail[k].calls > 0 /\ Counted(attempt[k], trail[k])
         /\ caller[d][k].pc \in {"attempt", "notification"} => caller[d][k].outcome \in Answer
         /\ caller[d][k].pc = "user" => caller[d][k].outcome \in Outcome
  BY DEF PlanInv, TypeOK, TakenUp, CallGood, Exists

LEMMA NoCallGood == NoCall \in Caller /\ NoCall.pc = "none"
  BY DEF NoCall, Caller, CallerPc

LEMMA NoHookGood == NoHook \in Hook /\ NoHook.pc = "none"
  BY DEF NoHook, Hook, HookPc

LEMMA ClaimInv ==
  ASSUME PlanInv, NEW d \in Dispatchers, NEW k \in Keys, Claim(d, k)
  PROVE  PlanInv'
  <1> DEFINE new == [attempt[k] EXCEPT !.status = "dispatching", !.leased = TRUE]
             t == [trail[k] EXCEPT !.calls = trail[k].calls + 1]
             c == [pc |-> "call", dialled |-> attempt[k].destination, outcome |-> None]
  <1>1. /\ attempt' = [attempt EXCEPT ![k] = new]
        /\ caller' = [caller EXCEPT ![d][k] = c]
        /\ trail' = [trail EXCEPT ![k] = t]
        /\ Claimable(k)
        /\ UNCHANGED <<entry, processed, userMessage, notification, worker, hook, takes, faults>>
    BY DEF Claim
  <1>2. attempt[k] \in Attempt /\ trail[k] \in Trail /\ Counted(attempt[k], trail[k])
    BY DEF PlanInv, TypeOK, TakenUp
  <1>3. new \in Attempt /\ new.status = "dispatching" /\ new.leased
    BY <1>2 DEF Attempt, AttemptStatus
  <1>4. c \in Caller /\ c.pc = "call"
    BY <1>2 DEF Attempt, Caller, CallerPc
  <1>5. t \in Trail /\ t.calls = trail[k].calls + 1 /\ t.again = trail[k].again
    BY <1>2 DEF Trail
  <1>6. /\ trail[k].calls \in Nat /\ trail[k].again \in Nat /\ trail[k].calls <= trail[k].again
    BY <1>1, <1>2 DEF Trail, Counted, Open, Claimable
  <1> HIDE DEF new, c, t
  <1>7. Counted(new, t) /\ t.calls > 0 /\ t.calls >= trail[k].calls
    BY <1>3, <1>5, <1>6 DEF Counted, Open
  <1>8. /\ trail' \in [Keys -> Trail] /\ trail'[k] = t
        /\ \A j \in Keys : j # k => trail'[j] = trail[j]
        /\ \A j \in Keys : trail'[j].calls >= trail[j].calls
    BY <1>1, <1>5, <1>7, TrailMove
  <1>9. /\ caller' \in [Dispatchers -> [Keys -> Caller]] /\ caller'[d][k] = c
        /\ \A e \in Dispatchers : \A j \in Keys :
             caller'[e][j] = caller[e][j] \/ (e = d /\ j = k)
    BY <1>1, <1>4, CallerMove
  <1>10. attempt'[k] = new
    BY <1>1 DEF PlanInv, TypeOK
  <1>11. CallGood(caller'[d][k], k, attempt', trail')
    BY <1>3, <1>4, <1>7, <1>8, <1>9, <1>10 DEF CallGood
  <1>12. Exists(k) /\ new.status # "absent" /\ Counted(new, trail'[k])
    BY <1>1, <1>3, <1>7, <1>8 DEF Exists, Claimable
  <1> QED
    <2>1. \A e \in Dispatchers : \A j \in Keys :
            caller'[e][j] = caller[e][j] \/ CallGood(caller'[e][j], j, attempt', trail')
      BY <1>9, <1>11
    <2>2. /\ UNCHANGED <<entry, processed, worker, takes>>
          /\ hook' \in [Handlers -> Hook] /\ \A h \in Handlers : hook'[h] = hook[h]
          /\ faults' \in 0..MaxFaults
          /\ userMessage' \in [Messages \X Users -> UserMessageStatus]
          /\ notification' \in [Events \X Users \X Channels -> Notification]
      BY <1>1 DEF PlanInv, TypeOK
    <2>3. attempt' = [attempt EXCEPT ![k] = new] /\ new \in Attempt
      BY <1>1, <1>3
    <2> QED
      BY <1>8, <1>9, <1>12, <2>1, <2>2, <2>3, DispatchStep

LEMMA SendInv ==
  ASSUME PlanInv, NEW d \in Dispatchers, NEW k \in Keys, Send(d, k)
  PROVE  PlanInv'
  <1>1. PICK answer \in Answer :
          /\ IF answer = "queued" THEN Fault ELSE UNCHANGED faults
          /\ caller' = [caller EXCEPT ![d][k] =
               [caller[d][k] EXCEPT !.pc = "attempt", !.outcome = answer]]
          /\ trail' = [trail EXCEPT ![k].told = @ \cup ({answer} \cap Outcome),
                                    ![k].disturbed = @ \/ answer = "queued"]
    BY DEF Send
  <1> DEFINE c == [caller[d][k] EXCEPT !.pc = "attempt", !.outcome = answer]
             told == trail[k].told \cup ({answer} \cap Outcome)
             disturbed == trail[k].disturbed \/ answer = "queued"
             t == [trail[k] EXCEPT !.told = told, !.disturbed = disturbed]
  <1>2. /\ caller[d][k].pc = "call"
        /\ UNCHANGED <<entry, processed, userMessage, notification, attempt, worker, hook, takes>>
    BY DEF Send, rows
  <1>3. /\ Exists(k) /\ attempt[k] \in Attempt /\ trail[k] \in Trail /\ caller[d][k] \in Caller
        /\ trail[k].calls > 0 /\ Counted(attempt[k], trail[k])
    BY <1>2, InHandGood
  <1>4. c \in Caller /\ c.pc = "attempt" /\ c.outcome = answer
    BY <1>3 DEF Caller, CallerPc
  <1>5. t \in Trail /\ t.calls = trail[k].calls /\ t.again = trail[k].again
    <2>1. told \in SUBSET Outcome /\ disturbed \in BOOLEAN
      BY <1>3 DEF Trail
    <2> HIDE DEF told, disturbed
    <2> QED
      BY <1>3, <2>1 DEF Trail
  <1>6. trail' = [trail EXCEPT ![k] = t] /\ caller' = [caller EXCEPT ![d][k] = c]
    <2>1. trail \in [Keys -> Trail]
      BY DEF PlanInv, TypeOK
    <2> QED
      BY <1>1, <1>3, <2>1 DEF Trail
  <1> HIDE DEF t, c
  <1>7. Counted(attempt[k], t) /\ t.calls > 0 /\ t.calls >= trail[k].calls
    <2>1. trail[k].calls \in Nat
      BY <1>3 DEF Trail
    <2> QED
      BY <1>3, <1>5, <2>1 DEF Counted
  <1>8. /\ trail' \in [Keys -> Trail] /\ trail'[k] = t
        /\ \A j \in Keys : j # k => trail'[j] = trail[j]
        /\ \A j \in Keys : trail'[j].calls >= trail[j].calls
    BY <1>5, <1>6, <1>7, TrailMove
  <1>9. /\ caller' \in [Dispatchers -> [Keys -> Caller]] /\ caller'[d][k] = c
        /\ \A e \in Dispatchers : \A j \in Keys :
             caller'[e][j] = caller[e][j] \/ (e = d /\ j = k)
    BY <1>4, <1>6, CallerMove
  <1>10. CallGood(caller'[d][k], k, attempt', trail')
    BY <1>2, <1>3, <1>4, <1>7, <1>8, <1>9 DEF CallGood, Exists
  <1>11. faults' \in 0..MaxFaults
    BY <1>1, FaultType DEF PlanInv, TypeOK
  <1>12. attempt' = [attempt EXCEPT ![k] = attempt[k]] /\ attempt[k].status # "absent"
    BY <1>2, <1>3, AttemptSame DEF Exists
  <1> QED
    BY <1>2, <1>3, <1>7, <1>8, <1>9, <1>10, <1>11, <1>12, DispatchStep, ZenonT(40) DEF PlanInv, TypeOK

(* An attempt gets a status, and its lease ends. *)
LEMMA UpdateStatusType ==
  ASSUME PlanInv, NEW k \in Keys, NEW status \in AttemptStatus \ {"absent"},
         NEW call \in {"none", "live"} \cup Outcome, UpdateStatus(k, status, call)
  PROVE  \E new \in Attempt : /\ attempt' = [attempt EXCEPT ![k] = new]
                              /\ new.status = status /\ ~new.leased /\ new.call = call
                              /\ new.destination = attempt[k].destination
  <1> DEFINE new == [attempt[k] EXCEPT !.status = status, !.leased = FALSE, !.call = call]
  <1>1. attempt[k] \in Attempt
    BY DEF PlanInv, TypeOK
  <1>2. /\ new \in Attempt /\ new.status = status /\ ~new.leased /\ new.call = call
        /\ new.destination = attempt[k].destination
    BY <1>1 DEF Attempt
  <1>3. attempt' = [attempt EXCEPT ![k] = new]
    BY DEF UpdateStatus
  <1> QED
    BY <1>2, <1>3

LEMMA RequeueInv ==
  ASSUME PlanInv, NEW d \in Dispatchers, NEW k \in Keys, Requeue(d, k)
  PROVE  PlanInv'
  <1> DEFINE c == IF EventBacked(k[1]) THEN [caller[d][k] EXCEPT !.pc = "notification"] ELSE NoCall
             t == [trail[k] EXCEPT !.again = trail[k].again + 1]
  <1>1. /\ caller[d][k].pc = "attempt" /\ caller[d][k].outcome = "queued"
        /\ UpdateStatus(k, "queued", attempt[k].call)
        /\ trail' = [trail EXCEPT ![k] = t]
        /\ caller' = [caller EXCEPT ![d][k] = c]
        /\ UNCHANGED <<entry, processed, userMessage, notification, worker, hook, takes, faults>>
    BY DEF Requeue
  <1>2. /\ Exists(k) /\ attempt[k] \in Attempt /\ trail[k] \in Trail /\ caller[d][k] \in Caller
        /\ trail[k].calls > 0 /\ Counted(attempt[k], trail[k])
    BY <1>1, InHandGood
  <1>3. PICK new \in Attempt : /\ attempt' = [attempt EXCEPT ![k] = new]
                               /\ new.status = "queued" /\ ~new.leased
    <2>1. attempt[k].call \in {"none", "live"} \cup Outcome
      BY <1>2 DEF Attempt
    <2>2. "queued" \in AttemptStatus \ {"absent"}
      BY DEF AttemptStatus
    <2> QED
      BY <1>1, <2>1, <2>2, UpdateStatusType
  <1>4. c \in Caller /\ c.pc \in {"none", "notification"}
        /\ (c.pc = "notification" => c.outcome = "queued")
    <2>1. CASE EventBacked(k[1])
      BY <1>1, <1>2, <2>1 DEF Caller, CallerPc
    <2>2. CASE ~EventBacked(k[1])
      BY <2>2, NoCallGood
    <2> QED
      BY <2>1, <2>2
  <1>5. t \in Trail /\ t.calls = trail[k].calls /\ t.again = trail[k].again + 1
    BY <1>2 DEF Trail
  <1> HIDE DEF t, c
  <1>6. Counted(new, t) /\ t.calls > 0 /\ t.calls >= trail[k].calls
    <2>1. trail[k].calls \in Nat /\ trail[k].again \in Nat
      BY <1>2 DEF Trail
    <2> QED
      BY <1>2, <1>3, <1>5, <2>1 DEF Counted, Open
  <1>7. /\ trail' \in [Keys -> Trail] /\ trail'[k] = t
        /\ \A j \in Keys : j # k => trail'[j] = trail[j]
        /\ \A j \in Keys : trail'[j].calls >= trail[j].calls
    BY <1>1, <1>5, <1>6, TrailMove
  <1>8. /\ caller' \in [Dispatchers -> [Keys -> Caller]] /\ caller'[d][k] = c
        /\ \A e \in Dispatchers : \A j \in Keys :
             caller'[e][j] = caller[e][j] \/ (e = d /\ j = k)
    BY <1>1, <1>4, CallerMove
  <1>9. attempt'[k] = new
    BY <1>3 DEF PlanInv, TypeOK
  <1>10. CallGood(caller'[d][k], k, attempt', trail')
    BY <1>3, <1>4, <1>6, <1>7, <1>8, <1>9 DEF CallGood, Answer
  <1> QED
    BY <1>1, <1>2, <1>3, <1>6, <1>7, <1>8, <1>10, DispatchStep, ZenonT(40) DEF PlanInv, TypeOK

(* The three steps that record an outcome. *)
LEMMA RecordAttemptInv ==
  ASSUME PlanInv, NEW d \in Dispatchers, NEW k \in Keys, RecordAttempt(d, k)
  PROVE  PlanInv'
  <1> DEFINE c == [caller[d][k] EXCEPT !.pc = "user"]
             call == IF caller[d][k].outcome = "sent" THEN "live" ELSE "none"
  <1>1. /\ caller[d][k].pc = "attempt" /\ caller[d][k].outcome \in Outcome
        /\ UpdateStatus(k, caller[d][k].outcome, call)
        /\ caller' = [caller EXCEPT ![d][k] = c]
        /\ UNCHANGED <<entry, processed, userMessage, notification, worker, hook, trail, takes,
                       faults>>
    BY DEF RecordAttempt
  <1>2. /\ Exists(k) /\ trail[k] \in Trail /\ caller[d][k] \in Caller
        /\ trail[k].calls > 0 /\ Counted(attempt[k], trail[k])
    BY <1>1, InHandGood
  <1>3. PICK new \in Attempt : /\ attempt' = [attempt EXCEPT ![k] = new]
                               /\ new.status = caller[d][k].outcome /\ ~new.leased
    <2>1. call \in {"none", "live"} \cup Outcome
      OBVIOUS
    <2>2. caller[d][k].outcome \in AttemptStatus \ {"absent"}
      BY <1>1 DEF AttemptStatus, Outcome
    <2> HIDE DEF call
    <2> QED
      BY <1>1, <2>1, <2>2, UpdateStatusType
  <1>4. c \in Caller /\ c.pc = "user" /\ c.outcome = caller[d][k].outcome
    BY <1>2 DEF Caller, CallerPc
  <1> HIDE DEF c
  <1>5. Counted(new, trail[k]) /\ new.status # "absent"
    BY <1>1, <1>2, <1>3 DEF Counted, Open, Outcome
  <1>6. /\ trail' \in [Keys -> Trail]
        /\ \A j \in Keys : trail'[j].calls >= trail[j].calls
    BY <1>1, TrailSame
  <1>7. /\ caller' \in [Dispatchers -> [Keys -> Caller]] /\ caller'[d][k] = c
        /\ \A e \in Dispatchers : \A j \in Keys :
             caller'[e][j] = caller[e][j] \/ (e = d /\ j = k)
    BY <1>1, <1>4, CallerMove
  <1>8. attempt'[k] = new
    BY <1>3 DEF PlanInv, TypeOK
  <1>9. CallGood(caller'[d][k], k, attempt', trail')
    BY <1>1, <1>2, <1>4, <1>5, <1>7, <1>8 DEF CallGood
  <1> QED
    BY <1>1, <1>2, <1>3, <1>5, <1>6, <1>7, <1>9, DispatchStep DEF PlanInv, TypeOK

LEMMA RecordInv ==
  ASSUME PlanInv, NEW d \in Dispatchers, NEW k \in Keys,
         RecordUserMessage(d, k) \/ RecordNotification(d, k)
  PROVE  PlanInv'
  <1> DEFINE c == IF caller[d][k].pc = "user" /\ EventBacked(k[1])
                  THEN [caller[d][k] EXCEPT !.pc = "notification"] ELSE NoCall
  <1>1. /\ caller[d][k].pc \in {"user", "notification"}
        /\ caller' = [caller EXCEPT ![d][k] = c]
        /\ UNCHANGED <<entry, processed, attempt, worker, hook, trail, takes, faults>>
    BY DEF RecordUserMessage, RecordNotification
  <1>2. /\ Exists(k) /\ attempt[k] \in Attempt /\ trail[k] \in Trail /\ caller[d][k] \in Caller
        /\ trail[k].calls > 0 /\ Counted(attempt[k], trail[k])
        /\ caller[d][k].outcome \in Answer
        /\ caller[d][k].pc = "user" => caller[d][k].outcome \in Outcome
    BY <1>1, InHandGood DEF Answer
  <1>3. attempt' = [attempt EXCEPT ![k] = attempt[k]] /\ attempt[k].status # "absent"
    BY <1>1, <1>2, AttemptSame DEF Exists
  <1>4. /\ c \in Caller
        /\ c.pc \in {"none", "notification"}
        /\ c.pc = "notification" => c.outcome = caller[d][k].outcome
    <2>1. CASE caller[d][k].pc = "user" /\ EventBacked(k[1])
      BY <1>2, <2>1 DEF Caller, CallerPc
    <2>2. CASE ~(caller[d][k].pc = "user" /\ EventBacked(k[1]))
      BY <2>2, NoCallGood
    <2> QED
      BY <2>1, <2>2
  <1>5. k[1] \in Messages /\ k[2] \in Users
    BY DEF Keys
  <1>6. userMessage' \in [Messages \X Users -> UserMessageStatus]
    <2>1. CASE RecordUserMessage(d, k)
      <3>1. userMessage' = [userMessage EXCEPT ![<<k[1], k[2]>>] = caller[d][k].outcome]
            /\ caller[d][k].pc = "user"
        BY <2>1 DEF RecordUserMessage
      <3> QED
        BY <1>2, <1>5, <3>1 DEF PlanInv, TypeOK, UserMessageStatus, Outcome
    <2>2. CASE RecordNotification(d, k)
      BY <2>2 DEF RecordNotification, PlanInv, TypeOK
    <2> QED
      BY <2>1, <2>2
  <1>7. notification' \in [Events \X Users \X Channels -> Notification]
    <2>1. CASE RecordUserMessage(d, k)
      BY <2>1 DEF RecordUserMessage, PlanInv, TypeOK
    <2>2. CASE RecordNotification(d, k)
      BY <1>2, <1>5, <2>2, UpdateNotificationType DEF RecordNotification
    <2> QED
      BY <2>1, <2>2
  <1> HIDE DEF c
  <1>8. /\ caller' \in [Dispatchers -> [Keys -> Caller]] /\ caller'[d][k] = c
        /\ \A e \in Dispatchers : \A j \in Keys :
             caller'[e][j] = caller[e][j] \/ (e = d /\ j = k)
    BY <1>1, <1>4, CallerMove
  <1>9. CallGood(caller'[d][k], k, attempt', trail')
    BY <1>1, <1>2, <1>3, <1>4, <1>8 DEF CallGood
  <1>10. /\ trail' \in [Keys -> Trail]
         /\ \A j \in Keys : trail'[j].calls >= trail[j].calls
    BY <1>1, TrailSame
  <1> QED
    BY <1>1, <1>2, <1>3, <1>6, <1>7, <1>8, <1>9, <1>10, DispatchStep DEF PlanInv, TypeOK

LEMMA CallInv ==
  ASSUME PlanInv, NEW d \in Dispatchers, NEW k \in Keys, Call(d, k)
  PROVE  PlanInv'
  BY ClaimInv, SendInv, RequeueInv, RecordAttemptInv, RecordInv DEF Call

LEMMA LeaseExpiresInv ==
  ASSUME PlanInv, NEW k \in Keys, LeaseExpires(k)
  PROVE  PlanInv'
  <1> DEFINE new == [attempt[k] EXCEPT !.leased = FALSE]
             again == trail[k].again + 1
             t == [trail[k] EXCEPT !.again = again, !.disturbed = TRUE]
  <1>1. /\ attempt[k].status = "dispatching" /\ attempt[k].leased
        /\ IF InHand(k) THEN Fault ELSE UNCHANGED faults
        /\ attempt' = [attempt EXCEPT ![k] = new]
        /\ trail' = [trail EXCEPT ![k] = t]
        /\ UNCHANGED <<entry, processed, userMessage, notification, worker, caller, hook, takes>>
    <2>1. trail \in [Keys -> Trail]
      BY DEF PlanInv, TypeOK
    <2> QED
      BY <2>1 DEF LeaseExpires, Trail
  <1>2. attempt[k] \in Attempt /\ trail[k] \in Trail /\ Counted(attempt[k], trail[k])
    BY DEF PlanInv, TypeOK, TakenUp
  <1>3. new \in Attempt /\ new.status = "dispatching" /\ ~new.leased
    BY <1>1, <1>2 DEF Attempt
  <1>4. t \in Trail /\ t.calls = trail[k].calls /\ t.again = again
    <2>1. again \in Nat
      BY <1>2 DEF Trail
    <2> HIDE DEF again
    <2> QED
      BY <1>2, <2>1 DEF Trail
  <1> HIDE DEF new, t
  <1>5. Counted(new, t) /\ t.calls >= trail[k].calls
    <2>1. trail[k].calls \in Nat /\ trail[k].again \in Nat
      BY <1>2 DEF Trail
    <2> QED
      BY <1>2, <1>3, <1>4, <2>1 DEF Counted, Open
  <1>6. /\ trail' \in [Keys -> Trail] /\ trail'[k] = t
        /\ \A j \in Keys : j # k => trail'[j] = trail[j]
        /\ \A j \in Keys : trail'[j].calls >= trail[j].calls
    BY <1>1, <1>4, <1>5, TrailMove
  <1>7. faults' \in 0..MaxFaults
    BY <1>1, FaultType DEF PlanInv, TypeOK
  <1>8. Exists(k)
    BY <1>1 DEF Exists
  <1> QED
    BY <1>1, <1>3, <1>5, <1>6, <1>7, <1>8, DispatchStep DEF PlanInv, TypeOK

LEMMA DispatcherFailsInv ==
  ASSUME PlanInv, NEW d \in Dispatchers, DispatcherFails(d)
  PROVE  PlanInv'
  <1>1. PICK S : LetGo(d, S)
    BY DEF DispatcherFails
  <1>2. /\ UNCHANGED <<entry, processed, userMessage, notification, attempt, worker, hook, takes>>
        /\ caller' = [caller EXCEPT ![d] =
                        [k \in Keys |-> IF k \in S THEN NoCall ELSE caller[d][k]]]
        /\ Hit(S)
    BY <1>1 DEF LetGo, rows
  <1>3. /\ trail' \in [Keys -> Trail]
        /\ \A k \in Keys : trail'[k].calls = trail[k].calls /\ trail'[k].again = trail[k].again
    BY <1>2, HitOnly
  <1>4. faults' \in 0..MaxFaults
    BY <1>1, FaultType DEF LetGo
  <1>5. caller' \in [Dispatchers -> [Keys -> Caller]]
    BY <1>2, NoCallGood DEF PlanInv, TypeOK
  <1>6. ASSUME NEW e \in Dispatchers, NEW k \in Keys
        PROVE  caller'[e][k] = caller[e][k] \/ caller'[e][k] = NoCall
    BY <1>2 DEF PlanInv, TypeOK
  <1>7. TakenUp'
    <2>1. ASSUME NEW e \in Dispatchers, NEW k \in Keys
          PROVE  CallGood(caller'[e][k], k, attempt', trail')
      BY <1>2, <1>3, <1>6, NoCallGood DEF PlanInv, TakenUp, CallGood
    <2>2. ASSUME NEW k \in Keys PROVE Counted(attempt'[k], trail'[k])
      BY <1>2, <1>3 DEF PlanInv, TakenUp, Counted
    <2> QED
      BY <1>2, <2>1, <2>2 DEF PlanInv, TakenUp
  <1>8. TypeOK'
    BY <1>2, <1>3, <1>4, <1>5 DEF PlanInv, TypeOK
  <1> QED
    BY <1>2, <1>7, <1>8 DEF PlanInv, WorkersGood, NothingLeft, OneAttemptPerEvent, Exists

(* A handler finds the attempt its call belongs to, *)
LEMMA HookLookupInv ==
  ASSUME PlanInv, NEW h \in Handlers, NEW k \in Keys, HookLookup(h, k)
  PROVE  PlanInv'
  <1>1. /\ attempt[k].call # "none"
        /\ IF attempt[k].call = "live" THEN UNCHANGED faults ELSE Fault
        /\ UNCHANGED <<entry, processed, userMessage, notification, worker, caller, takes>>
    BY DEF HookLookup
  <1>2. PICK outcome \in Outcome :
          /\ hook' = [hook EXCEPT ![h] = [pc |-> "attempt", key |-> k, outcome |-> outcome]]
          /\ attempt' = [attempt EXCEPT ![k] = [attempt[k] EXCEPT !.call = outcome]]
          /\ trail' = [trail EXCEPT ![k] =
               [trail[k] EXCEPT !.told = trail[k].told \cup {outcome}]]
    BY DEF HookLookup
  <1> DEFINE x == [pc |-> "attempt", key |-> k, outcome |-> outcome]
             new == [attempt[k] EXCEPT !.call = outcome]
             told == trail[k].told \cup {outcome}
             t == [trail[k] EXCEPT !.told = told]
  <1>3. attempt[k] \in Attempt /\ trail[k] \in Trail /\ Counted(attempt[k], trail[k])
    BY DEF PlanInv, TypeOK, TakenUp
  <1>4. /\ new \in Attempt /\ new.status = attempt[k].status /\ new.leased = attempt[k].leased
    BY <1>3 DEF Attempt
  <1>5. t \in Trail /\ t.calls = trail[k].calls /\ t.again = trail[k].again
    <2>1. told \in SUBSET Outcome
      BY <1>3 DEF Trail
    <2> HIDE DEF told
    <2> QED
      BY <1>3, <2>1 DEF Trail
  <1>6. x \in Hook /\ x.pc = "attempt" /\ x.key = k /\ x.outcome = outcome
    BY DEF Hook, HookPc
  <1>7. /\ hook' = [hook EXCEPT ![h] = x] /\ attempt' = [attempt EXCEPT ![k] = new]
        /\ trail' = [trail EXCEPT ![k] = t]
    BY <1>2
  <1> HIDE DEF x, new, t
  <1>8. attempt[k].status # "absent"
    BY <1>1, <1>3 DEF Counted
  <1>9. Counted(new, t) /\ t.calls >= trail[k].calls
    <2>1. trail[k].calls \in Nat
      BY <1>3 DEF Trail
    <2> QED
      BY <1>3, <1>4, <1>5, <1>8, <2>1 DEF Counted, Open
  <1>10. /\ trail' \in [Keys -> Trail] /\ trail'[k] = t
         /\ \A j \in Keys : j # k => trail'[j] = trail[j]
         /\ \A j \in Keys : trail'[j].calls >= trail[j].calls
    BY <1>5, <1>7, <1>9, TrailMove
  <1>11. /\ hook' \in [Handlers -> Hook] /\ hook'[h] = x
         /\ \A g \in Handlers : hook'[g] = hook[g] \/ g = h
    BY <1>6, <1>7, HookMove
  <1>12. attempt'[k] = new
    BY <1>7 DEF PlanInv, TypeOK
  <1>13. HookGood(hook'[h], attempt')
    BY <1>4, <1>6, <1>8, <1>11, <1>12 DEF HookGood
  <1>14. faults' \in 0..MaxFaults
    BY <1>1, FaultType DEF PlanInv, TypeOK
  <1> QED
    BY <1>1, <1>4, <1>7, <1>8, <1>9, <1>10, <1>11, <1>13, <1>14, DispatchStep
    DEF PlanInv, TypeOK, Exists

LEMMA HookGoodInHand ==
  ASSUME PlanInv, NEW h \in Handlers, hook[h].pc # "none"
  PROVE  /\ hook[h] \in Hook /\ hook[h].key \in Keys /\ hook[h].outcome \in Outcome
         /\ Exists(hook[h].key) /\ attempt[hook[h].key] \in Attempt
         /\ trail[hook[h].key] \in Trail
         /\ Counted(attempt[hook[h].key], trail[hook[h].key])
  BY DEF PlanInv, TypeOK, TakenUp, HookGood, Exists

(* writes its outcome there, *)
LEMMA HookAttemptInv ==
  ASSUME PlanInv, NEW h \in Handlers, HookAttempt(h)
  PROVE  PlanInv'
  <1> DEFINE k == hook[h].key
             new == [attempt[k] EXCEPT !.status = hook[h].outcome]
             disturbed == trail[k].disturbed \/ \E d \in Dispatchers : k \in Held(d)
             t == [trail[k] EXCEPT !.disturbed = disturbed]
             x == [hook[h] EXCEPT !.pc = "user"]
  <1>1. /\ hook[h].pc = "attempt"
        /\ attempt' = [attempt EXCEPT ![k] = new]
        /\ trail' = [trail EXCEPT ![k] = t]
        /\ hook' = [hook EXCEPT ![h] = x]
        /\ UNCHANGED <<entry, processed, userMessage, notification, worker, caller, takes, faults>>
    BY DEF HookAttempt
  <1>2. /\ hook[h] \in Hook /\ k \in Keys /\ hook[h].outcome \in Outcome
        /\ Exists(k) /\ attempt[k] \in Attempt /\ trail[k] \in Trail
        /\ Counted(attempt[k], trail[k])
    BY <1>1, HookGoodInHand
  <1>3. new \in Attempt /\ new.status = hook[h].outcome /\ new.leased = attempt[k].leased
    BY <1>2 DEF Attempt, AttemptStatus
  <1>4. t \in Trail /\ t.calls = trail[k].calls /\ t.again = trail[k].again
    <2>1. disturbed \in BOOLEAN
      BY <1>2 DEF Trail
    <2> HIDE DEF disturbed
    <2> QED
      BY <1>2, <2>1 DEF Trail
  <1>5. x \in Hook /\ x.pc = "user" /\ x.key = k /\ x.outcome = hook[h].outcome
    BY <1>2 DEF Hook, HookPc
  <1> HIDE DEF x, new, t, k
  <1>6. Counted(new, t) /\ t.calls >= trail[k].calls /\ new.status # "absent"
    <2>1. trail[k].calls \in Nat
      BY <1>2 DEF Trail
    <2> QED
      BY <1>2, <1>3, <1>4, <2>1 DEF Counted, Open, Outcome
  <1>7. /\ trail' \in [Keys -> Trail] /\ trail'[k] = t
        /\ \A j \in Keys : j # k => trail'[j] = trail[j]
        /\ \A j \in Keys : trail'[j].calls >= trail[j].calls
    BY <1>1, <1>2, <1>4, <1>6, TrailMove
  <1>8. /\ hook' \in [Handlers -> Hook] /\ hook'[h] = x
        /\ \A g \in Handlers : hook'[g] = hook[g] \/ g = h
    BY <1>1, <1>5, HookMove
  <1>9. attempt'[k] = new
    BY <1>1, <1>2 DEF PlanInv, TypeOK
  <1>10. HookGood(hook'[h], attempt')
    BY <1>2, <1>5, <1>6, <1>8, <1>9 DEF HookGood
  <1> QED
    BY <1>1, <1>2, <1>3, <1>6, <1>7, <1>8, <1>10, DispatchStep DEF PlanInv, TypeOK

(* and in the other tables. *)
LEMMA HookRecordInv ==
  ASSUME PlanInv, NEW h \in Handlers, HookUserMessage(h) \/ HookNotification(h)
  PROVE  PlanInv'
  <1> DEFINE k == hook[h].key
             x == IF hook[h].pc = "user" /\ EventBacked(k[1])
                  THEN [hook[h] EXCEPT !.pc = "notification"] ELSE NoHook
  <1>1. /\ hook[h].pc \in {"user", "notification"}
        /\ hook' = [hook EXCEPT ![h] = x]
        /\ UNCHANGED <<entry, processed, attempt, worker, caller, trail, takes, faults>>
    BY DEF HookUserMessage, HookNotification
  <1>2. /\ hook[h] \in Hook /\ k \in Keys /\ hook[h].outcome \in Outcome
        /\ Exists(k) /\ attempt[k] \in Attempt /\ trail[k] \in Trail
        /\ Counted(attempt[k], trail[k])
    BY <1>1, HookGoodInHand
  <1>3. k[1] \in Messages /\ k[2] \in Users
    BY <1>2 DEF Keys
  <1>4. /\ x \in Hook
        /\ x.pc # "none" => x.key = k /\ x.outcome = hook[h].outcome
    <2>1. CASE hook[h].pc = "user" /\ EventBacked(k[1])
      BY <1>2, <2>1 DEF Hook, HookPc
    <2>2. CASE ~(hook[h].pc = "user" /\ EventBacked(k[1]))
      BY <2>2, NoHookGood
    <2> QED
      BY <2>1, <2>2
  <1>5. userMessage' \in [Messages \X Users -> UserMessageStatus]
    <2>1. CASE HookUserMessage(h)
      <3>1. userMessage' = [userMessage EXCEPT ![<<k[1], k[2]>>] = hook[h].outcome]
        BY <2>1 DEF HookUserMessage
      <3> QED
        BY <1>2, <1>3, <3>1 DEF PlanInv, TypeOK, UserMessageStatus, Outcome
    <2>2. CASE HookNotification(h)
      BY <2>2 DEF HookNotification, PlanInv, TypeOK
    <2> QED
      BY <2>1, <2>2
  <1>6. notification' \in [Events \X Users \X Channels -> Notification]
    <2>1. CASE HookUserMessage(h)
      BY <2>1 DEF HookUserMessage, PlanInv, TypeOK
    <2>2. CASE HookNotification(h)
      <3>1. UpdateNotification(NoteOf(k), k[1], hook[h].outcome)
        BY <2>2 DEF HookNotification
      <3>2. hook[h].outcome \in Answer
        BY <1>2 DEF Answer
      <3> QED
        BY <1>3, <3>1, <3>2, UpdateNotificationType
    <2> QED
      BY <2>1, <2>2
  <1> HIDE DEF x, k
  <1>7. /\ hook' \in [Handlers -> Hook] /\ hook'[h] = x
        /\ \A g \in Handlers : hook'[g] = hook[g] \/ g = h
    BY <1>1, <1>4, HookMove
  <1>8. HookGood(hook'[h], attempt')
    BY <1>1, <1>2, <1>4, <1>7 DEF HookGood, Exists
  <1>9. attempt' = [attempt EXCEPT ![k] = attempt[k]] /\ attempt[k].status # "absent"
    BY <1>1, <1>2, AttemptSame DEF Exists
  <1>10. /\ trail' \in [Keys -> Trail]
         /\ \A j \in Keys : trail'[j].calls >= trail[j].calls
    BY <1>1, TrailSame
  <1> QED
    BY <1>1, <1>2, <1>5, <1>6, <1>7, <1>8, <1>9, <1>10, DispatchStep DEF PlanInv, TypeOK

LEMMA HookFailsInv ==
  ASSUME PlanInv, NEW h \in Handlers, HookFails(h)
  PROVE  PlanInv'
  <1>1. /\ UNCHANGED <<entry, processed, userMessage, notification, attempt, worker, caller, takes>>
        /\ hook' = [hook EXCEPT ![h] = NoHook]
        /\ Hit({hook[h].key})
    BY DEF HookFails, rows
  <1>2. /\ trail' \in [Keys -> Trail]
        /\ \A k \in Keys : trail'[k].calls = trail[k].calls /\ trail'[k].again = trail[k].again
    BY <1>1, HitOnly
  <1>3. faults' \in 0..MaxFaults
    BY FaultType DEF HookFails
  <1>4. /\ hook' \in [Handlers -> Hook] /\ hook'[h] = NoHook
        /\ \A g \in Handlers : hook'[g] = hook[g] \/ g = h
    BY <1>1, NoHookGood, HookMove
  <1>5. TakenUp'
    <2>1. \A g \in Handlers : HookGood(hook'[g], attempt')
      BY <1>1, <1>4, NoHookGood DEF PlanInv, TakenUp, HookGood
    <2>2. \A d \in Dispatchers : \A k \in Keys : CallGood(caller'[d][k], k, attempt', trail')
      BY <1>1, <1>2 DEF PlanInv, TakenUp, CallGood
    <2>3. \A k \in Keys : Counted(attempt'[k], trail'[k])
      BY <1>1, <1>2 DEF PlanInv, TakenUp, Counted
    <2> QED
      BY <2>1, <2>2, <2>3 DEF TakenUp
  <1>6. TypeOK'
    BY <1>1, <1>2, <1>3, <1>4 DEF PlanInv, TypeOK
  <1> QED
    BY <1>1, <1>5, <1>6 DEF PlanInv, WorkersGood, NothingLeft, OneAttemptPerEvent, Exists

LEMMA HookInv ==
  ASSUME PlanInv, NEW h \in Handlers,
         Handle(h) \/ HookFails(h) \/ \E k \in Keys : HookLookup(h, k)
  PROVE  PlanInv'
  BY HookLookupInv, HookAttemptInv, HookRecordInv, HookFailsInv DEF Handle

-----------------------------------------------------------------------------
(* The invariant *)

LEMMA InitInv == Init => PlanInv
  <1> SUFFICES ASSUME Init PROVE PlanInv
    OBVIOUS
  <1>1. TypeOK
    <2>1. [w \in Workers |-> Idle] \in [Workers -> Worker]
      BY IdleGood DEF Good, Shape
    <2> QED
      BY <2>1, ConstantsAssumption
      DEF Init, TypeOK, EntryState, UserMessageStatus, Notification, Attempt, AttemptStatus,
          Caller, CallerPc, Hook, HookPc, Trail, Row, NoCall, NoHook
  <1>2. WorkersGood
    BY IdleGood DEF Init, WorkersGood
  <1>3. NothingLeft /\ OneAttemptPerEvent
    BY DEF Init, NothingLeft, OneAttemptPerEvent, Exists, Row
  <1>4. TakenUp
    BY DEF Init, TakenUp, CallGood, HookGood, Counted, Open, Row, NoCall, NoHook
  <1> QED
    BY <1>1, <1>2, <1>3, <1>4 DEF PlanInv

LEMMA StepInv ==
  ASSUME PlanInv, NEW w \in Workers, Step(w)
  PROVE  PlanInv'
  <1>1. CASE \E u \in Users : CreateUserMessage(w, u)
    BY <1>1, CreateUserMessageInv
  <1>2. CASE \E c \in Channels : EnsureNotification(w, c) \/ CreateWithoutEvent(w, c)
    BY <1>2, EnsureNotificationInv, CreateWithoutEventInv
  <1>3. CASE ListExisting(w) \/ TouchLastMessage(w) \/ ListAttempts(w) \/ CreateAttempt(w)
    BY <1>3, ListExistingInv, TouchLastMessageInv, ListAttemptsInv, CreateAttemptInv
  <1>4. CASE UpdateDestination(w) \/ FailAttempt(w) \/ FailNotification(w)
    BY <1>4, UpdateDestinationInv, FailAttemptInv, FailNotificationInv
  <1>5. CASE Summary(w) \/ MarkProcessed(w) \/ Ack(w)
    BY <1>5, SummaryInv, MarkProcessedInv, AckInv
  <1> QED
    BY <1>1, <1>2, <1>3, <1>4, <1>5 DEF Step

LEMMA NextInv == PlanInv /\ [Next]_vars => PlanInv'
  <1> SUFFICES ASSUME PlanInv, [Next]_vars PROVE PlanInv'
    OBVIOUS
  <1>1. CASE \E m \in Messages : Publish(m) \/ Republish(m)
    BY <1>1, PublishInv
  <1>2. ASSUME NEW w \in Workers,
               \/ Take(w) \/ Step(w) \/ Abandon(w)
               \/ \E m \in Messages : AutoClaimInWork(w, m)
        PROVE  PlanInv'
    BY <1>2, TakeInv, StepInv, AbandonInv DEF Take
  <1>3. ASSUME NEW d \in Dispatchers, NEW k \in Keys, Call(d, k) PROVE PlanInv'
    BY <1>3, CallInv
  <1>4. ASSUME NEW d \in Dispatchers, DispatcherFails(d) PROVE PlanInv'
    BY <1>4, DispatcherFailsInv
  <1>5. ASSUME NEW k \in Keys, LeaseExpires(k) PROVE PlanInv'
    BY <1>5, LeaseExpiresInv
  <1>6. ASSUME NEW h \in Handlers,
               Handle(h) \/ HookFails(h) \/ \E k \in Keys : HookLookup(h, k)
        PROVE  PlanInv'
    BY <1>6, HookInv
  <1>7. CASE UNCHANGED vars
    BY <1>7 DEF vars, PlanInv, TypeOK, WorkersGood, NothingLeft, OneAttemptPerEvent, Exists, TakenUp
  <1> QED
    BY <1>1, <1>2, <1>3, <1>4, <1>5, <1>6, <1>7 DEF Next

LEMMA Invariance == Spec => []PlanInv
  BY InitInv, NextInv, PTL DEF Spec

(* Every variable keeps its type, whatever the messages, recipients,       *)
(* workers and faults.                                                     *)
THEOREM PlannerTypeCorrect == Spec => []TypeOK
  <1>1. PlanInv => TypeOK
    BY DEF PlanInv
  <1> QED
    BY <1>1, Invariance, PTL

(* However many workers plan messages of the same event, and wherever they *)
(* crash: a recipient has one attempt for the event on each channel.       *)
THEOREM OneAttempt == Spec => []OneAttemptPerEvent
  <1>1. PlanInv => OneAttemptPerEvent
    BY DEF PlanInv
  <1> QED
    BY <1>1, Invariance, PTL

(* MarkProcessed comes only when every recipient has an attempt on every   *)
(* channel: a message that failed half way is not marked by another worker *)
(* on its behalf, nor by itself after it started again.                    *)
THEOREM ProcessedLeavesNothing == Spec => []ProcessedMeansPlanned
  <1>1. PlanInv => ProcessedMeansPlanned
    <2> SUFFICES ASSUME PlanInv, NEW k \in Keys, processed[k[1]]
                 PROVE  OfSlot(k) # {}
      BY DEF ProcessedMeansPlanned
    <2>1. /\ k = <<k[1], k[2], k[3]>> /\ k[1] \in Messages /\ k[2] \in Users
          /\ k[3] \in channelsOf[k[1]][k[2]]
      BY DEF Keys
    <2>2. Planned(<<k[1], k[2], k[3]>>, attempt)
      BY <2>1 DEF PlanInv, NothingLeft
    <2> QED
      BY <2>1, <2>2 DEF Planned, OfSlot, Exists
  <1> QED
    BY <1>1, Invariance, PTL

-----------------------------------------------------------------------------
(* Planner and dispatchers implement EventCalls *)

Made == {k \in Keys : Exists(k)}
Calls == [k \in Keys |-> trail[k].calls]
Reasons == [k \in Keys |-> trail[k].again]

(* A step that makes no attempt, claims none and gives no reason to call   *)
(* one again is a stutter.                                                 *)
SamePromise ==
  \A k \in Keys : /\ attempt'[k].status = "absent" <=> attempt[k].status = "absent"
                  /\ trail'[k].calls = trail[k].calls
                  /\ trail'[k].again = trail[k].again

LEMMA Stutter ==
  ASSUME SamePromise
  PROVE  UNCHANGED <<Made, Calls, Reasons>>
  BY DEF SamePromise, Made, Calls, Reasons, Exists

LEMMA CreatePlans ==
  ASSUME PlanInv, NEW w \in Workers, worker[w].pc = "create", Create(w), UNCHANGED dispatch
  PROVE  \E k \in Keys : Promise!Plan(k)
  <1> DEFINE k == KeyOf(w)
             new == Row("queued")
  <1>1. k \in Keys
    BY KeyInHand DEF PlanInv, PerChannel
  <1>2. attempt' = [attempt EXCEPT ![k] = new] /\ ~Duplicate(k)
    BY DEF Create
  <1>3. \A j \in Keys : Exists(j) => slotOf[j] # slotOf[k]
    BY <1>1, <1>2, NewSlot
  <1>4. attempt \in [Keys -> Attempt]
    BY DEF PlanInv, TypeOK
  <1>5. new.status # "absent"
    BY DEF Row
  <1> HIDE DEF k, new
  <1>6. \A j \in Keys : Exists(j)' <=> Exists(j) \/ j = k
    BY <1>1, <1>2, <1>4, <1>5 DEF Exists
  <1>7. Made' = Made \cup {k}
    BY <1>1, <1>6 DEF Made
  <1>8. UNCHANGED <<Calls, Reasons>>
    BY DEF Calls, Reasons, dispatch
  <1> QED
    BY <1>1, <1>3, <1>7, <1>8 DEF Promise!Plan, Made, Calls, Reasons

(* A step of dispatch on one attempt. *)
LEMMA OneKey ==
  ASSUME PlanInv, NEW k \in Keys, Exists(k), NEW new \in Attempt, new.status # "absent",
         attempt' = [attempt EXCEPT ![k] = new],
         NEW t, trail' = [trail EXCEPT ![k] = t]
  PROVE  /\ Made' = Made
         /\ Calls' = [Calls EXCEPT ![k] = t.calls]
         /\ Reasons' = [Reasons EXCEPT ![k] = t.again]
  <1>1. attempt \in [Keys -> Attempt] /\ trail \in [Keys -> Trail]
    BY DEF PlanInv, TypeOK
  <1>2. \A j \in Keys : Exists(j)' <=> Exists(j)
    BY <1>1 DEF Exists
  <1>3. \A j \in Keys : /\ trail'[j].calls = IF j = k THEN t.calls ELSE trail[j].calls
                        /\ trail'[j].again = IF j = k THEN t.again ELSE trail[j].again
    BY <1>1
  <1>4. Made' = Made
    BY <1>2 DEF Made
  <1>5. Calls' = [Calls EXCEPT ![k] = t.calls]
    BY <1>3 DEF Calls
  <1>6. Reasons' = [Reasons EXCEPT ![k] = t.again]
    BY <1>3 DEF Reasons
  <1> QED
    BY <1>4, <1>5, <1>6

(* An attempt that can be claimed has a reason to be called that is not    *)
(* used up.                                                                *)
LEMMA ClaimCalls ==
  ASSUME PlanInv, NEW d \in Dispatchers, NEW k \in Keys, Claim(d, k)
  PROVE  Promise!Call(k)
  <1> DEFINE new == [attempt[k] EXCEPT !.status = "dispatching", !.leased = TRUE]
             t == [trail[k] EXCEPT !.calls = trail[k].calls + 1]
  <1>1. /\ attempt' = [attempt EXCEPT ![k] = new]
        /\ trail' = [trail EXCEPT ![k] = t]
        /\ Claimable(k)
    BY DEF Claim
  <1>2. attempt[k] \in Attempt /\ trail[k] \in Trail /\ Counted(attempt[k], trail[k])
    BY DEF PlanInv, TypeOK, TakenUp
  <1>3. Exists(k) /\ trail[k].calls <= trail[k].again
    BY <1>1, <1>2 DEF Counted, Open, Claimable, Exists
  <1>4. new \in Attempt /\ new.status # "absent"
    BY <1>2 DEF Attempt, AttemptStatus
  <1>5. t.calls = trail[k].calls + 1 /\ t.again = trail[k].again
    BY <1>2 DEF Trail
  <1> HIDE DEF new, t
  <1>6. /\ Made' = Made
        /\ Calls' = [Calls EXCEPT ![k] = trail[k].calls + 1]
        /\ Reasons' = [Reasons EXCEPT ![k] = trail[k].again]
    <2>1. /\ Made' = Made
          /\ Calls' = [Calls EXCEPT ![k] = t.calls]
          /\ Reasons' = [Reasons EXCEPT ![k] = t.again]
      BY <1>1, <1>3, <1>4, OneKey
    <2> QED
      BY <1>5, <2>1
  <1>7. k \in Made /\ Calls[k] = trail[k].calls /\ Reasons[k] = trail[k].again
    BY <1>3 DEF Made, Calls, Reasons
  <1>8. Reasons' = Reasons
    BY <1>6, <1>7 DEF Reasons
  <1> QED
    BY <1>3, <1>6, <1>7, <1>8 DEF Promise!Call, Made, Calls, Reasons

(* A lease that runs out, or a row requeued, is such a reason. *)
LEMMA ReasonFound ==
  ASSUME PlanInv, NEW k \in Keys, Exists(k), trail[k].calls > 0,
         NEW new \in Attempt, new.status # "absent", attempt' = [attempt EXCEPT ![k] = new],
         NEW t, trail' = [trail EXCEPT ![k] = t],
         t.calls = trail[k].calls, t.again = trail[k].again + 1
  PROVE  Promise!Again(k)
  <1>1. /\ Made' = Made
        /\ Calls' = [Calls EXCEPT ![k] = trail[k].calls]
        /\ Reasons' = [Reasons EXCEPT ![k] = trail[k].again + 1]
    <2>1. /\ Made' = Made
          /\ Calls' = [Calls EXCEPT ![k] = t.calls]
          /\ Reasons' = [Reasons EXCEPT ![k] = t.again]
      BY OneKey
    <2> QED
      BY <2>1
  <1>2. Calls[k] = trail[k].calls /\ Reasons[k] = trail[k].again
    BY DEF Calls, Reasons
  <1>3. Calls' = Calls
    BY <1>1, <1>2 DEF Calls
  <1> QED
    BY <1>1, <1>2, <1>3 DEF Promise!Again, Made, Calls, Reasons

LEMMA RequeueReason ==
  ASSUME PlanInv, NEW d \in Dispatchers, NEW k \in Keys, Requeue(d, k)
  PROVE  Promise!Again(k)
  <1> DEFINE t == [trail[k] EXCEPT !.again = trail[k].again + 1]
  <1>1. /\ caller[d][k].pc = "attempt"
        /\ UpdateStatus(k, "queued", attempt[k].call)
        /\ trail' = [trail EXCEPT ![k] = t]
    BY DEF Requeue
  <1>2. Exists(k) /\ attempt[k] \in Attempt /\ trail[k] \in Trail /\ trail[k].calls > 0
    BY <1>1, InHandGood
  <1>3. PICK new \in Attempt : attempt' = [attempt EXCEPT ![k] = new] /\ new.status = "queued"
    <2>1. attempt[k].call \in {"none", "live"} \cup Outcome
      BY <1>2 DEF Attempt
    <2>2. "queued" \in AttemptStatus \ {"absent"}
      BY DEF AttemptStatus
    <2> QED
      BY <1>1, <2>1, <2>2, UpdateStatusType
  <1>4. t.calls = trail[k].calls /\ t.again = trail[k].again + 1
    BY <1>2 DEF Trail
  <1> HIDE DEF t
  <1> QED
    BY <1>1, <1>2, <1>3, <1>4, ReasonFound

LEMMA LeaseReason ==
  ASSUME PlanInv, NEW k \in Keys, LeaseExpires(k)
  PROVE  Promise!Again(k)
  <1> DEFINE new == [attempt[k] EXCEPT !.leased = FALSE]
             t == [trail[k] EXCEPT !.again = trail[k].again + 1, !.disturbed = TRUE]
  <1>1. /\ attempt[k].status = "dispatching" /\ attempt[k].leased
        /\ attempt' = [attempt EXCEPT ![k] = new]
        /\ trail' = [trail EXCEPT ![k] = t]
    <2>1. trail \in [Keys -> Trail]
      BY DEF PlanInv, TypeOK
    <2> QED
      BY <2>1 DEF LeaseExpires, Trail
  <1>2. attempt[k] \in Attempt /\ trail[k] \in Trail /\ Counted(attempt[k], trail[k])
    BY DEF PlanInv, TypeOK, TakenUp
  <1>3. Exists(k) /\ trail[k].calls > 0
    BY <1>1, <1>2 DEF Exists, Counted
  <1>4. new \in Attempt /\ new.status = "dispatching"
    BY <1>1, <1>2 DEF Attempt
  <1>5. t.calls = trail[k].calls /\ t.again = trail[k].again + 1
    BY <1>2 DEF Trail
  <1> HIDE DEF new, t
  <1> QED
    BY <1>1, <1>3, <1>4, <1>5, ReasonFound

LEMMA OthersStutter ==
  ASSUME PlanInv, UNCHANGED attempt,
         UNCHANGED dispatch \/ UNCHANGED trail \/ \E S : Hit(S)
  PROVE  UNCHANGED <<Made, Calls, Reasons>>
  <1>1. CASE \E S : Hit(S)
    <2>1. PICK S : Hit(S)
      BY <1>1
    <2>2. \A k \in Keys : trail'[k].calls = trail[k].calls /\ trail'[k].again = trail[k].again
      BY <2>1, HitOnly
    <2> QED
      BY <2>2, Stutter DEF SamePromise
  <1>2. CASE UNCHANGED dispatch \/ UNCHANGED trail
    BY <1>2, Stutter DEF SamePromise, dispatch
  <1> QED
    BY <1>1, <1>2

(* A step that changes neither the one attempt's being there nor its       *)
(* counts.                                                                 *)
LEMMA OneKeyStutters ==
  ASSUME PlanInv, NEW k \in Keys, Exists(k), NEW new \in Attempt, new.status # "absent",
         attempt' = [attempt EXCEPT ![k] = new],
         NEW t, trail' = [trail EXCEPT ![k] = t],
         t.calls = trail[k].calls, t.again = trail[k].again
  PROVE  UNCHANGED <<Made, Calls, Reasons>>
  <1>1. attempt \in [Keys -> Attempt] /\ trail \in [Keys -> Trail]
    BY DEF PlanInv, TypeOK
  <1>2. SamePromise
    BY <1>1 DEF SamePromise, Exists
  <1> QED
    BY <1>2, Stutter

(* Destination and failure are those of an attempt that is there. *)
LEMMA OwnAttemptStutters ==
  ASSUME PlanInv, NEW w \in Workers, UpdateDestination(w) \/ FailAttempt(w)
  PROVE  UNCHANGED <<Made, Calls, Reasons>>
  <1> DEFINE k == KeyOf(w)
  <1>1. worker[w].pc \in AfterCreate /\ UNCHANGED trail
    BY DEF UpdateDestination, FailAttempt, AfterCreate, dispatch
  <1>2. attempt[k].status # "absent"
    BY <1>1 DEF PlanInv, WorkersGood, Good, Shape, KeyOf
  <1>3. k \in Keys
    BY <1>1, KeyInHand DEF PlanInv, AfterCreate, PerChannel
  <1>4. attempt \in [Keys -> Attempt] /\ attempt[k] \in Attempt
    BY <1>3 DEF PlanInv, TypeOK
  <1>5. PICK new : attempt' = [attempt EXCEPT ![k] = new] /\ new.status # "absent"
    <2>1. CASE UpdateDestination(w)
      <3> DEFINE d == SelectContactMethod(worker[w].user, worker[w].chan)
                 new == [attempt[k] EXCEPT !.destination = d]
      <3>1. attempt' = [attempt EXCEPT ![k] = new]
        BY <2>1 DEF UpdateDestination
      <3>2. new.status = attempt[k].status
        <4> HIDE DEF d
        <4> QED
          BY <1>4 DEF Attempt
      <3> QED
        BY <1>2, <3>1, <3>2
    <2>2. CASE FailAttempt(w)
      <3>1. /\ UpdateStatus(k, "failed", "none")
            /\ "failed" \in AttemptStatus \ {"absent"} /\ "none" \in {"none", "live"} \cup Outcome
        BY <2>2 DEF FailAttempt, AttemptStatus, Outcome
      <3> HIDE DEF k
      <3> QED
        BY <1>3, <3>1, UpdateStatusType
    <2> QED
      BY <2>1, <2>2
  <1> HIDE DEF k
  <1>6. SamePromise
    BY <1>1, <1>2, <1>3, <1>4, <1>5 DEF SamePromise
  <1> QED
    BY <1>6, Stutter

LEMMA RecordingStutters ==
  ASSUME PlanInv, NEW d \in Dispatchers, NEW k \in Keys,
         \/ Send(d, k) \/ RecordAttempt(d, k)
         \/ RecordUserMessage(d, k) \/ RecordNotification(d, k)
  PROVE  UNCHANGED <<Made, Calls, Reasons>>
  <1>1. caller[d][k].pc # "none"
    BY DEF Send, RecordAttempt, RecordUserMessage, RecordNotification
  <1>2. Exists(k) /\ attempt[k] \in Attempt /\ trail[k] \in Trail
    BY <1>1, InHandGood
  <1>3. CASE Send(d, k)
    <2>1. PICK told, disturbed :
            trail' = [trail EXCEPT ![k].told = told, ![k].disturbed = disturbed]
      BY <1>3 DEF Send
    <2> DEFINE t == [trail[k] EXCEPT !.told = told, !.disturbed = disturbed]
    <2>2. t.calls = trail[k].calls /\ t.again = trail[k].again
      BY <1>2 DEF Trail
    <2>3. attempt' = [attempt EXCEPT ![k] = attempt[k]] /\ attempt[k].status # "absent"
      BY <1>2, <1>3, AttemptSame DEF Send, rows, Exists
    <2>4. trail' = [trail EXCEPT ![k] = t]
      <3>1. trail \in [Keys -> Trail]
        BY DEF PlanInv, TypeOK
      <3> QED
        BY <2>1, <3>1 DEF Trail
    <2> HIDE DEF t
    <2> QED
      BY <1>2, <2>2, <2>3, <2>4, OneKeyStutters
  <1>4. CASE RecordAttempt(d, k)
    <2> DEFINE call == IF caller[d][k].outcome = "sent" THEN "live" ELSE "none"
    <2>1. /\ UpdateStatus(k, caller[d][k].outcome, call) /\ UNCHANGED trail
          /\ caller[d][k].outcome \in AttemptStatus \ {"absent"}
          /\ call \in {"none", "live"} \cup Outcome
      BY <1>4 DEF RecordAttempt, AttemptStatus, Outcome
    <2> HIDE DEF call
    <2>2. PICK new \in Attempt : /\ attempt' = [attempt EXCEPT ![k] = new]
                                 /\ new.status = caller[d][k].outcome
      BY <2>1, UpdateStatusType
    <2>3. trail' = [trail EXCEPT ![k] = trail[k]]
      BY <2>1 DEF PlanInv, TypeOK
    <2> QED
      BY <1>2, <2>1, <2>2, <2>3, OneKeyStutters
  <1>5. CASE RecordUserMessage(d, k) \/ RecordNotification(d, k)
    BY <1>5, OthersStutter DEF RecordUserMessage, RecordNotification
  <1> QED
    BY <1>3, <1>4, <1>5

LEMMA CallbackStutters ==
  ASSUME PlanInv, NEW h \in Handlers,
         Handle(h) \/ HookFails(h) \/ \E k \in Keys : HookLookup(h, k)
  PROVE  UNCHANGED <<Made, Calls, Reasons>>
  <1>1. ASSUME NEW k \in Keys, HookLookup(h, k)
        PROVE  UNCHANGED <<Made, Calls, Reasons>>
    <2>1. PICK outcome \in Outcome :
            /\ attempt' = [attempt EXCEPT ![k] = [attempt[k] EXCEPT !.call = outcome]]
            /\ trail' = [trail EXCEPT ![k] =
                 [trail[k] EXCEPT !.told = trail[k].told \cup {outcome}]]
      BY <1>1 DEF HookLookup
    <2> DEFINE new == [attempt[k] EXCEPT !.call = outcome]
               told == trail[k].told \cup {outcome}
               t == [trail[k] EXCEPT !.told = told]
    <2>2. attempt[k] \in Attempt /\ trail[k] \in Trail /\ Exists(k)
      BY <1>1 DEF HookLookup, PlanInv, TypeOK, TakenUp, Counted, Exists
    <2>3. new \in Attempt /\ new.status = attempt[k].status
      BY <2>2 DEF Attempt
    <2>4. t.calls = trail[k].calls /\ t.again = trail[k].again
      <3> HIDE DEF told
      <3> QED
        BY <2>2 DEF Trail
    <2>5. attempt' = [attempt EXCEPT ![k] = new] /\ trail' = [trail EXCEPT ![k] = t]
      BY <2>1
    <2> HIDE DEF new, t
    <2> QED
      BY <2>2, <2>3, <2>4, <2>5, OneKeyStutters DEF Exists
  <1>2. CASE HookAttempt(h)
    <2> DEFINE k == hook[h].key
               new == [attempt[k] EXCEPT !.status = hook[h].outcome]
               disturbed == trail[k].disturbed \/ \E d \in Dispatchers : k \in Held(d)
               t == [trail[k] EXCEPT !.disturbed = disturbed]
    <2>1. /\ hook[h].pc = "attempt"
          /\ attempt' = [attempt EXCEPT ![k] = new]
          /\ trail' = [trail EXCEPT ![k] = t]
      BY <1>2 DEF HookAttempt
    <2>2. /\ k \in Keys /\ hook[h].outcome \in Outcome
          /\ Exists(k) /\ attempt[k] \in Attempt /\ trail[k] \in Trail
      BY <2>1, HookGoodInHand
    <2>3. new \in Attempt /\ new.status # "absent"
      BY <2>2 DEF Attempt, AttemptStatus, Outcome
    <2>4. t.calls = trail[k].calls /\ t.again = trail[k].again
      <3> HIDE DEF disturbed
      <3> QED
        BY <2>2 DEF Trail
    <2> HIDE DEF k, new, t
    <2> QED
      BY <2>1, <2>2, <2>3, <2>4, OneKeyStutters
  <1>3. CASE HookUserMessage(h) \/ HookNotification(h)
    BY <1>3, OthersStutter DEF HookUserMessage, HookNotification
  <1>4. CASE HookFails(h)
    BY <1>4, OthersStutter DEF HookFails, rows
  <1> QED
    BY <1>1, <1>2, <1>3, <1>4 DEF Handle

LEMMA StepPromise ==
  ASSUME PlanInv, NEW w \in Workers, Step(w)
  PROVE  Promise!Next \/ UNCHANGED <<Made, Calls, Reasons>>
  <1>1. CASE CreateAttempt(w)
    <2>1. CASE Create(w)
      BY <1>1, <2>1, CreatePlans DEF CreateAttempt, Promise!Next
    <2>2. CASE CreateLoses(w)
      BY <1>1, <2>2, OthersStutter DEF CreateAttempt, CreateLoses
    <2> QED
      BY <1>1, <2>1, <2>2 DEF CreateAttempt
  <1>2. CASE UpdateDestination(w) \/ FailAttempt(w)
    BY <1>2, OwnAttemptStutters
  <1>3. CASE \/ \E u \in Users : CreateUserMessage(w, u)
             \/ ListExisting(w)
             \/ \E c \in Channels : EnsureNotification(w, c) \/ CreateWithoutEvent(w, c)
             \/ TouchLastMessage(w) \/ ListAttempts(w) \/ FailNotification(w)
             \/ Summary(w) \/ MarkProcessed(w) \/ Ack(w)
    <2>1. UNCHANGED <<attempt, dispatch>>
      BY <1>3 DEF CreateUserMessage, ListExisting, EnsureNotification, CreateWithoutEvent,
                  TouchLastMessage, ListAttempts, FailNotification, Summary, MarkProcessed,
                  Ack, rows
    <2> QED
      BY <2>1, OthersStutter
  <1> QED
    BY <1>1, <1>2, <1>3 DEF Step

LEMMA NextPromise ==
  ASSUME PlanInv, [Next]_vars
  PROVE  Promise!Next \/ UNCHANGED <<Made, Calls, Reasons>>
  <1>1. CASE \E m \in Messages : Publish(m) \/ Republish(m)
    BY <1>1, OthersStutter DEF Publish, Republish, rows
  <1>2. ASSUME NEW w \in Workers, Step(w)
        PROVE  Promise!Next \/ UNCHANGED <<Made, Calls, Reasons>>
    BY <1>2, StepPromise
  <1>3. ASSUME NEW w \in Workers, Take(w) \/ \E m \in Messages : AutoClaimInWork(w, m)
        PROVE  UNCHANGED <<Made, Calls, Reasons>>
    <2>1. UNCHANGED <<attempt, dispatch>>
      BY <1>3 DEF Take, ReadGroup, AutoClaim, AutoClaimInWork, rows
    <2> QED
      BY <2>1, OthersStutter
  <1>4. ASSUME NEW w \in Workers, Abandon(w)
        PROVE  UNCHANGED <<Made, Calls, Reasons>>
    BY <1>4, OthersStutter DEF Abandon, rows
  <1>5. ASSUME NEW d \in Dispatchers, NEW k \in Keys, Call(d, k)
        PROVE  Promise!Next \/ UNCHANGED <<Made, Calls, Reasons>>
    BY <1>5, ClaimCalls, RequeueReason, RecordingStutters DEF Call, Promise!Next
  <1>6. ASSUME NEW d \in Dispatchers, DispatcherFails(d)
        PROVE  UNCHANGED <<Made, Calls, Reasons>>
    BY <1>6, OthersStutter DEF DispatcherFails, LetGo, rows
  <1>7. ASSUME NEW k \in Keys, LeaseExpires(k) PROVE Promise!Next
    BY <1>7, LeaseReason DEF Promise!Next
  <1>8. ASSUME NEW h \in Handlers,
               Handle(h) \/ HookFails(h) \/ \E k \in Keys : HookLookup(h, k)
        PROVE  UNCHANGED <<Made, Calls, Reasons>>
    BY <1>8, CallbackStutters
  <1>9. CASE UNCHANGED vars
    BY <1>9, OthersStutter DEF vars
  <1> QED
    BY <1>1, <1>2, <1>3, <1>4, <1>5, <1>6, <1>7, <1>8, <1>9 DEF Next

(* Planner and dispatchers, with all their races, crashes, redeliveries    *)
(* and callbacks, keep the promise: one attempt per event, recipient and   *)
(* channel, called once and again only after a lease that ran out or an    *)
(* answer that asked for a retry.                                          *)
THEOREM PlannerImplementsEventCalls == Spec => CalledOncePerEvent
  <1>1. Init => Promise!Init
    BY DEF Init, Promise!Init, Exists, Row
  <1>2. PlanInv /\ [Next]_vars => [Promise!Next]_<<Made, Calls, Reasons>>
    BY NextPromise
  <1> QED
    BY <1>1, <1>2, Invariance, PTL
    DEF Spec, CalledOncePerEvent, Promise!Spec, Made, Calls, Reasons
=============================================================================
