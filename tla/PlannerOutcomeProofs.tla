------------------------ MODULE PlannerOutcomeProofs ------------------------
(***************************************************************************)
(* More proofs about Planner, for any messages, recipients, workers and    *)
(* faults: what the tables say of a message is true.  A notification spans *)
(* the messages processed for it, a recipient is suppressed only for       *)
(* another message's attempts, users_messages claims no outcome nobody was *)
(* told, attempt and notification part only by a disturbance, and the      *)
(* attempts left without a destination are no more than the faults.        *)
(***************************************************************************)
EXTENDS PlannerProofs, FiniteSetTheorems

-----------------------------------------------------------------------------
(* What a statement does to the record of its worker.                      *)

Others(w) == \A x \in Workers \ {w} : worker'[x] = worker[x]

(* It has the same message, the same recipients before it. *)
SameJob(w) ==
  /\ Others(w)
  /\ worker'[w].msg = worker[w].msg /\ worker'[w].users = worker[w].users

SameChannel(w) ==
  /\ SameJob(w)
  /\ worker'[w].user = worker[w].user /\ worker'[w].chans = worker[w].chans
  /\ worker'[w].chan = worker[w].chan /\ worker'[w].plan = worker[w].plan

LEMMA WorkerTable ==
  ASSUME PlanInv, NEW w \in Workers, NEW next, worker' = [worker EXCEPT ![w] = next]
  PROVE  Others(w) /\ worker'[w] = next
  BY DEF PlanInv, TypeOK, Others

LEMMA Record ==
  ASSUME PlanInv, NEW w \in Workers
  PROVE  /\ worker[w] \in Worker
         /\ worker[w].pc # "idle" => worker[w].msg \in Messages
         /\ worker[w].pc \in PerUser =>
              /\ worker[w].user \in Users
              /\ worker[w].chans \subseteq channelsOf[worker[w].msg][worker[w].user]
         /\ worker[w].pc \in PerChannel =>
              worker[w].chan \in channelsOf[worker[w].msg][worker[w].user]
  BY DEF PlanInv, WorkersGood, Good, Shape

LEMMA GotoMoves ==
  ASSUME PlanInv, NEW w \in Workers, NEW pc, Goto(w, pc)
  PROVE  SameChannel(w) /\ worker'[w].pc = pc
  <1> DEFINE r == worker[w]
             next == [r EXCEPT !.pc = pc]
  <1>1. worker' = [worker EXCEPT ![w] = next]
    BY DEF Goto
  <1>2. /\ next.pc = pc /\ next.msg = r.msg /\ next.users = r.users /\ next.user = r.user
        /\ next.chans = r.chans /\ next.chan = r.chan /\ next.plan = r.plan
    BY Record DEF Worker
  <1> HIDE DEF next
  <1> QED
    BY <1>1, <1>2, WorkerTable DEF SameChannel, SameJob

LEMMA DoneMoves ==
  ASSUME PlanInv, NEW w \in Workers, NEW status, ChannelDone(w, status)
  PROVE  /\ SameJob(w)
         /\ worker'[w].pc \in {"summary", "channels"}
         /\ worker'[w].user = worker[w].user /\ worker'[w].chans = worker[w].chans
         /\ worker'[w].plan = [worker[w].plan EXCEPT ![worker[w].chan] = status]
  <1> DEFINE r == worker[w]
             pc == IF r.chans = {} THEN "summary" ELSE "channels"
             plan == [r.plan EXCEPT ![r.chan] = status]
             next == [r EXCEPT !.pc = pc, !.chan = None, !.plan = plan]
  <1>1. worker' = [worker EXCEPT ![w] = next]
    BY DEF ChannelDone
  <1>2. /\ next.pc = pc /\ next.msg = r.msg /\ next.users = r.users /\ next.user = r.user
        /\ next.chans = r.chans /\ next.plan = plan
    <2> HIDE DEF plan, pc
    <2> QED
      BY Record DEF Worker
  <1>3. pc \in {"summary", "channels"}
    OBVIOUS
  <1> HIDE DEF next, pc
  <1> QED
    BY <1>1, <1>2, <1>3, WorkerTable DEF SameJob

LEMMA BeginMoves ==
  ASSUME PlanInv, NEW w \in Workers, NEW m \in Messages, Begin(w, m)
  PROVE  /\ Others(w)
         /\ worker[w].pc = "idle"
         /\ worker'[w].msg = m /\ worker'[w].users = Matched(m)
         /\ worker'[w].pc = IF Matched(m) = {} THEN "processed" ELSE "users"
  <1> DEFINE pc == IF Matched(m) = {} THEN "processed" ELSE "users"
             next == [Idle EXCEPT !.pc = pc, !.msg = m, !.users = Matched(m)]
  <1>1. worker' = [worker EXCEPT ![w] = next] /\ worker[w].pc = "idle"
    BY DEF Begin
  <1>2. next.pc = pc /\ next.msg = m /\ next.users = Matched(m)
    BY DEF Idle
  <1> HIDE DEF next
  <1> QED
    BY <1>1, <1>2, WorkerTable

LEMMA TakeUserMoves ==
  ASSUME PlanInv, NEW w \in Workers, NEW u \in Users, CreateUserMessage(w, u)
  PROVE  /\ Others(w)
         /\ worker[w].pc = "users" /\ u \in worker[w].users
         /\ worker'[w].pc = IF EventBacked(worker[w].msg) THEN "channels" ELSE "existing"
         /\ worker'[w].msg = worker[w].msg /\ worker'[w].users = worker[w].users \ {u}
         /\ worker'[w].user = u /\ worker'[w].chans = channelsOf[worker[w].msg][u]
         /\ worker'[w].plan = NoPlan
  <1> DEFINE r == worker[w]
             pc == IF EventBacked(r.msg) THEN "channels" ELSE "existing"
             next == [r EXCEPT !.pc = pc, !.users = r.users \ {u}, !.user = u, !.chan = None,
                               !.chans = channelsOf[r.msg][u], !.plan = NoPlan]
  <1>1. worker' = [worker EXCEPT ![w] = next] /\ r.pc = "users" /\ u \in r.users
    BY DEF CreateUserMessage
  <1>2. /\ next.pc = pc /\ next.msg = r.msg /\ next.users = r.users \ {u} /\ next.user = u
        /\ next.chans = channelsOf[r.msg][u] /\ next.plan = NoPlan
    BY Record DEF Worker
  <1> HIDE DEF next
  <1> QED
    BY <1>1, <1>2, WorkerTable

LEMMA ExistingMoves ==
  ASSUME PlanInv, NEW w \in Workers, ListExisting(w)
  PROVE  /\ SameJob(w)
         /\ worker[w].pc = "existing"
         /\ worker'[w].pc \in {"summary", "channels"}
         /\ worker'[w].user = worker[w].user /\ worker'[w].chans \subseteq worker[w].chans
         /\ \A c \in channelsOf[worker[w].msg][worker[w].user] :
              \/ worker'[w].plan[c] = "none"
              \/ /\ Exists(<<worker[w].msg, worker[w].user, c>>)
                 /\ worker'[w].plan[c] = attempt[<<worker[w].msg, worker[w].user, c>>].status
  <1> DEFINE r == worker[w]
             Read(c) == IF c \in channelsOf[r.msg][r.user] /\ Exists(<<r.msg, r.user, c>>)
                        THEN attempt[<<r.msg, r.user, c>>].status ELSE "none"
             open == {c \in r.chans : Read(c) \in {"none", "queued"}}
             pc == IF open = {} THEN "summary" ELSE "channels"
             plan == [c \in Channels |-> Read(c)]
             next == [r EXCEPT !.pc = pc, !.chans = open, !.plan = plan]
  <1>1. worker' = [worker EXCEPT ![w] = next] /\ r.pc = "existing"
    BY DEF ListExisting
  <1>2. /\ next.pc = pc /\ next.msg = r.msg /\ next.users = r.users /\ next.user = r.user
        /\ next.chans = open /\ next.plan = plan
    <2> HIDE DEF plan, pc, open
    <2> QED
      BY Record DEF Worker
  <1>3. pc \in {"summary", "channels"} /\ open \subseteq r.chans
    OBVIOUS
  <1>4. ASSUME NEW c \in channelsOf[r.msg][r.user]
        PROVE  \/ plan[c] = "none"
               \/ /\ Exists(<<r.msg, r.user, c>>)
                  /\ plan[c] = attempt[<<r.msg, r.user, c>>].status
    <2>1. c \in Channels
      BY <1>1, Record, MatchedChannels DEF PerUser
    <2> QED
      BY <2>1
  <1> HIDE DEF next, plan, pc, open
  <1> QED
    BY <1>1, <1>2, <1>3, <1>4, WorkerTable DEF SameJob

LEMMA TakeChannelMoves ==
  ASSUME PlanInv, NEW w \in Workers, NEW c, NEW pc,
         worker' = [worker EXCEPT ![w] =
           [worker[w] EXCEPT !.pc = pc, !.chans = worker[w].chans \ {c}, !.chan = c]]
  PROVE  /\ SameJob(w)
         /\ worker'[w].pc = pc
         /\ worker'[w].user = worker[w].user /\ worker'[w].chans = worker[w].chans \ {c}
         /\ worker'[w].chan = c /\ worker'[w].plan = worker[w].plan
  <1> DEFINE r == worker[w]
             next == [r EXCEPT !.pc = pc, !.chans = r.chans \ {c}, !.chan = c]
  <1>1. worker' = [worker EXCEPT ![w] = next]
    OBVIOUS
  <1>2. /\ next.pc = pc /\ next.msg = r.msg /\ next.users = r.users /\ next.user = r.user
        /\ next.chans = r.chans \ {c} /\ next.chan = c /\ next.plan = r.plan
    BY Record DEF Worker
  <1> HIDE DEF next
  <1> QED
    BY <1>1, <1>2, WorkerTable DEF SameJob

LEMMA SummaryMoves ==
  ASSUME PlanInv, NEW w \in Workers, Summary(w)
  PROVE  /\ SameJob(w)
         /\ worker[w].pc = "summary" /\ worker[w].chans = {}
         /\ worker'[w].pc = IF worker[w].users = {} THEN "processed" ELSE "users"
  <1> DEFINE r == worker[w]
             pc == IF r.users = {} THEN "processed" ELSE "users"
             next == [r EXCEPT !.pc = pc, !.user = None, !.plan = NoPlan]
  <1>1. worker' = [worker EXCEPT ![w] = next] /\ r.pc = "summary"
    BY DEF Summary
  <1>2. next.pc = pc /\ next.msg = r.msg /\ next.users = r.users
    BY Record DEF Worker
  <1>3. r.chans = {}
    BY <1>1 DEF PlanInv, WorkersGood, Good, Shape
  <1> HIDE DEF next, pc
  <1>4. pc = IF r.users = {} THEN "processed" ELSE "users"
    BY DEF pc
  <1> QED
    BY <1>1, <1>2, <1>3, <1>4, WorkerTable DEF SameJob

LEMMA RestMoves ==
  ASSUME PlanInv, NEW w \in Workers, worker' = [worker EXCEPT ![w] = Idle]
  PROVE  Others(w) /\ worker'[w].pc = "idle"
  <1>1. Others(w) /\ worker'[w] = Idle
    BY WorkerTable, Zenon
  <1>2. Idle.pc = "idle"
    BY DEF Idle
  <1> QED
    BY <1>1, <1>2

-----------------------------------------------------------------------------
(* Keys and tables.                                                        *)

Notes == Events \X Users \X Channels

LEMMA EventNote ==
  ASSUME NEW m \in Messages, NEW u \in Users, NEW c \in Channels, EventBacked(m)
  PROVE  <<eventOf[m], u, c>> \in Notes
  BY ConstantsAssumption DEF EventBacked, Notes

LEMMA KeyParts ==
  ASSUME NEW k \in Keys
  PROVE  /\ k[1] \in Messages /\ k[2] \in Users /\ k[3] \in Channels
         /\ k[3] \in channelsOf[k[1]][k[2]] /\ k = <<k[1], k[2], k[3]>>
         /\ EventBacked(k[1]) => NoteOf(k) \in Notes
  <1>1. /\ k[1] \in Messages /\ k[2] \in Users /\ k[3] \in Channels
        /\ k[3] \in channelsOf[k[1]][k[2]] /\ k = <<k[1], k[2], k[3]>>
    BY DEF Keys
  <1> QED
    BY <1>1, EventNote DEF NoteOf

(* What a step makes of one attempt. *)
LEMMA AttemptTable ==
  ASSUME PlanInv, NEW k \in Keys, NEW new, attempt' = [attempt EXCEPT ![k] = new]
  PROVE  /\ attempt'[k] = new
         /\ \A j \in Keys \ {k} : attempt'[j] = attempt[j]
  BY DEF PlanInv, TypeOK

-----------------------------------------------------------------------------
(* What the rows tell of an attempt's end.                                 *)

Unreachable(k) == SelectContactMethod(k[2], k[3]) = None

(* Told, with the history hist. *)
Known(k, status, hist) == status \in hist[k].told \/ (status = "failed" /\ Unreachable(k))

(* An attempt for the slot of message, user and channel was told to end so. *)
Ended(m, u, c, status, tab, hist) ==
  \E j \in Keys : /\ slotOf[j] = slotOf[<<m, u, c>>] /\ tab[j].status # "absent"
                  /\ Known(j, status, hist)
SomeEnded(m, u, status, tab, hist) ==
  \E c \in channelsOf[m][u] : Ended(m, u, c, status, tab, hist)

AttemptTold(k, a, hist) == a.status \in Outcome => Known(k, a.status, hist)
CallTold(x, k, hist) ==
  /\ x.pc \in {"attempt", "user", "notification"} /\ x.outcome \in Outcome =>
       Known(k, x.outcome, hist)
  /\ x.pc = "notification" => EventBacked(k[1])
HookTold(x, hist) ==
  /\ x.pc # "none" => Known(x.key, x.outcome, hist)
  /\ x.pc = "notification" => EventBacked(x.key[1])

WorkerTold(r, tab, hist) ==
  /\ r.pc \in {"failAttempt", "failNotification"} => Unreachable(<<r.msg, r.user, r.chan>>)
  /\ r.pc = "destination" => ~Unreachable(<<r.msg, r.user, r.chan>>)
  /\ r.pc \in PerUser =>
       \A c \in channelsOf[r.msg][r.user] :
         r.plan[c] \in Outcome => Ended(r.msg, r.user, c, r.plan[c], tab, hist)

RowTold(m, u, status, tab, hist) ==
  /\ status \in {"sent", "partial_failure"} => SomeEnded(m, u, "sent", tab, hist)
  /\ status \in {"failed", "partial_failure"} => SomeEnded(m, u, "failed", tab, hist)

ToldInv ==
  /\ \A k \in Keys : AttemptTold(k, attempt[k], trail)
  /\ \A d \in Dispatchers : \A k \in Keys : CallTold(caller[d][k], k, trail)
  /\ \A h \in Handlers : HookTold(hook[h], trail)
  /\ \A w \in Workers : WorkerTold(worker[w], attempt, trail)
  /\ \A m \in Messages, u \in Users : RowTold(m, u, userMessage[<<m, u>>], attempt, trail)

(* No attempt goes, and nothing told is forgotten. *)
Remembers ==
  /\ Keeps(attempt, attempt')
  /\ \A k \in Keys : trail[k].told \subseteq trail'[k].told

LEMMA KnownStays ==
  ASSUME Remembers, NEW k \in Keys, NEW status, Known(k, status, trail)
  PROVE  Known(k, status, trail')
  BY DEF Remembers, Known

LEMMA EndedStays ==
  ASSUME Remembers, NEW m, NEW u, NEW c, NEW status, Ended(m, u, c, status, attempt, trail)
  PROVE  Ended(m, u, c, status, attempt', trail')
  <1>1. PICK j \in Keys : /\ slotOf[j] = slotOf[<<m, u, c>>] /\ attempt[j].status # "absent"
                          /\ Known(j, status, trail)
    BY DEF Ended
  <1>2. attempt'[j].status # "absent" /\ Known(j, status, trail')
    BY <1>1, KnownStays DEF Remembers, Keeps
  <1> QED
    BY <1>1, <1>2 DEF Ended

LEMMA RowToldStays ==
  ASSUME Remembers, NEW m, NEW u, NEW status, RowTold(m, u, status, attempt, trail)
  PROVE  RowTold(m, u, status, attempt', trail')
  <1>1. ASSUME NEW s, SomeEnded(m, u, s, attempt, trail)
        PROVE  SomeEnded(m, u, s, attempt', trail')
    BY <1>1, EndedStays DEF SomeEnded
  <1> QED
    BY <1>1 DEF RowTold

LEMMA WorkerToldStays ==
  ASSUME Remembers, NEW r, WorkerTold(r, attempt, trail)
  PROVE  WorkerTold(r, attempt', trail')
  <1>1. ASSUME r.pc \in PerUser, NEW c \in channelsOf[r.msg][r.user], r.plan[c] \in Outcome
        PROVE  Ended(r.msg, r.user, c, r.plan[c], attempt', trail')
    BY <1>1, EndedStays DEF WorkerTold
  <1> QED
    BY <1>1 DEF WorkerTold

LEMMA ToldKept ==
  ASSUME PlanInv, ToldInv, Remembers,
         \A k \in Keys : \/ attempt'[k].status = attempt[k].status
                         \/ AttemptTold(k, attempt'[k], trail'),
         \A d \in Dispatchers : \A k \in Keys :
           caller'[d][k] = caller[d][k] \/ CallTold(caller'[d][k], k, trail'),
         \A h \in Handlers : hook'[h] = hook[h] \/ HookTold(hook'[h], trail'),
         \A w \in Workers : worker'[w] = worker[w] \/ WorkerTold(worker'[w], attempt', trail'),
         \A m \in Messages, u \in Users :
           \/ userMessage'[<<m, u>>] = userMessage[<<m, u>>]
           \/ RowTold(m, u, userMessage'[<<m, u>>], attempt', trail')
  PROVE  ToldInv'
  <1>1. ASSUME NEW k \in Keys PROVE AttemptTold(k, attempt'[k], trail')
    BY KnownStays DEF ToldInv, AttemptTold
  <1>2. ASSUME NEW d \in Dispatchers, NEW k \in Keys PROVE CallTold(caller'[d][k], k, trail')
    BY KnownStays DEF ToldInv, CallTold
  <1>3. ASSUME NEW h \in Handlers PROVE HookTold(hook'[h], trail')
    <2>1. CASE hook'[h] = hook[h]
      <3>1. hook[h].pc # "none" => hook[h].key \in Keys
        BY DEF PlanInv, TakenUp, HookGood
      <3> QED
        BY <2>1, <3>1, KnownStays DEF ToldInv, HookTold
    <2> QED
      BY <2>1
  <1>4. ASSUME NEW w \in Workers PROVE WorkerTold(worker'[w], attempt', trail')
    BY WorkerToldStays DEF ToldInv
  <1>5. ASSUME NEW m \in Messages, NEW u \in Users
        PROVE  RowTold(m, u, userMessage'[<<m, u>>], attempt', trail')
    BY RowToldStays DEF ToldInv
  <1> QED
    BY <1>1, <1>2, <1>3, <1>4, <1>5 DEF ToldInv

(* A worker's step beside the attempts. *)
LEMMA QuietTold ==
  ASSUME PlanInv, ToldInv, UNCHANGED <<attempt, dispatch>>,
         NEW w \in Workers, Others(w), WorkerTold(worker'[w], attempt, trail),
         \A m \in Messages, u \in Users :
           \/ userMessage'[<<m, u>>] = userMessage[<<m, u>>]
           \/ RowTold(m, u, userMessage'[<<m, u>>], attempt, trail)
  PROVE  ToldInv'
  <1>1. UNCHANGED <<attempt, caller, hook, trail>>
    BY DEF dispatch
  <1>2. Remembers
    BY <1>1 DEF Remembers, Keeps
  <1> QED
    BY <1>1, <1>2, ToldKept DEF Others

LEMMA TakeTold ==
  ASSUME PlanInv, ToldInv, NEW w \in Workers, NEW m \in Messages,
         ReadGroup(w, m) \/ AutoClaim(w, m) \/ AutoClaimInWork(w, m)
  PROVE  ToldInv'
  <1>1. Begin(w, m) /\ UNCHANGED <<userMessage, attempt, dispatch>>
    BY DEF ReadGroup, AutoClaim, AutoClaimInWork, rows
  <1>2. Others(w) /\ worker'[w].pc \in {"processed", "users"}
    BY <1>1, BeginMoves
  <1>3. WorkerTold(worker'[w], attempt, trail)
    BY <1>2 DEF WorkerTold, PerUser
  <1> QED
    BY <1>1, <1>2, <1>3, QuietTold

(* A fault tells nothing. *)
LEMMA AbandonTold ==
  ASSUME PlanInv, ToldInv, NEW w \in Workers, Abandon(w)
  PROVE  ToldInv'
  <1>1. /\ worker' = [worker EXCEPT ![w] = Idle] /\ Hit({KeyOf(w)})
        /\ UNCHANGED <<userMessage, attempt, caller, hook>>
    BY DEF Abandon, rows
  <1>2. Others(w) /\ worker'[w].pc = "idle"
    BY <1>1, RestMoves
  <1>3. WorkerTold(worker'[w], attempt', trail')
    BY <1>2 DEF WorkerTold, PerUser
  <1>4. Remembers
    BY <1>1, HitOnly DEF Remembers, Keeps
  <1> QED
    BY <1>1, <1>2, <1>3, <1>4, ToldKept DEF Others

LEMMA AckTold ==
  ASSUME PlanInv, ToldInv, NEW w \in Workers, Ack(w)
  PROVE  ToldInv'
  <1>1. worker' = [worker EXCEPT ![w] = Idle] /\ UNCHANGED <<userMessage, attempt, dispatch>>
    BY DEF Ack, rows
  <1>2. Others(w) /\ worker'[w].pc = "idle"
    BY <1>1, RestMoves
  <1>3. WorkerTold(worker'[w], attempt, trail)
    BY <1>2 DEF WorkerTold, PerUser
  <1> QED
    BY <1>1, <1>2, <1>3, QuietTold

LEMMA RecipientTold ==
  ASSUME PlanInv, ToldInv, NEW w \in Workers, NEW u \in Users, CreateUserMessage(w, u)
  PROVE  ToldInv'
  <1> DEFINE p == <<worker[w].msg, u>>
             new == IF userMessage[p] = "absent" THEN "queued" ELSE userMessage[p]
  <1>1. userMessage' = [userMessage EXCEPT ![p] = new] /\ UNCHANGED <<attempt, dispatch>>
    BY DEF CreateUserMessage
  <1>2. /\ Others(w) /\ worker'[w].pc \in {"channels", "existing"}
        /\ worker'[w].plan = NoPlan
        /\ worker[w].msg \in Messages
        /\ worker'[w].msg = worker[w].msg /\ worker'[w].user = u
    BY TakeUserMoves, Record
  <1>3. ASSUME NEW c \in channelsOf[worker[w].msg][u] PROVE NoPlan[c] \notin Outcome
    <2>1. c \in Channels
      BY <1>2, MatchedChannels
    <2> QED
      BY <2>1 DEF NoPlan, Outcome
  <1>4. WorkerTold(worker'[w], attempt, trail)
    BY <1>2, <1>3 DEF WorkerTold
  <1>5. new = userMessage[p] \/ RowTold(worker[w].msg, u, new, attempt, trail)
    BY DEF RowTold
  <1>6. ASSUME NEW m \in Messages, NEW v \in Users, <<m, v>> # p
        PROVE  userMessage'[<<m, v>>] = userMessage[<<m, v>>]
    <2> HIDE DEF p, new
    <2> QED
      BY <1>1, <1>6 DEF PlanInv, TypeOK
  <1>7. userMessage'[p] = new
    <2>1. p \in Messages \X Users
      BY <1>2
    <2> HIDE DEF p, new
    <2> QED
      BY <1>1, <2>1 DEF PlanInv, TypeOK
  <1>8. ASSUME NEW m \in Messages, NEW v \in Users
        PROVE  \/ userMessage'[<<m, v>>] = userMessage[<<m, v>>]
               \/ RowTold(m, v, userMessage'[<<m, v>>], attempt, trail)
    <2>1. CASE <<m, v>> = p
      <3>1. m = worker[w].msg /\ v = u
        BY <2>1
      <3> HIDE DEF p, new
      <3> QED
        BY <1>5, <1>7, <2>1, <3>1
    <2> QED
      BY <1>6, <2>1
  <1> QED
    BY <1>1, <1>2, <1>4, <1>8, QuietTold

LEMMA ExistingTold ==
  ASSUME PlanInv, ToldInv, NEW w \in Workers, ListExisting(w)
  PROVE  ToldInv'
  <1> DEFINE r == worker[w]
  <1>1. UNCHANGED <<userMessage, attempt, dispatch>>
    BY DEF ListExisting, rows
  <1>2. /\ SameJob(w) /\ r.pc = "existing"
        /\ worker'[w].pc \in {"summary", "channels"} /\ worker'[w].user = r.user
        /\ r.msg \in Messages /\ r.user \in Users
    BY ExistingMoves, Record DEF PerUser
  <1>3. ASSUME NEW c \in channelsOf[r.msg][r.user], worker'[w].plan[c] \in Outcome
        PROVE  Ended(r.msg, r.user, c, worker'[w].plan[c], attempt, trail)
    <2>1. worker'[w].plan[c] = attempt[<<r.msg, r.user, c>>].status
      BY <1>3, ExistingMoves DEF Outcome
    <2>2. <<r.msg, r.user, c>> \in Keys
      BY <1>2, MatchedChannels DEF Keys
    <2>3. Known(<<r.msg, r.user, c>>, worker'[w].plan[c], trail)
      BY <1>3, <2>1, <2>2 DEF ToldInv, AttemptTold
    <2>4. attempt[<<r.msg, r.user, c>>].status # "absent"
      BY <1>3, <2>1 DEF Outcome
    <2> QED
      BY <2>2, <2>3, <2>4 DEF Ended
  <1>4. WorkerTold(worker'[w], attempt, trail)
    BY <1>2, <1>3 DEF WorkerTold, SameJob
  <1> QED
    BY <1>1, <1>2, <1>4, QuietTold DEF SameJob

(* The same plan, further on. *)
LEMMA OnwardTold ==
  ASSUME PlanInv, ToldInv, NEW w \in Workers, worker[w].pc \in PerUser, SameJob(w),
         worker'[w].user = worker[w].user, worker'[w].plan = worker[w].plan,
         worker'[w].pc \notin {"failAttempt", "destination", "failNotification"}
  PROVE  WorkerTold(worker'[w], attempt, trail)
  <1>1. WorkerTold(worker[w], attempt, trail)
    BY DEF ToldInv
  <1> QED
    BY <1>1 DEF WorkerTold, SameJob

LEMMA ChannelTold ==
  ASSUME PlanInv, ToldInv, NEW w \in Workers,
         \/ \E c \in Channels : EnsureNotification(w, c) \/ CreateWithoutEvent(w, c)
         \/ TouchLastMessage(w)
         \/ worker[w].pc = "list" /\ Goto(w, "create") /\ UNCHANGED <<rows, dispatch>>
  PROVE  ToldInv'
  <1>1. UNCHANGED <<userMessage, attempt, dispatch>>
    BY DEF EnsureNotification, CreateWithoutEvent, TouchLastMessage, rows
  <1>2. /\ worker[w].pc \in PerUser /\ SameJob(w)
        /\ worker'[w].user = worker[w].user /\ worker'[w].plan = worker[w].plan
        /\ worker'[w].pc \in {"touch", "list", "create"}
    <2>1. ASSUME NEW c \in Channels, NEW pc \in {"touch", "list", "create"},
                 worker' = [worker EXCEPT ![w] =
                   [worker[w] EXCEPT !.pc = pc, !.chans = worker[w].chans \ {c}, !.chan = c]]
          PROVE  /\ SameJob(w) /\ worker'[w].pc \in {"touch", "list", "create"}
                 /\ worker'[w].user = worker[w].user /\ worker'[w].plan = worker[w].plan
      <3>1. /\ SameJob(w)
            /\ worker'[w].pc = pc
            /\ worker'[w].user = worker[w].user /\ worker'[w].chans = worker[w].chans \ {c}
            /\ worker'[w].chan = c /\ worker'[w].plan = worker[w].plan
        BY <2>1, TakeChannelMoves, Zenon
      <3> QED
        BY <3>1
    <2>2. CASE \E c \in Channels : EnsureNotification(w, c) \/ CreateWithoutEvent(w, c)
      <3>1. PICK c \in Channels : EnsureNotification(w, c) \/ CreateWithoutEvent(w, c)
        BY <2>2
      <3>2. worker[w].pc = "channels"
        BY <3>1 DEF EnsureNotification, CreateWithoutEvent
      <3>3. \E pc \in {"touch", "list", "create"} : worker' = [worker EXCEPT ![w] =
              [worker[w] EXCEPT !.pc = pc, !.chans = worker[w].chans \ {c}, !.chan = c]]
        BY <3>1 DEF EnsureNotification, CreateWithoutEvent
      <3> QED
        BY <2>1, <3>2, <3>3 DEF PerUser
    <2>3. CASE TouchLastMessage(w)
      BY <2>3, GotoMoves DEF TouchLastMessage, SameChannel, PerUser
    <2>4. CASE worker[w].pc = "list" /\ Goto(w, "create")
      BY <2>4, GotoMoves DEF SameChannel, PerUser
    <2> QED
      BY <2>2, <2>3, <2>4
  <1>3. WorkerTold(worker'[w], attempt, trail)
    BY <1>2, OnwardTold
  <1> QED
    BY <1>1, <1>2, <1>3, QuietTold DEF SameJob

(* The channel in hand is settled with the status of an attempt for it. *)
LEMMA DoneTold ==
  ASSUME PlanInv, NEW w \in Workers, worker[w].pc \in PerChannel,
         WorkerTold(worker[w], attempt', trail'), NEW status, ChannelDone(w, status),
         status \in Outcome =>
           Ended(worker[w].msg, worker[w].user, worker[w].chan, status, attempt', trail')
  PROVE  WorkerTold(worker'[w], attempt', trail')
  <1> DEFINE r == worker[w]
  <1>1. /\ SameJob(w) /\ worker'[w].pc \in {"summary", "channels"}
        /\ worker'[w].user = r.user
        /\ worker'[w].plan = [r.plan EXCEPT ![r.chan] = status]
    BY DoneMoves
  <1>2. /\ r.plan \in [Channels -> PlanStatus] /\ r.msg \in Messages /\ r.user \in Users
        /\ r.pc \in PerUser
    BY Record, KeyInHand DEF Worker, PlanInv, PerChannel, PerUser
  <1>3. ASSUME NEW c \in channelsOf[r.msg][r.user], worker'[w].plan[c] \in Outcome
        PROVE  Ended(r.msg, r.user, c, worker'[w].plan[c], attempt', trail')
    <2>1. c \in Channels
      BY <1>2, MatchedChannels
    <2>2. worker'[w].plan[c] = IF c = r.chan THEN status ELSE r.plan[c]
      BY <1>1, <1>2, <2>1
    <2> QED
      BY <1>2, <1>3, <2>2 DEF WorkerTold
  <1> QED
    BY <1>1, <1>3 DEF WorkerTold, SameJob

(* It is found in the table, *)
LEMMA FoundTold ==
  ASSUME PlanInv, ToldInv, NEW w \in Workers, worker[w].pc \in PerChannel,
         UNCHANGED <<userMessage, attempt, dispatch>>,
         \/ \E j \in OfSlot(KeyOf(w)) : ChannelDone(w, attempt[j].status)
         \/ ChannelDone(w, "suppressed")
  PROVE  ToldInv'
  <1>1. SameJob(w)
    BY DoneMoves
  <1>2. WorkerTold(worker[w], attempt', trail')
    BY DEF ToldInv, dispatch
  <1>3. CASE \E j \in OfSlot(KeyOf(w)) : ChannelDone(w, attempt[j].status)
    <2>1. PICK j \in OfSlot(KeyOf(w)) : ChannelDone(w, attempt[j].status)
      BY <1>3
    <2>2. attempt[j].status \in Outcome =>
            Ended(worker[w].msg, worker[w].user, worker[w].chan, attempt[j].status, attempt', trail')
      <3>1. ASSUME attempt[j].status \in Outcome PROVE Known(j, attempt[j].status, trail)
        BY <3>1 DEF OfSlot, ToldInv, AttemptTold
      <3> QED
        BY <3>1 DEF Ended, OfSlot, KeyOf, Exists, dispatch
    <2>3. WorkerTold(worker'[w], attempt', trail')
      BY <1>2, <2>1, <2>2, DoneTold
    <2> QED
      BY <1>1, <2>3, QuietTold DEF SameJob, dispatch
  <1>4. CASE ChannelDone(w, "suppressed")
    <2>1. WorkerTold(worker'[w], attempt', trail')
      BY <1>2, <1>4, DoneTold DEF Outcome
    <2> QED
      BY <1>1, <2>1, QuietTold DEF SameJob, dispatch
  <1> QED
    BY <1>3, <1>4

LEMMA ListTold ==
  ASSUME PlanInv, ToldInv, NEW w \in Workers, ListAttempts(w)
  PROVE  ToldInv'
  <1>1. worker[w].pc = "list" /\ UNCHANGED <<rows, dispatch>>
    BY DEF ListAttempts
  <1>2. UNCHANGED <<userMessage, attempt, dispatch>>
    BY <1>1 DEF rows
  <1>3. \/ Goto(w, "create")
        \/ \E j \in OfSlot(KeyOf(w)) : ChannelDone(w, attempt[j].status)
        \/ ChannelDone(w, "suppressed")
    BY DEF ListAttempts
  <1> QED
    BY <1>1, <1>2, <1>3, ChannelTold, FoundTold DEF PerChannel

LEMMA CreateTold ==
  ASSUME PlanInv, ToldInv, NEW w \in Workers, CreateAttempt(w)
  PROVE  ToldInv'
  <1> DEFINE r == worker[w]
             k == KeyOf(w)
             new == Row("queued")
             pc == IF SelectContactMethod(r.user, r.chan) = None
                   THEN "failAttempt" ELSE "destination"
  <1>1. r.pc = "create" /\ UNCHANGED <<userMessage, dispatch>>
    BY DEF CreateAttempt
  <1>2. CASE CreateLoses(w)
    BY <1>1, <1>2, FoundTold DEF CreateLoses, PerChannel
  <1>3. CASE Create(w)
    <2>1. /\ attempt' = [attempt EXCEPT ![k] = new]
          /\ worker' = [worker EXCEPT ![w] = [r EXCEPT !.pc = pc]]
          /\ ~Exists(k)
      BY <1>3 DEF Create, Duplicate
    <2>2. Goto(w, pc)
      BY <2>1 DEF Goto
    <2>3. SameChannel(w) /\ worker'[w].pc = pc
      <3> HIDE DEF pc
      <3> QED
        BY <2>2, GotoMoves
    <2>4. k \in Keys /\ k = <<r.msg, r.user, r.chan>>
      BY <1>1, KeyInHand DEF PlanInv, PerChannel, KeyOf
    <2>5. new.status = "queued"
      BY DEF Row
    <2> HIDE DEF new
    <2>6. attempt'[k] = new /\ \A j \in Keys \ {k} : attempt'[j] = attempt[j]
      BY <2>1, <2>4, AttemptTable
    <2>7. UNCHANGED <<caller, hook, trail>> /\ Remembers
      <3>1. UNCHANGED <<caller, hook, trail>>
        BY <1>1 DEF dispatch
      <3> QED
        BY <2>4, <2>5, <2>6, <3>1 DEF Remembers, Keeps
    <2>8. AttemptTold(k, attempt'[k], trail')
      BY <2>5, <2>6 DEF AttemptTold, Outcome
    <2>10. WorkerTold(worker'[w], attempt', trail')
      <3>1. /\ pc = "failAttempt" <=> Unreachable(<<r.msg, r.user, r.chan>>)
            /\ pc \in {"failAttempt", "destination"}
        BY DEF Unreachable
      <3>2. WorkerTold(r, attempt', trail')
        BY <2>7, WorkerToldStays DEF ToldInv
      <3> HIDE DEF pc
      <3> QED
        BY <1>1, <2>3, <3>1, <3>2 DEF WorkerTold, SameChannel, SameJob, PerUser
    <2> QED
      BY <1>1, <2>3, <2>6, <2>7, <2>8, <2>10, ToldKept DEF SameChannel, SameJob, Others
  <1> QED
    BY <1>2, <1>3 DEF CreateAttempt

(* A worker changes the attempt it made, and settles the channel or goes   *)
(* on to the notification.                                                 *)
LEMMA OwnTold ==
  ASSUME PlanInv, ToldInv, NEW w \in Workers, worker[w].pc \in AfterCreate,
         UNCHANGED <<userMessage, dispatch>>,
         NEW new, attempt' = [attempt EXCEPT ![KeyOf(w)] = new],
         \/ new.status = attempt[KeyOf(w)].status
         \/ new.status = "failed" /\ Unreachable(KeyOf(w)),
         \/ Goto(w, "failNotification") /\ new.status = "failed" /\ Unreachable(KeyOf(w))
         \/ ChannelDone(w, "failed") /\ new.status = "failed" /\ Unreachable(KeyOf(w))
         \/ ChannelDone(w, "queued")
  PROVE  ToldInv'
  <1> DEFINE r == worker[w]
             k == KeyOf(w)
  <1>1. /\ k \in Keys /\ k = <<r.msg, r.user, r.chan>>
        /\ r.pc \in PerChannel /\ r.pc \in PerUser
    BY KeyInHand DEF PlanInv, PerChannel, PerUser, AfterCreate, KeyOf
  <1>2. attempt'[k] = new /\ \A j \in Keys \ {k} : attempt'[j] = attempt[j]
    BY <1>1, AttemptTable
  <1>3. UNCHANGED <<caller, hook, trail>> /\ Remembers
    BY <1>2 DEF dispatch, Remembers, Keeps
  <1>4. WorkerTold(r, attempt', trail')
    BY <1>3, WorkerToldStays DEF ToldInv
  <1>5. attempt'[k].status = attempt[k].status \/ AttemptTold(k, attempt'[k], trail')
    BY <1>2 DEF AttemptTold, Known
  <1>6. ASSUME new.status = "failed", Unreachable(k)
        PROVE  Ended(r.msg, r.user, r.chan, "failed", attempt', trail')
    BY <1>1, <1>2, <1>6 DEF Ended, Known
  <1>7. SameJob(w) /\ WorkerTold(worker'[w], attempt', trail')
    <2>1. CASE Goto(w, "failNotification") /\ new.status = "failed" /\ Unreachable(k)
      <3>1. SameChannel(w) /\ worker'[w].pc = "failNotification"
        BY <2>1, GotoMoves
      <3> QED
        BY <1>1, <1>4, <2>1, <3>1 DEF WorkerTold, SameChannel, SameJob
    <2>2. CASE ChannelDone(w, "failed") /\ new.status = "failed" /\ Unreachable(k)
      BY <1>1, <1>4, <1>6, <2>2, DoneTold, DoneMoves
    <2>3. CASE ChannelDone(w, "queued")
      BY <1>1, <1>4, <2>3, DoneTold, DoneMoves DEF Outcome
    <2> QED
      BY <2>1, <2>2, <2>3
  <1> HIDE DEF k
  <1> QED
    BY <1>1, <1>2, <1>3, <1>5, <1>7, ToldKept DEF SameJob, Others

LEMMA DestinationTold ==
  ASSUME PlanInv, ToldInv, NEW w \in Workers, UpdateDestination(w)
  PROVE  ToldInv'
  <1> DEFINE k == KeyOf(w)
             d == SelectContactMethod(worker[w].user, worker[w].chan)
             new == [attempt[k] EXCEPT !.destination = d]
  <1>1. /\ worker[w].pc = "destination" /\ ChannelDone(w, "queued")
        /\ attempt' = [attempt EXCEPT ![k] = new]
        /\ UNCHANGED <<userMessage, dispatch>>
    BY DEF UpdateDestination
  <1>2. k \in Keys /\ attempt[k] \in Attempt
    BY <1>1, KeyInHand DEF PlanInv, PerChannel, TypeOK
  <1>3. new.status = attempt[k].status
    <2> HIDE DEF d
    <2> QED
      BY <1>2 DEF Attempt
  <1> HIDE DEF new
  <1> QED
    BY <1>1, <1>3, OwnTold DEF AfterCreate

(* A dispatcher may have the attempt already, or have recorded its end. *)
LEMMA FailTold ==
  ASSUME PlanInv, ToldInv, NEW w \in Workers, FailAttempt(w)
  PROVE  ToldInv'
  <1>1. /\ worker[w].pc = "failAttempt"
        /\ UpdateStatus(KeyOf(w), "failed", "none")
        /\ UNCHANGED <<userMessage, dispatch>>
        /\ Goto(w, "failNotification") \/ ChannelDone(w, "failed")
    BY DEF FailAttempt
  <1>2. KeyOf(w) \in Keys
    BY <1>1, KeyInHand DEF PlanInv, PerChannel
  <1>3. PICK new \in Attempt : attempt' = [attempt EXCEPT ![KeyOf(w)] = new] /\ new.status = "failed"
    BY <1>1, <1>2, UpdateStatusType DEF AttemptStatus, Outcome
  <1>4. Unreachable(KeyOf(w))
    BY <1>1 DEF ToldInv, WorkerTold, KeyOf
  <1> QED
    BY <1>1, <1>3, <1>4, OwnTold DEF AfterCreate

LEMMA FailNoteTold ==
  ASSUME PlanInv, ToldInv, NEW w \in Workers, FailNotification(w)
  PROVE  ToldInv'
  <1>1. /\ worker[w].pc = "failNotification" /\ ChannelDone(w, "failed")
        /\ UNCHANGED <<userMessage, attempt, dispatch>>
    BY DEF FailNotification
  <1>2. KeyOf(w) \in Keys /\ Unreachable(KeyOf(w)) /\ attempt[KeyOf(w)].status # "absent"
    BY <1>1, KeyInHand DEF PlanInv, PerChannel, AfterCreate, WorkersGood, Good, Shape, ToldInv,
                           WorkerTold, KeyOf
  <1>3. Ended(worker[w].msg, worker[w].user, worker[w].chan, "failed", attempt, trail)
    BY <1>2 DEF Ended, KeyOf, Known
  <1>4. WorkerTold(worker'[w], attempt, trail)
    <2>1. WorkerTold(worker[w], attempt', trail') /\ UNCHANGED <<attempt, trail>>
      BY <1>1 DEF ToldInv, dispatch
    <2> QED
      BY <1>1, <1>3, <2>1, DoneTold DEF PerChannel
  <1> QED
    BY <1>1, <1>4, QuietTold, DoneMoves DEF SameJob

(* The summary claims what the plan has, and the plan what the table has. *)
LEMMA SummaryTold ==
  ASSUME PlanInv, ToldInv, NEW w \in Workers, Summary(w)
  PROVE  ToldInv'
  <1> DEFINE r == worker[w]
             S == channelsOf[r.msg][r.user]
             status == Summarize(S, r.plan)
  <1>1. /\ r.pc = "summary"
        /\ userMessage' = [userMessage EXCEPT ![RowOf(w)] = status]
        /\ UNCHANGED <<attempt, dispatch>>
    BY DEF Summary
  <1>2. r.msg \in Messages /\ r.user \in Users /\ r.pc \in PerUser
    BY <1>1, Record DEF PerUser
  <1>3. /\ status \in {"sent", "partial_failure"} => \E c \in S : r.plan[c] = "sent"
        /\ status \in {"failed", "partial_failure"} => \E c \in S : r.plan[c] = "failed"
    <2> HIDE DEF S
    <2> QED
      BY DEF Summarize
  <1>4. \A c \in S : r.plan[c] \in Outcome => Ended(r.msg, r.user, c, r.plan[c], attempt, trail)
    BY <1>2 DEF ToldInv, WorkerTold
  <1> HIDE DEF status
  <1>5. RowTold(r.msg, r.user, status, attempt, trail)
    BY <1>3, <1>4 DEF RowTold, SomeEnded, Outcome
  <1>6. ASSUME NEW m \in Messages, NEW u \in Users
        PROVE  \/ userMessage'[<<m, u>>] = userMessage[<<m, u>>]
               \/ RowTold(m, u, userMessage'[<<m, u>>], attempt, trail)
    <2>1. RowOf(w) = <<r.msg, r.user>> /\ userMessage \in [Messages \X Users -> UserMessageStatus]
      BY DEF RowOf, PlanInv, TypeOK
    <2>2. CASE m = r.msg /\ u = r.user
      BY <1>1, <1>5, <2>1, <2>2
    <2>3. CASE ~(m = r.msg /\ u = r.user)
      BY <1>1, <2>1, <2>3
    <2> QED
      BY <2>2, <2>3
  <1>7. Others(w) /\ WorkerTold(worker'[w], attempt, trail)
    <2>1. SameJob(w) /\ worker'[w].pc \in {"processed", "users"}
      BY SummaryMoves
    <2> QED
      BY <2>1 DEF SameJob, WorkerTold, PerUser
  <1> QED
    BY <1>1, <1>6, <1>7, QuietTold

LEMMA MarkTold ==
  ASSUME PlanInv, ToldInv, NEW w \in Workers, MarkProcessed(w)
  PROVE  ToldInv'
  <1>1. Goto(w, "ack") /\ UNCHANGED <<userMessage, attempt, dispatch>>
    BY DEF MarkProcessed
  <1>2. SameChannel(w) /\ worker'[w].pc = "ack"
    BY <1>1, GotoMoves
  <1>3. WorkerTold(worker'[w], attempt, trail)
    BY <1>2 DEF WorkerTold, PerUser
  <1> QED
    BY <1>1, <1>2, <1>3, QuietTold DEF SameChannel, SameJob

(* Beside the workers: one attempt is changed, what is recorded of it was  *)
(* told.                                                                   *)
LEMMA DispatchTold ==
  ASSUME PlanInv, ToldInv, UNCHANGED worker, NEW k \in Keys, Exists(k),
         NEW new, attempt' = [attempt EXCEPT ![k] = new], new.status # "absent",
         \A j \in Keys : trail[j].told \subseteq trail'[j].told,
         new.status \in Outcome \ {attempt[k].status} => Known(k, new.status, trail'),
         \A d \in Dispatchers : \A j \in Keys :
           caller'[d][j] = caller[d][j] \/ CallTold(caller'[d][j], j, trail'),
         \A h \in Handlers : hook'[h] = hook[h] \/ HookTold(hook'[h], trail'),
         \/ UNCHANGED userMessage
         \/ \E outcome \in Outcome :
              /\ Known(k, outcome, trail')
              /\ userMessage' = [userMessage EXCEPT ![<<k[1], k[2]>>] = outcome]
  PROVE  ToldInv'
  <1>1. attempt'[k] = new /\ \A j \in Keys \ {k} : attempt'[j] = attempt[j]
    BY AttemptTable
  <1>2. Remembers
    BY <1>1 DEF Remembers, Keeps
  <1>3. \A j \in Keys : \/ attempt'[j].status = attempt[j].status
                        \/ AttemptTold(j, attempt'[j], trail')
    BY <1>1 DEF AttemptTold
  <1>4. ASSUME NEW m \in Messages, NEW u \in Users
        PROVE  \/ userMessage'[<<m, u>>] = userMessage[<<m, u>>]
               \/ RowTold(m, u, userMessage'[<<m, u>>], attempt', trail')
    <2>1. CASE UNCHANGED userMessage
      BY <2>1
    <2>2. CASE ~UNCHANGED userMessage
      <3>1. PICK outcome \in Outcome :
              /\ Known(k, outcome, trail')
              /\ userMessage' = [userMessage EXCEPT ![<<k[1], k[2]>>] = outcome]
        BY <2>2
      <3>2. Ended(k[1], k[2], k[3], outcome, attempt', trail')
        BY <1>1, <3>1, KeyParts DEF Ended
      <3>3. RowTold(k[1], k[2], outcome, attempt', trail')
        BY <3>2, KeyParts DEF RowTold, SomeEnded, Outcome
      <3>4. userMessage \in [Messages \X Users -> UserMessageStatus]
        BY DEF PlanInv, TypeOK
      <3>5. CASE m = k[1] /\ u = k[2]
        BY <3>1, <3>3, <3>4, <3>5
      <3>6. CASE ~(m = k[1] /\ u = k[2])
        BY <3>1, <3>4, <3>6
      <3> QED
        BY <3>5, <3>6
    <2> QED
      BY <2>1, <2>2
  <1> QED
    BY <1>2, <1>3, <1>4, ToldKept

(* The dispatchers' steps, *)
LEMMA ClaimTold ==
  ASSUME PlanInv, ToldInv, NEW d \in Dispatchers, NEW k \in Keys, Claim(d, k)
  PROVE  ToldInv'
  <1> DEFINE new == [attempt[k] EXCEPT !.status = "dispatching", !.leased = TRUE]
             t == [trail[k] EXCEPT !.calls = trail[k].calls + 1]
             c == [pc |-> "call", dialled |-> attempt[k].destination, outcome |-> None]
  <1>1. /\ attempt' = [attempt EXCEPT ![k] = new] /\ trail' = [trail EXCEPT ![k] = t]
        /\ caller' = [caller EXCEPT ![d][k] = c] /\ Claimable(k)
        /\ UNCHANGED <<userMessage, worker, hook>>
    BY DEF Claim
  <1>2. attempt[k] \in Attempt /\ trail \in [Keys -> Trail]
    BY DEF PlanInv, TypeOK
  <1>3. new.status = "dispatching" /\ Exists(k)
    BY <1>1, <1>2 DEF Attempt, Claimable, Exists
  <1>4. t.told = trail[k].told
    BY <1>2 DEF Trail
  <1>5. c \in Caller /\ c.pc = "call"
    BY <1>2 DEF Attempt, Caller, CallerPc
  <1> HIDE DEF new, t, c
  <1>6. \A j \in Keys : trail[j].told \subseteq trail'[j].told
    BY <1>1, <1>2, <1>4
  <1>7. \A e \in Dispatchers : \A j \in Keys :
          caller'[e][j] = caller[e][j] \/ CallTold(caller'[e][j], j, trail')
    BY <1>1, <1>5, CallerMove DEF CallTold
  <1> QED
    BY <1>1, <1>3, <1>6, <1>7, DispatchTold DEF Outcome

LEMMA SendTold ==
  ASSUME PlanInv, ToldInv, NEW d \in Dispatchers, NEW k \in Keys, Send(d, k)
  PROVE  ToldInv'
  <1>1. PICK answer \in Answer :
          /\ caller' = [caller EXCEPT ![d][k] =
               [caller[d][k] EXCEPT !.pc = "attempt", !.outcome = answer]]
          /\ trail' = [trail EXCEPT ![k].told = @ \cup ({answer} \cap Outcome),
                                    ![k].disturbed = @ \/ answer = "queued"]
    BY DEF Send
  <1> DEFINE c == [caller[d][k] EXCEPT !.pc = "attempt", !.outcome = answer]
  <1>2. caller[d][k].pc = "call" /\ UNCHANGED <<userMessage, attempt, worker, hook>>
    BY DEF Send, rows
  <1>3. Exists(k) /\ caller[d][k] \in Caller
    BY <1>2, InHandGood
  <1>4. c \in Caller /\ c.pc = "attempt" /\ c.outcome = answer
    BY <1>3 DEF Caller, CallerPc
  <1>5. /\ trail'[k].told = trail[k].told \cup ({answer} \cap Outcome)
        /\ \A j \in Keys \ {k} : trail'[j] = trail[j]
    <2>1. trail \in [Keys -> Trail]
      BY DEF PlanInv, TypeOK
    <2> QED
      BY <1>1, <2>1 DEF Trail
  <1>6. caller' = [caller EXCEPT ![d][k] = c]
    BY <1>1
  <1> HIDE DEF c
  <1>7. \A j \in Keys : trail[j].told \subseteq trail'[j].told
    BY <1>5
  <1>8. CallTold(c, k, trail')
    BY <1>4, <1>5 DEF CallTold, Known
  <1>9. \A e \in Dispatchers : \A j \in Keys :
          caller'[e][j] = caller[e][j] \/ CallTold(caller'[e][j], j, trail')
    BY <1>4, <1>6, <1>8, CallerMove
  <1>10. attempt' = [attempt EXCEPT ![k] = attempt[k]] /\ attempt[k].status # "absent"
    BY <1>2, <1>3, AttemptSame DEF Exists
  <1> QED
    BY <1>2, <1>3, <1>7, <1>9, <1>10, DispatchTold

LEMMA RequeueTold ==
  ASSUME PlanInv, ToldInv, NEW d \in Dispatchers, NEW k \in Keys, Requeue(d, k)
  PROVE  ToldInv'
  <1> DEFINE c == IF EventBacked(k[1]) THEN [caller[d][k] EXCEPT !.pc = "notification"] ELSE NoCall
             t == [trail[k] EXCEPT !.again = trail[k].again + 1]
  <1>1. /\ caller[d][k].pc = "attempt" /\ caller[d][k].outcome = "queued"
        /\ UpdateStatus(k, "queued", attempt[k].call)
        /\ trail' = [trail EXCEPT ![k] = t]
        /\ caller' = [caller EXCEPT ![d][k] = c]
        /\ UNCHANGED <<userMessage, worker, hook>>
    BY DEF Requeue
  <1>2. Exists(k) /\ attempt[k] \in Attempt /\ caller[d][k] \in Caller
    BY <1>1, InHandGood
  <1>3. PICK new \in Attempt : attempt' = [attempt EXCEPT ![k] = new] /\ new.status = "queued"
    <2>1. attempt[k].call \in {"none", "live"} \cup Outcome
      BY <1>2 DEF Attempt
    <2>2. "queued" \in AttemptStatus \ {"absent"}
      BY DEF AttemptStatus
    <2> QED
      BY <1>1, <2>1, <2>2, UpdateStatusType
  <1>4. trail \in [Keys -> Trail] /\ t.told = trail[k].told
    BY DEF PlanInv, TypeOK, Trail
  <1>5. /\ c \in Caller /\ (c.pc = "none" \/ c.outcome \notin Outcome)
        /\ c.pc = "notification" => EventBacked(k[1])
    <2>1. CASE EventBacked(k[1])
      BY <1>1, <1>2, <2>1 DEF Caller, CallerPc, Outcome
    <2>2. CASE ~EventBacked(k[1])
      BY <2>2, NoCallGood
    <2> QED
      BY <2>1, <2>2
  <1> HIDE DEF c, t
  <1>6. \A j \in Keys : trail[j].told \subseteq trail'[j].told
    BY <1>1, <1>4
  <1>7. \A e \in Dispatchers : \A j \in Keys :
          caller'[e][j] = caller[e][j] \/ CallTold(caller'[e][j], j, trail')
    BY <1>1, <1>5, CallerMove DEF CallTold
  <1> QED
    BY <1>1, <1>2, <1>3, <1>6, <1>7, DispatchTold DEF Outcome

LEMMA RecordTold ==
  ASSUME PlanInv, ToldInv, NEW d \in Dispatchers, NEW k \in Keys,
         RecordAttempt(d, k) \/ RecordUserMessage(d, k) \/ RecordNotification(d, k)
  PROVE  ToldInv'
  <1> DEFINE x == caller[d][k]
             call == IF x.outcome = "sent" THEN "live" ELSE "none"
             c == IF x.pc = "attempt" THEN [x EXCEPT !.pc = "user"]
                  ELSE IF x.pc = "user" /\ EventBacked(k[1]) THEN [x EXCEPT !.pc = "notification"]
                  ELSE NoCall
  <1>1. /\ x.pc \in {"attempt", "user", "notification"}
        /\ caller' = [caller EXCEPT ![d][k] = c]
        /\ UNCHANGED <<worker, hook, trail>>
    BY DEF RecordAttempt, RecordUserMessage, RecordNotification
  <1>2. Exists(k) /\ x \in Caller /\ attempt[k] \in Attempt /\ (x.pc = "user" => x.outcome \in Outcome)
    BY <1>1, InHandGood
  <1>3. CallTold(x, k, trail)
    BY DEF ToldInv
  <1>4. /\ c \in Caller /\ (c.outcome = x.outcome \/ c.pc = "none")
        /\ c.pc = "notification" => EventBacked(k[1])
    <2>1. CASE c = NoCall
      BY <2>1, NoCallGood
    <2>2. CASE c # NoCall
      <3>1. \/ c = [x EXCEPT !.pc = "user"]
            \/ c = [x EXCEPT !.pc = "notification"] /\ EventBacked(k[1])
        BY <2>2
      <3> HIDE DEF c
      <3> QED
        BY <1>2, <3>1 DEF Caller, CallerPc
    <2> QED
      BY <2>1, <2>2
  <1> HIDE DEF c
  <1>5. CallTold(c, k, trail')
    BY <1>1, <1>3, <1>4 DEF CallTold
  <1>6. \A e \in Dispatchers : \A j \in Keys :
          caller'[e][j] = caller[e][j] \/ CallTold(caller'[e][j], j, trail')
    BY <1>1, <1>4, <1>5, CallerMove
  <1>7. CASE RecordAttempt(d, k)
    <2>1. x.outcome \in Outcome /\ UNCHANGED userMessage /\ UpdateStatus(k, x.outcome, call)
      BY <1>7 DEF RecordAttempt
    <2>2. call \in {"none", "live"} \cup Outcome
      OBVIOUS
    <2>3. x.outcome \in AttemptStatus \ {"absent"}
      BY <2>1 DEF AttemptStatus, Outcome
    <2> HIDE DEF call
    <2>4. PICK new \in Attempt :
            attempt' = [attempt EXCEPT ![k] = new] /\ new.status = x.outcome
      BY <2>1, <2>2, <2>3, UpdateStatusType
    <2>5. Known(k, x.outcome, trail')
      BY <1>1, <1>3, <2>1 DEF CallTold
    <2> QED
      BY <1>1, <1>2, <1>6, <2>1, <2>3, <2>4, <2>5, DispatchTold
  <1>8. CASE RecordUserMessage(d, k) \/ RecordNotification(d, k)
    <2>1. attempt' = [attempt EXCEPT ![k] = attempt[k]] /\ attempt[k].status # "absent"
      BY <1>2, <1>8, AttemptSame DEF RecordUserMessage, RecordNotification, Exists
    <2>2. \/ UNCHANGED userMessage
          \/ \E outcome \in Outcome :
               /\ Known(k, outcome, trail')
               /\ userMessage' = [userMessage EXCEPT ![<<k[1], k[2]>>] = outcome]
      <3>1. CASE RecordUserMessage(d, k)
        <4>1. /\ x.pc = "user"
              /\ userMessage' = [userMessage EXCEPT ![<<k[1], k[2]>>] = x.outcome]
          BY <3>1 DEF RecordUserMessage
        <4> QED
          BY <1>1, <1>2, <1>3, <4>1 DEF CallTold
      <3>2. CASE RecordNotification(d, k)
        BY <3>2 DEF RecordNotification
      <3> QED
        BY <1>8, <3>1, <3>2
    <2> QED
      BY <1>1, <1>2, <1>6, <2>1, <2>2, DispatchTold
  <1> QED
    BY <1>7, <1>8

LEMMA CallsTold ==
  ASSUME PlanInv, ToldInv, NEW d \in Dispatchers, NEW k \in Keys, Call(d, k)
  PROVE  ToldInv'
  BY ClaimTold, SendTold, RequeueTold, RecordTold DEF Call

LEMMA LeaseExpiresTold ==
  ASSUME PlanInv, ToldInv, NEW k \in Keys, LeaseExpires(k)
  PROVE  ToldInv'
  <1> DEFINE new == [attempt[k] EXCEPT !.leased = FALSE]
  <1>1. /\ attempt[k].status = "dispatching" /\ attempt' = [attempt EXCEPT ![k] = new]
        /\ trail' = [trail EXCEPT ![k].again = @ + 1, ![k].disturbed = TRUE]
        /\ UNCHANGED <<userMessage, worker, caller, hook>>
    BY DEF LeaseExpires
  <1>2. attempt[k] \in Attempt /\ trail \in [Keys -> Trail]
    BY DEF PlanInv, TypeOK
  <1>3. new.status = "dispatching" /\ Exists(k)
    BY <1>1, <1>2 DEF Attempt, Exists
  <1>4. \A j \in Keys : trail'[j].told = trail[j].told
    BY <1>1, <1>2 DEF Trail
  <1> HIDE DEF new
  <1> QED
    BY <1>1, <1>3, <1>4, DispatchTold DEF Outcome

LEMMA DispatcherFailsTold ==
  ASSUME PlanInv, ToldInv, NEW d \in Dispatchers, DispatcherFails(d)
  PROVE  ToldInv'
  <1>1. PICK S : LetGo(d, S)
    BY DEF DispatcherFails
  <1>2. /\ UNCHANGED <<userMessage, attempt, worker, hook>>
        /\ caller' = [caller EXCEPT ![d] =
                        [k \in Keys |-> IF k \in S THEN NoCall ELSE caller[d][k]]]
        /\ Hit(S)
    BY <1>1 DEF LetGo, rows
  <1>3. ASSUME NEW e \in Dispatchers, NEW k \in Keys
        PROVE  caller'[e][k] = caller[e][k] \/ CallTold(caller'[e][k], k, trail')
    <2>1. caller'[e][k] = caller[e][k] \/ caller'[e][k] = NoCall
      BY <1>2 DEF PlanInv, TypeOK
    <2> QED
      BY <2>1, NoCallGood DEF CallTold
  <1>4. Remembers
    BY <1>2, HitOnly DEF Remembers, Keeps
  <1> QED
    BY <1>2, <1>3, <1>4, ToldKept

(* and those of the callback's handlers. *)
LEMMA HookLookupTold ==
  ASSUME PlanInv, ToldInv, NEW h \in Handlers, NEW k \in Keys, HookLookup(h, k)
  PROVE  ToldInv'
  <1>1. attempt[k].call # "none" /\ UNCHANGED <<userMessage, worker, caller>>
    BY DEF HookLookup
  <1>2. PICK outcome \in Outcome :
          /\ hook' = [hook EXCEPT ![h] = [pc |-> "attempt", key |-> k, outcome |-> outcome]]
          /\ attempt' = [attempt EXCEPT ![k] = [attempt[k] EXCEPT !.call = outcome]]
          /\ trail' = [trail EXCEPT ![k].told = @ \cup {outcome}]
    BY DEF HookLookup
  <1> DEFINE x == [pc |-> "attempt", key |-> k, outcome |-> outcome]
             new == [attempt[k] EXCEPT !.call = outcome]
  <1>3. attempt[k] \in Attempt /\ trail \in [Keys -> Trail] /\ Counted(attempt[k], trail[k])
    BY DEF PlanInv, TypeOK, TakenUp
  <1>4. new.status = attempt[k].status /\ new.status # "absent" /\ Exists(k)
    BY <1>1, <1>3 DEF Attempt, Counted, Exists
  <1>5. x \in Hook /\ x.pc = "attempt" /\ x.key = k /\ x.outcome = outcome
    BY DEF Hook, HookPc
  <1>6. hook' = [hook EXCEPT ![h] = x] /\ attempt' = [attempt EXCEPT ![k] = new]
    BY <1>2
  <1> HIDE DEF x, new
  <1>7. /\ trail'[k].told = trail[k].told \cup {outcome}
        /\ \A j \in Keys \ {k} : trail'[j] = trail[j]
    BY <1>2, <1>3 DEF Trail
  <1>8. HookTold(x, trail')
    BY <1>5, <1>7 DEF HookTold, Known
  <1>9. \A g \in Handlers : hook'[g] = hook[g] \/ HookTold(hook'[g], trail')
    BY <1>5, <1>6, <1>8, HookMove
  <1>10. \A j \in Keys : trail[j].told \subseteq trail'[j].told
    BY <1>7
  <1> QED
    BY <1>1, <1>4, <1>6, <1>9, <1>10, DispatchTold

LEMMA HookAttemptTold ==
  ASSUME PlanInv, ToldInv, NEW h \in Handlers, HookAttempt(h)
  PROVE  ToldInv'
  <1> DEFINE k == hook[h].key
             x == [hook[h] EXCEPT !.pc = "user"]
             new == [attempt[k] EXCEPT !.status = hook[h].outcome]
  <1>1. /\ hook[h].pc = "attempt"
        /\ attempt' = [attempt EXCEPT ![k] = new]
        /\ trail' = [trail EXCEPT ![k].disturbed = @ \/ \E d \in Dispatchers : k \in Held(d)]
        /\ hook' = [hook EXCEPT ![h] = x]
        /\ UNCHANGED <<userMessage, worker, caller>>
    BY DEF HookAttempt
  <1>2. /\ hook[h] \in Hook /\ k \in Keys /\ hook[h].outcome \in Outcome
        /\ Exists(k) /\ attempt[k] \in Attempt
    BY <1>1, HookGoodInHand
  <1>3. \A j \in Keys : trail'[j].told = trail[j].told
    <2>1. trail \in [Keys -> Trail]
      BY DEF PlanInv, TypeOK
    <2> QED
      BY <1>1, <1>2, <2>1 DEF Trail
  <1>4. new.status = hook[h].outcome /\ new.status # "absent"
    BY <1>2 DEF Attempt, Outcome
  <1>5. x \in Hook /\ x.pc = "user" /\ x.key = k /\ x.outcome = hook[h].outcome
    BY <1>2 DEF Hook, HookPc
  <1>6. Known(k, hook[h].outcome, trail')
    BY <1>1, <1>2, <1>3 DEF ToldInv, HookTold, Known
  <1> HIDE DEF x, new, k
  <1>7. \A g \in Handlers : hook'[g] = hook[g] \/ HookTold(hook'[g], trail')
    BY <1>1, <1>5, <1>6, HookMove DEF HookTold
  <1> QED
    BY <1>1, <1>2, <1>3, <1>4, <1>6, <1>7, DispatchTold

LEMMA HookRecordTold ==
  ASSUME PlanInv, ToldInv, NEW h \in Handlers, HookUserMessage(h) \/ HookNotification(h)
  PROVE  ToldInv'
  <1> DEFINE k == hook[h].key
             x == IF hook[h].pc = "user" /\ EventBacked(k[1])
                  THEN [hook[h] EXCEPT !.pc = "notification"] ELSE NoHook
  <1>1. /\ hook[h].pc \in {"user", "notification"}
        /\ hook' = [hook EXCEPT ![h] = x]
        /\ UNCHANGED <<attempt, worker, caller, trail>>
    BY DEF HookUserMessage, HookNotification
  <1>2. /\ hook[h] \in Hook /\ k \in Keys /\ hook[h].outcome \in Outcome /\ Exists(k)
    BY <1>1, HookGoodInHand
  <1>3. Known(k, hook[h].outcome, trail')
    BY <1>1 DEF ToldInv, HookTold
  <1>4. /\ x \in Hook
        /\ x.pc # "none" => x.key = k /\ x.outcome = hook[h].outcome
        /\ x.pc = "notification" => EventBacked(k[1])
    <2>1. CASE hook[h].pc = "user" /\ EventBacked(k[1])
      BY <1>2, <2>1 DEF Hook, HookPc
    <2>2. CASE ~(hook[h].pc = "user" /\ EventBacked(k[1]))
      BY <2>2, NoHookGood
    <2> QED
      BY <2>1, <2>2
  <1>5. \/ UNCHANGED userMessage
        \/ userMessage' = [userMessage EXCEPT ![<<k[1], k[2]>>] = hook[h].outcome]
    BY DEF HookUserMessage, HookNotification
  <1> HIDE DEF x, k
  <1>6. \A g \in Handlers : hook'[g] = hook[g] \/ HookTold(hook'[g], trail')
    BY <1>1, <1>3, <1>4, HookMove DEF HookTold
  <1>7. attempt' = [attempt EXCEPT ![k] = attempt[k]] /\ attempt[k].status # "absent"
    BY <1>1, <1>2, AttemptSame DEF Exists
  <1> QED
    BY <1>1, <1>2, <1>3, <1>5, <1>6, <1>7, DispatchTold

LEMMA HookFailsTold ==
  ASSUME PlanInv, ToldInv, NEW h \in Handlers, HookFails(h)
  PROVE  ToldInv'
  <1>1. /\ UNCHANGED <<userMessage, attempt, worker, caller>>
        /\ hook' = [hook EXCEPT ![h] = NoHook]
        /\ Hit({hook[h].key})
    BY DEF HookFails, rows
  <1>2. \A g \in Handlers : hook'[g] = hook[g] \/ HookTold(hook'[g], trail')
    BY <1>1, NoHookGood, HookMove DEF HookTold
  <1>3. Remembers
    BY <1>1, HitOnly DEF Remembers, Keeps
  <1> QED
    BY <1>1, <1>2, <1>3, ToldKept

LEMMA ToldInit == Init => ToldInv
  <1> SUFFICES ASSUME Init PROVE ToldInv
    OBVIOUS
  <1>1. ASSUME NEW k \in Keys PROVE AttemptTold(k, attempt[k], trail)
    BY DEF Init, AttemptTold, Row, Outcome
  <1>2. ASSUME NEW d \in Dispatchers, NEW k \in Keys PROVE CallTold(caller[d][k], k, trail)
    BY NoCallGood DEF Init, CallTold
  <1>3. ASSUME NEW h \in Handlers PROVE HookTold(hook[h], trail)
    BY NoHookGood DEF Init, HookTold
  <1>4. ASSUME NEW w \in Workers PROVE WorkerTold(worker[w], attempt, trail)
    BY DEF Init, Idle, WorkerTold, PerUser
  <1>5. ASSUME NEW m \in Messages, NEW u \in Users
        PROVE  RowTold(m, u, userMessage[<<m, u>>], attempt, trail)
    BY DEF Init, RowTold
  <1> QED
    BY <1>1, <1>2, <1>3, <1>4, <1>5 DEF ToldInv

LEMMA ToldNext == PlanInv /\ ToldInv /\ [Next]_vars => ToldInv'
  <1> SUFFICES ASSUME PlanInv, ToldInv, [Next]_vars PROVE ToldInv'
    OBVIOUS
  <1>1. CASE \E m \in Messages : Publish(m) \/ Republish(m)
    <2>1. UNCHANGED <<userMessage, attempt, worker, caller, hook, trail>>
      BY <1>1 DEF Publish, Republish, rows, dispatch
    <2> QED
      BY <2>1 DEF ToldInv
  <1>2. ASSUME NEW w \in Workers,
               Take(w) \/ Abandon(w) \/ \E m \in Messages : AutoClaimInWork(w, m)
        PROVE  ToldInv'
    BY <1>2, TakeTold, AbandonTold DEF Take
  <1>3. ASSUME NEW w \in Workers, Step(w) PROVE ToldInv'
    <2>1. CASE \E u \in Users : CreateUserMessage(w, u)
      BY <2>1, RecipientTold
    <2>2. CASE \/ \E c \in Channels : EnsureNotification(w, c) \/ CreateWithoutEvent(w, c)
               \/ TouchLastMessage(w)
      BY <2>2, ChannelTold
    <2>3. CASE ListExisting(w) \/ ListAttempts(w) \/ CreateAttempt(w)
      BY <2>3, ExistingTold, ListTold, CreateTold
    <2>4. CASE UpdateDestination(w) \/ FailAttempt(w) \/ FailNotification(w)
      BY <2>4, DestinationTold, FailTold, FailNoteTold
    <2>5. CASE Summary(w) \/ MarkProcessed(w) \/ Ack(w)
      BY <2>5, SummaryTold, MarkTold, AckTold
    <2> QED
      BY <1>3, <2>1, <2>2, <2>3, <2>4, <2>5 DEF Step
  <1>4. ASSUME NEW d \in Dispatchers, DispatcherFails(d) \/ \E k \in Keys : Call(d, k)
        PROVE  ToldInv'
    BY <1>4, DispatcherFailsTold, CallsTold
  <1>5. ASSUME NEW k \in Keys, LeaseExpires(k) PROVE ToldInv'
    BY <1>5, LeaseExpiresTold
  <1>6. ASSUME NEW h \in Handlers,
               Handle(h) \/ HookFails(h) \/ \E k \in Keys : HookLookup(h, k)
        PROVE  ToldInv'
    BY <1>6, HookLookupTold, HookAttemptTold, HookRecordTold, HookFailsTold DEF Handle
  <1>7. CASE UNCHANGED vars
    BY <1>7 DEF vars, ToldInv
  <1> QED
    BY <1>1, <1>2, <1>3, <1>4, <1>5, <1>6, <1>7 DEF Next

LEMMA ToldInvariance == Spec => []ToldInv
  BY Invariance, ToldInit, ToldNext, PTL DEF Spec

(* The writers of users_messages.status, a worker's summary, dispatchers   *)
(* that may be late and the callback's handlers, none of which looks at    *)
(* what is there: whatever the row then claims, an attempt for the         *)
(* recipient was told to have ended so.                                    *)
THEOREM OutcomesTruthful == Spec => []TruthfulOutcome
  <1>1. ToldInv => TruthfulOutcome
    <2> SUFFICES ASSUME ToldInv PROVE TruthfulOutcome
      OBVIOUS
    <2>1. ASSUME NEW p \in Messages \X Users, NEW status,
                 SomeEnded(p[1], p[2], status, attempt, trail)
          PROVE  \E c \in channelsOf[p[1]][p[2]] :
                   \E j \in OfSlot(<<p[1], p[2], c>>) : Told(j, status)
      BY <2>1 DEF SomeEnded, Ended, OfSlot, Exists, Known, Told, Unreachable
    <2>2. ASSUME NEW p \in Messages \X Users
          PROVE  RowTold(p[1], p[2], userMessage[p], attempt, trail)
      <3>1. p = <<p[1], p[2]>> /\ p[1] \in Messages /\ p[2] \in Users
        OBVIOUS
      <3> QED
        BY <3>1 DEF ToldInv
    <2> QED
      BY <2>1, <2>2 DEF TruthfulOutcome, RowTold
  <1> QED
    BY <1>1, ToldInvariance, PTL

-----------------------------------------------------------------------------
(* The steps of dispatchers and callbacks, as the workers see them.        *)

Dispatched ==
  \/ \E d \in Dispatchers : DispatcherFails(d) \/ \E k \in Keys : Call(d, k)
  \/ \E k \in Keys : LeaseExpires(k)
  \/ \E h \in Handlers : Handle(h) \/ HookFails(h) \/ \E k \in Keys : HookLookup(h, k)

(* The attempts about to be queued again. *)
Retried ==
  {k \in Keys : \E d \in Dispatchers :
     caller[d][k].pc = "attempt" /\ caller[d][k].outcome = "queued"}

(* They make and delete no attempt and set no destination, *)
AttemptsBeside ==
  \A k \in Keys : /\ Exists(k)' <=> Exists(k)
                  /\ attempt'[k].destination = attempt[k].destination
                  /\ attempt'[k].status = "queued" => attempt[k].status = "queued" \/ k \in Retried

(* write only outcomes into users_messages and only notifications that are *)
(* there, and an answer that asks for a retry is a fault.                  *)
Beside ==
  /\ UNCHANGED <<processed, worker, takes>>
  /\ AttemptsBeside
  /\ \/ UNCHANGED notification
     \/ \E k \in Keys : \E status \in Answer :
          Exists(k) /\ EventBacked(k[1]) /\ UpdateNotification(NoteOf(k), k[1], status)
  /\ \/ UNCHANGED userMessage
     \/ \E k \in Keys : \E outcome \in Outcome :
          userMessage' = [userMessage EXCEPT ![<<k[1], k[2]>>] = outcome]
  /\ \/ Retried' \subseteq Retried
     \/ \E k \in Keys : Retried' \subseteq Retried \cup {k} /\ faults' = faults + 1

LEMMA ChangedBeside ==
  ASSUME PlanInv, NEW k \in Keys, Exists(k), NEW new, attempt' = [attempt EXCEPT ![k] = new],
         new.status # "absent", new.destination = attempt[k].destination,
         new.status = "queued" => attempt[k].status = "queued" \/ k \in Retried
  PROVE  AttemptsBeside
  BY AttemptTable DEF AttemptsBeside, Exists

LEMMA SameBeside ==
  ASSUME UNCHANGED attempt
  PROVE  AttemptsBeside
  BY DEF AttemptsBeside, Exists

LEMMA RetriedSame ==
  ASSUME UNCHANGED caller
  PROVE  Retried' \subseteq Retried
  BY DEF Retried

LEMMA RetriedMove ==
  ASSUME PlanInv, NEW d \in Dispatchers, NEW k \in Keys, NEW c \in Caller,
         caller' = [caller EXCEPT ![d][k] = c]
  PROVE  /\ Retried' \subseteq Retried \cup {k}
         /\ ~(c.pc = "attempt" /\ c.outcome = "queued") => Retried' \subseteq Retried
  BY CallerMove DEF Retried

LEMMA ClaimBeside ==
  ASSUME PlanInv, NEW d \in Dispatchers, NEW k \in Keys, Claim(d, k)
  PROVE  Beside
  <1> DEFINE new == [attempt[k] EXCEPT !.status = "dispatching", !.leased = TRUE]
             c == [pc |-> "call", dialled |-> attempt[k].destination, outcome |-> None]
  <1>1. /\ attempt' = [attempt EXCEPT ![k] = new] /\ Claimable(k)
        /\ caller' = [caller EXCEPT ![d][k] = c]
        /\ UNCHANGED <<processed, userMessage, notification, worker, takes>>
    BY DEF Claim
  <1>2. attempt[k] \in Attempt
    BY DEF PlanInv, TypeOK
  <1>3. new.status = "dispatching" /\ new.destination = attempt[k].destination /\ Exists(k)
    BY <1>1, <1>2 DEF Attempt, Claimable, Exists
  <1>4. c \in Caller /\ c.pc = "call"
    BY <1>2 DEF Attempt, Caller, CallerPc
  <1> HIDE DEF new, c
  <1>5. AttemptsBeside
    BY <1>1, <1>3, ChangedBeside
  <1>6. Retried' \subseteq Retried
    BY <1>1, <1>4, RetriedMove
  <1> QED
    BY <1>1, <1>5, <1>6 DEF Beside

LEMMA SendBeside ==
  ASSUME PlanInv, NEW d \in Dispatchers, NEW k \in Keys, Send(d, k)
  PROVE  Beside
  <1>1. PICK answer \in Answer :
          /\ IF answer = "queued" THEN Fault ELSE UNCHANGED faults
          /\ caller' = [caller EXCEPT ![d][k] =
               [caller[d][k] EXCEPT !.pc = "attempt", !.outcome = answer]]
    BY DEF Send
  <1> DEFINE c == [caller[d][k] EXCEPT !.pc = "attempt", !.outcome = answer]
  <1>2. /\ caller[d][k].pc = "call"
        /\ UNCHANGED <<processed, userMessage, notification, attempt, worker, takes>>
    BY DEF Send, rows
  <1>3. caller[d][k] \in Caller
    BY <1>2, InHandGood
  <1>4. c \in Caller /\ c.outcome = answer
    BY <1>3 DEF Caller, CallerPc
  <1>5. caller' = [caller EXCEPT ![d][k] = c]
    BY <1>1
  <1> HIDE DEF c
  <1>6. \/ Retried' \subseteq Retried
        \/ Retried' \subseteq Retried \cup {k} /\ faults' = faults + 1
    <2>1. CASE answer = "queued"
      <3>1. faults' = faults + 1
        BY <1>1, <2>1 DEF Fault
      <3> QED
        BY <1>4, <1>5, <3>1, RetriedMove
    <2>2. CASE answer # "queued"
      BY <1>4, <1>5, <2>2, RetriedMove
    <2> QED
      BY <2>1, <2>2
  <1> QED
    BY <1>2, <1>6, SameBeside DEF Beside

LEMMA RequeueBeside ==
  ASSUME PlanInv, NEW d \in Dispatchers, NEW k \in Keys, Requeue(d, k)
  PROVE  Beside
  <1> DEFINE c == IF EventBacked(k[1]) THEN [caller[d][k] EXCEPT !.pc = "notification"] ELSE NoCall
  <1>1. /\ caller[d][k].pc = "attempt" /\ caller[d][k].outcome = "queued"
        /\ UpdateStatus(k, "queued", attempt[k].call)
        /\ caller' = [caller EXCEPT ![d][k] = c]
        /\ UNCHANGED <<processed, userMessage, notification, worker, takes>>
    BY DEF Requeue
  <1>2. Exists(k) /\ attempt[k] \in Attempt /\ caller[d][k] \in Caller
    BY <1>1, InHandGood
  <1>3. PICK new \in Attempt : /\ attempt' = [attempt EXCEPT ![k] = new] /\ new.status = "queued"
                               /\ new.destination = attempt[k].destination
    <2>1. attempt[k].call \in {"none", "live"} \cup Outcome
      BY <1>2 DEF Attempt
    <2>2. "queued" \in AttemptStatus \ {"absent"}
      BY DEF AttemptStatus
    <2> QED
      BY <1>1, <2>1, <2>2, UpdateStatusType
  <1>4. c \in Caller /\ c.pc # "attempt"
    <2>1. CASE EventBacked(k[1])
      BY <1>2, <2>1 DEF Caller, CallerPc
    <2>2. CASE ~EventBacked(k[1])
      BY <2>2, NoCallGood
    <2> QED
      BY <2>1, <2>2
  <1> HIDE DEF c
  <1>5. k \in Retried
    BY <1>1 DEF Retried
  <1>6. AttemptsBeside
    BY <1>2, <1>3, <1>5, ChangedBeside
  <1>7. Retried' \subseteq Retried
    BY <1>1, <1>4, RetriedMove
  <1> QED
    BY <1>1, <1>6, <1>7 DEF Beside

LEMMA RecordBeside ==
  ASSUME PlanInv, ToldInv, NEW d \in Dispatchers, NEW k \in Keys,
         RecordAttempt(d, k) \/ RecordUserMessage(d, k) \/ RecordNotification(d, k)
  PROVE  Beside
  <1> DEFINE x == caller[d][k]
             call == IF x.outcome = "sent" THEN "live" ELSE "none"
             c == IF x.pc = "attempt" THEN [x EXCEPT !.pc = "user"]
                  ELSE IF x.pc = "user" /\ EventBacked(k[1]) THEN [x EXCEPT !.pc = "notification"]
                  ELSE NoCall
  <1>1. /\ x.pc \in {"attempt", "user", "notification"}
        /\ caller' = [caller EXCEPT ![d][k] = c]
        /\ UNCHANGED <<processed, worker, takes>>
    BY DEF RecordAttempt, RecordUserMessage, RecordNotification
  <1>2. /\ Exists(k) /\ x \in Caller /\ attempt[k] \in Attempt
        /\ x.pc = "user" => x.outcome \in Outcome
        /\ x.pc = "notification" => x.outcome \in Answer /\ EventBacked(k[1])
    BY <1>1, InHandGood DEF ToldInv, CallTold
  <1>3. c \in Caller /\ c.pc # "attempt"
    <2>1. CASE c = NoCall
      BY <2>1, NoCallGood
    <2>2. CASE c # NoCall
      <3>1. c = [x EXCEPT !.pc = "user"] \/ c = [x EXCEPT !.pc = "notification"]
        BY <2>2
      <3> HIDE DEF c
      <3> QED
        BY <1>2, <3>1 DEF Caller, CallerPc
    <2> QED
      BY <2>1, <2>2
  <1> HIDE DEF c
  <1>4. Retried' \subseteq Retried
    BY <1>1, <1>3, RetriedMove, ZenonT(40)
  <1>5. CASE RecordAttempt(d, k)
    <2>1. /\ x.outcome \in Outcome /\ UpdateStatus(k, x.outcome, call)
          /\ UNCHANGED <<userMessage, notification>>
      BY <1>5 DEF RecordAttempt
    <2>2. call \in {"none", "live"} \cup Outcome
      OBVIOUS
    <2>3. x.outcome \in AttemptStatus \ {"absent"}
      BY <2>1 DEF AttemptStatus, Outcome
    <2> HIDE DEF call
    <2>4. PICK new \in Attempt :
            /\ attempt' = [attempt EXCEPT ![k] = new] /\ new.status = x.outcome
            /\ new.destination = attempt[k].destination
      BY <2>1, <2>2, <2>3, UpdateStatusType
    <2>5. AttemptsBeside
      BY <1>2, <2>1, <2>4, ChangedBeside DEF Outcome
    <2> QED
      BY <1>1, <1>4, <2>1, <2>5 DEF Beside
  <1>6. CASE RecordUserMessage(d, k)
    <2>1. /\ x.pc = "user" /\ UNCHANGED <<attempt, notification>>
          /\ userMessage' = [userMessage EXCEPT ![<<k[1], k[2]>>] = x.outcome]
      BY <1>6 DEF RecordUserMessage
    <2> QED
      BY <1>1, <1>2, <1>4, <2>1, SameBeside DEF Beside
  <1>7. CASE RecordNotification(d, k)
    <2>1. /\ x.pc = "notification" /\ UNCHANGED <<attempt, userMessage>>
          /\ UpdateNotification(NoteOf(k), k[1], x.outcome)
      BY <1>7 DEF RecordNotification
    <2> QED
      BY <1>1, <1>2, <1>4, <2>1, SameBeside DEF Beside
  <1> QED
    BY <1>5, <1>6, <1>7

LEMMA LeaseBeside ==
  ASSUME PlanInv, NEW k \in Keys, LeaseExpires(k)
  PROVE  Beside
  <1> DEFINE new == [attempt[k] EXCEPT !.leased = FALSE]
  <1>1. /\ attempt[k].status = "dispatching" /\ attempt' = [attempt EXCEPT ![k] = new]
        /\ UNCHANGED <<processed, userMessage, notification, worker, caller, takes>>
    BY DEF LeaseExpires
  <1>2. attempt[k] \in Attempt
    BY DEF PlanInv, TypeOK
  <1>3. new.status = "dispatching" /\ new.destination = attempt[k].destination /\ Exists(k)
    BY <1>1, <1>2 DEF Attempt, Exists
  <1> HIDE DEF new
  <1>4. AttemptsBeside
    BY <1>1, <1>3, ChangedBeside
  <1> QED
    BY <1>1, <1>4, RetriedSame DEF Beside

LEMMA FailsBeside ==
  ASSUME PlanInv, NEW d \in Dispatchers, DispatcherFails(d)
  PROVE  Beside
  <1>1. PICK S : LetGo(d, S)
    BY DEF DispatcherFails
  <1>2. /\ UNCHANGED <<processed, userMessage, notification, attempt, worker, takes>>
        /\ caller' = [caller EXCEPT ![d] =
                        [k \in Keys |-> IF k \in S THEN NoCall ELSE caller[d][k]]]
    BY <1>1 DEF LetGo, rows
  <1>3. ASSUME NEW e \in Dispatchers, NEW k \in Keys
        PROVE  caller'[e][k] = caller[e][k] \/ caller'[e][k].pc = "none"
    <2>1. caller'[e][k] = caller[e][k] \/ caller'[e][k] = NoCall
      BY <1>2 DEF PlanInv, TypeOK
    <2> QED
      BY <2>1, NoCallGood
  <1>4. Retried' \subseteq Retried
    BY <1>3 DEF Retried
  <1> QED
    BY <1>2, <1>4, SameBeside DEF Beside

LEMMA HookBeside ==
  ASSUME PlanInv, ToldInv, NEW h \in Handlers,
         Handle(h) \/ HookFails(h) \/ \E k \in Keys : HookLookup(h, k)
  PROVE  Beside
  <1> DEFINE k == hook[h].key
  <1>1. UNCHANGED <<processed, worker, caller, takes>>
    BY DEF Handle, HookFails, HookLookup, HookAttempt, HookUserMessage, HookNotification, rows
  <1>2. CASE \E j \in Keys : HookLookup(h, j)
    <2>1. PICK j \in Keys : HookLookup(h, j)
      BY <1>2
    <2>2. /\ attempt[j].call # "none" /\ UNCHANGED <<userMessage, notification>>
          /\ \E outcome \in Outcome :
               attempt' = [attempt EXCEPT ![j] = [attempt[j] EXCEPT !.call = outcome]]
      BY <2>1 DEF HookLookup
    <2>3. PICK outcome \in Outcome :
            attempt' = [attempt EXCEPT ![j] = [attempt[j] EXCEPT !.call = outcome]]
      BY <2>2
    <2> DEFINE new == [attempt[j] EXCEPT !.call = outcome]
    <2>4. attempt[j] \in Attempt /\ Counted(attempt[j], trail[j])
      BY DEF PlanInv, TypeOK, TakenUp
    <2>5. /\ new.status = attempt[j].status /\ new.destination = attempt[j].destination
          /\ Exists(j)
      BY <2>2, <2>4 DEF Attempt, Counted, Exists
    <2> HIDE DEF new
    <2>6. AttemptsBeside
      BY <2>3, <2>5, ChangedBeside DEF new, Exists
    <2> QED
      BY <1>1, <2>2, <2>6, RetriedSame DEF Beside
  <1>3. CASE HookAttempt(h)
    <2> DEFINE new == [attempt[k] EXCEPT !.status = hook[h].outcome]
    <2>1. /\ hook[h].pc = "attempt" /\ attempt' = [attempt EXCEPT ![k] = new]
          /\ UNCHANGED <<userMessage, notification>>
      BY <1>3 DEF HookAttempt
    <2>2. k \in Keys /\ hook[h].outcome \in Outcome /\ Exists(k) /\ attempt[k] \in Attempt
      BY <2>1, HookGoodInHand
    <2>3. new.status = hook[h].outcome /\ new.destination = attempt[k].destination
      BY <2>2 DEF Attempt
    <2> HIDE DEF new, k
    <2>4. AttemptsBeside
      BY <2>1, <2>2, <2>3, ChangedBeside DEF Outcome
    <2> QED
      BY <1>1, <2>1, <2>4, RetriedSame DEF Beside
  <1>4. CASE HookUserMessage(h)
    <2>1. /\ hook[h].pc = "user" /\ UNCHANGED <<attempt, notification>>
          /\ userMessage' = [userMessage EXCEPT ![<<k[1], k[2]>>] = hook[h].outcome]
      BY <1>4 DEF HookUserMessage
    <2>2. k \in Keys /\ hook[h].outcome \in Outcome
      BY <2>1, HookGoodInHand
    <2> QED
      BY <1>1, <2>1, <2>2, RetriedSame, SameBeside DEF Beside
  <1>5. CASE HookNotification(h)
    <2>1. /\ hook[h].pc = "notification" /\ UNCHANGED <<attempt, userMessage>>
          /\ UpdateNotification(NoteOf(k), k[1], hook[h].outcome)
      BY <1>5 DEF HookNotification
    <2>2. /\ k \in Keys /\ hook[h].outcome \in Answer /\ Exists(k) /\ EventBacked(k[1])
      BY <2>1, HookGoodInHand DEF Answer, ToldInv, HookTold
    <2> QED
      BY <1>1, <2>1, <2>2, RetriedSame, SameBeside DEF Beside
  <1>6. CASE HookFails(h)
    <2>1. UNCHANGED <<attempt, userMessage, notification>>
      BY <1>6 DEF HookFails, rows
    <2> QED
      BY <1>1, <2>1, RetriedSame, SameBeside DEF Beside
  <1> QED
    BY <1>2, <1>3, <1>4, <1>5, <1>6 DEF Handle

LEMMA DispatchedBeside == PlanInv /\ ToldInv /\ Dispatched => Beside
  BY ClaimBeside, SendBeside, RequeueBeside, RecordBeside, LeaseBeside, FailsBeside, HookBeside
  DEF Dispatched, Call

-----------------------------------------------------------------------------
(* The span of a notification.                                             *)

(* The notification of event, user and channel reaches up to m, *)
Covered(m, u, c, tab) ==
  LET n == tab[<<eventOf[m], u, c>>] IN n.first # None /\ n.last # None /\ n.last >= m

(* or a worker still has the recipient, the channel or its touch before it. *)
Uncovered(r, u, c) ==
  \/ u \in r.users
  \/ /\ r.pc \in PerUser
     /\ u = r.user
     /\ c \in r.chans \/ (r.pc = "touch" /\ c = r.chan)

SpanFor(r, tab) ==
  r.pc # "idle" /\ EventBacked(r.msg) =>
    /\ r.pc \in PerChannel => tab[<<eventOf[r.msg], r.user, r.chan>>].first # None
    /\ \A u \in Users : \A c \in channelsOf[r.msg][u] :
         Covered(r.msg, u, c, tab) \/ Uncovered(r, u, c)

(* Some statements are only reached with an event, or without. *)
WithEvent(r) ==
  /\ r.pc \in {"touch", "list", "failNotification"} => EventBacked(r.msg)
  /\ r.pc = "existing" => ~EventBacked(r.msg)

WorkersSpan == \A w \in Workers : SpanFor(worker[w], notification) /\ WithEvent(worker[w])

(* Every attempt of an event has its notification. *)
Noted ==
  \A k \in Keys : EventBacked(k[1]) /\ Exists(k) => notification[NoteOf(k)].first # None

SpanInv ==
  /\ WorkersSpan
  /\ Noted
  /\ \A n \in Notes : notification[n].first # None =>
       notification[n].last # None /\ notification[n].last >= notification[n].first
  /\ \A k \in Keys : EventBacked(k[1]) /\ processed[k[1]] =>
       Covered(k[1], k[2], k[3], notification)

(* No statement makes a span smaller. *)
Grows(old, new) ==
  /\ old.first # None =>
       new.first = old.first /\ new.last # None /\ (old.last # None => new.last >= old.last)
  /\ new.first # None => new.last # None /\ new.last >= new.first

NotesGrow == \A n \in Notes : Grows(notification[n], notification'[n])

LEMMA NoteTypes ==
  ASSUME PlanInv, NEW n \in Notes
  PROVE  /\ notification[n] \in Notification
         /\ notification[n].first \in Messages \cup {None}
         /\ notification[n].last \in Messages \cup {None}
  BY DEF PlanInv, TypeOK, Notes, Notification

LEMMA CoveredStays ==
  ASSUME PlanInv, PlanInv', NotesGrow, NEW m \in Messages, NEW u \in Users, NEW c \in Channels,
         EventBacked(m), Covered(m, u, c, notification)
  PROVE  Covered(m, u, c, notification')
  <1> DEFINE n == <<eventOf[m], u, c>>
  <1>1. n \in Notes
    BY EventNote
  <1>2. /\ notification[n].last \in Messages \cup {None}
        /\ notification'[n].last \in Messages \cup {None}
    <2>1. (notification[n].last \in Messages \cup {None})'
      BY <1>1 DEF PlanInv, TypeOK, Notes, Notification
    <2> QED
      BY <1>1, <2>1, NoteTypes
  <1>3. /\ notification[n].first # None /\ notification[n].last # None
        /\ notification[n].last >= m
    BY DEF Covered
  <1>4. /\ notification'[n].first # None /\ notification'[n].last # None
        /\ notification'[n].last >= notification[n].last
    BY <1>1, <1>3 DEF NotesGrow, Grows
  <1>5. /\ notification'[n].last \in Nat /\ notification[n].last \in Nat /\ m \in Nat
    BY <1>2, <1>3, <1>4, ConstantsAssumption
  <1> HIDE DEF n
  <1>6. notification'[n].last >= m
    BY <1>3, <1>4, <1>5
  <1> QED
    BY <1>4, <1>6 DEF Covered, n

LEMMA SameNotes ==
  ASSUME PlanInv, SpanInv, notification' = notification
  PROVE  NotesGrow
  <1> SUFFICES ASSUME NEW n \in Notes
               PROVE  Grows(notification[n], notification[n])
    BY DEF NotesGrow
  <1>1. /\ notification[n].first # None =>
             notification[n].last # None /\ notification[n].last >= notification[n].first
        /\ notification[n].last \in Messages \cup {None}
    BY NoteTypes DEF SpanInv
  <1>2. notification[n].last # None => notification[n].last \in Nat
    BY <1>1, ConstantsAssumption
  <1> QED
    BY <1>1, <1>2 DEF Grows

(* What a worker's record needs stays when the tables grow. *)
LEMMA SpanForStays ==
  ASSUME PlanInv, PlanInv', NotesGrow, NEW w \in Workers, SpanFor(worker[w], notification)
  PROVE  SpanFor(worker[w], notification')
  <1> DEFINE r == worker[w]
  <1> SUFFICES ASSUME r.pc # "idle", EventBacked(r.msg)
               PROVE  /\ r.pc \in PerChannel =>
                           notification'[<<eventOf[r.msg], r.user, r.chan>>].first # None
                      /\ \A u \in Users : \A c \in channelsOf[r.msg][u] :
                           Covered(r.msg, u, c, notification') \/ Uncovered(r, u, c)
    BY DEF SpanFor
  <1>1. r.msg \in Messages
    BY Record
  <1>2. ASSUME r.pc \in PerChannel
        PROVE  notification'[<<eventOf[r.msg], r.user, r.chan>>].first # None
    <2>1. r.user \in Users /\ r.chan \in Channels
      BY <1>2, KeyInHand DEF PlanInv
    <2>2. <<eventOf[r.msg], r.user, r.chan>> \in Notes
      BY <1>1, <2>1, EventNote
    <2> QED
      BY <1>2, <2>2 DEF SpanFor, NotesGrow, Grows
  <1>3. ASSUME NEW u \in Users, NEW c \in channelsOf[r.msg][u]
        PROVE  Covered(r.msg, u, c, notification') \/ Uncovered(r, u, c)
    <2>1. c \in Channels
      BY <1>1, MatchedChannels
    <2>2. Covered(r.msg, u, c, notification) \/ Uncovered(r, u, c)
      BY DEF SpanFor
    <2> QED
      BY <1>1, <2>1, <2>2, CoveredStays
  <1> QED
    BY <1>2, <1>3

LEMMA SpanKept ==
  ASSUME PlanInv, PlanInv', SpanInv, NotesGrow,
         \A k \in Keys : EventBacked(k[1]) /\ Exists(k)' =>
           Exists(k) \/ notification'[NoteOf(k)].first # None,
         \A k \in Keys : EventBacked(k[1]) /\ processed'[k[1]] =>
           processed[k[1]] \/ Covered(k[1], k[2], k[3], notification'),
         \A w \in Workers :
           \/ worker'[w] = worker[w]
           \/ SpanFor(worker'[w], notification') /\ WithEvent(worker'[w])
  PROVE  SpanInv'
  <1>1. WorkersSpan'
    <2> SUFFICES ASSUME NEW w \in Workers
                 PROVE  SpanFor(worker'[w], notification') /\ WithEvent(worker'[w])
      BY DEF WorkersSpan
    <2>1. SpanFor(worker[w], notification) /\ WithEvent(worker[w])
      BY DEF SpanInv, WorkersSpan
    <2> QED
      BY <2>1, SpanForStays
  <1>2. Noted'
    <2> SUFFICES ASSUME NEW k \in Keys, EventBacked(k[1]), Exists(k)'
                 PROVE  notification'[NoteOf(k)].first # None
      BY DEF Noted, NoteOf, EventBacked
    <2>1. CASE Exists(k)
      BY <2>1, KeyParts DEF SpanInv, Noted, NotesGrow, Grows
    <2> QED
      BY <2>1
  <1>3. \A n \in Notes : notification'[n].first # None =>
          notification'[n].last # None /\ notification'[n].last >= notification'[n].first
    BY DEF NotesGrow, Grows
  <1>4. ASSUME NEW k \in Keys, EventBacked(k[1]), processed'[k[1]]
        PROVE  Covered(k[1], k[2], k[3], notification')
    <2>1. CASE processed[k[1]]
      <3>1. Covered(k[1], k[2], k[3], notification)
        BY <1>4, <2>1 DEF SpanInv
      <3> QED
        BY <1>4, <3>1, KeyParts, CoveredStays
    <2> QED
      BY <1>4, <2>1
  <1> QED
    BY <1>1, <1>2, <1>3, <1>4 DEF SpanInv, EventBacked

(* A worker stays on course as long as it leaves nothing behind uncovered. *)
LEMMA SpanOn ==
  ASSUME PlanInv, PlanInv', SpanInv, NotesGrow, NEW w \in Workers, worker[w].pc # "idle",
         worker'[w].msg = worker[w].msg,
         EventBacked(worker[w].msg) /\ worker'[w].pc \in PerChannel =>
           notification'[<<eventOf[worker[w].msg], worker'[w].user, worker'[w].chan>>].first # None,
         EventBacked(worker[w].msg) =>
           \A u \in Users : \A c \in channelsOf[worker[w].msg][u] :
             Uncovered(worker[w], u, c) =>
               Uncovered(worker'[w], u, c) \/ Covered(worker[w].msg, u, c, notification')
  PROVE  SpanFor(worker'[w], notification')
  <1>1. SpanFor(worker[w], notification')
    BY SpanForStays DEF SpanInv, WorkersSpan
  <1> QED
    BY <1>1 DEF SpanFor

(* GREATEST(last_message_id, m) *)
LEMMA TouchGrows ==
  ASSUME PlanInv, SpanInv, NEW n \in Notes, notification[n].first # None,
         NEW m \in Messages, NEW new, new.first = notification[n].first,
         new.last = Newer(notification[n].last, m),
         notification' = [notification EXCEPT ![n] = new]
  PROVE  /\ NotesGrow
         /\ notification'[n].first # None /\ notification'[n].last # None
         /\ notification'[n].last >= m
  <1>1. /\ notification'[n] = new
        /\ \A x \in Notes \ {n} : notification'[x] = notification[x]
    BY DEF PlanInv, TypeOK, Notes
  <1>2. /\ notification[n].last # None /\ notification[n].last >= notification[n].first
        /\ notification[n].last \in Nat /\ notification[n].first \in Nat /\ m \in Nat
    BY NoteTypes, ConstantsAssumption DEF SpanInv
  <1>3. /\ new.last \in Nat /\ new.last >= notification[n].last /\ new.last >= m
        /\ new.last >= new.first
    BY <1>2 DEF Newer
  <1>4. new.last # None
    BY <1>2, ConstantsAssumption, NoteTypes DEF Newer, SpanInv
  <1>5. Grows(notification[n], new)
    BY <1>2, <1>3, <1>4 DEF Grows
  <1>6. ASSUME NEW x \in Notes \ {n}
        PROVE  Grows(notification[x], notification[x])
    <2>1. /\ notification[x].first # None =>
               notification[x].last # None /\ notification[x].last >= notification[x].first
          /\ notification[x].last \in Messages \cup {None}
      BY NoteTypes DEF SpanInv
    <2>2. notification[x].last # None => notification[x].last \in Nat
      BY <2>1, ConstantsAssumption
    <2> QED
      BY <2>1, <2>2 DEF Grows
  <1> QED
    BY <1>1, <1>3, <1>4, <1>5, <1>6 DEF NotesGrow

(* The steps that leave notifications and attempts alone. *)
LEMMA QuietSpan ==
  ASSUME PlanInv, PlanInv', SpanInv, UNCHANGED notification,
         \A k \in Keys : Exists(k)' => Exists(k),
         \A k \in Keys : EventBacked(k[1]) /\ processed'[k[1]] =>
           processed[k[1]] \/ Covered(k[1], k[2], k[3], notification'),
         \A w \in Workers :
           \/ worker'[w] = worker[w]
           \/ SpanFor(worker'[w], notification') /\ WithEvent(worker'[w])
  PROVE  SpanInv'
  BY SameNotes, SpanKept

LEMMA TakeSpan ==
  ASSUME PlanInv, PlanInv', SpanInv, NEW w \in Workers, NEW m \in Messages,
         ReadGroup(w, m) \/ AutoClaim(w, m) \/ AutoClaimInWork(w, m)
  PROVE  SpanInv'
  <1>1. Begin(w, m) /\ UNCHANGED <<processed, notification, attempt>>
    BY DEF ReadGroup, AutoClaim, AutoClaimInWork, rows
  <1>2. /\ Others(w) /\ worker'[w].msg = m /\ worker'[w].users = Matched(m)
        /\ worker'[w].pc \in {"processed", "users"}
    BY <1>1, BeginMoves
  <1>3. SpanFor(worker'[w], notification') /\ WithEvent(worker'[w])
    BY <1>2 DEF SpanFor, WithEvent, PerChannel, Uncovered, Matched
  <1> QED
    BY <1>1, <1>2, <1>3, QuietSpan DEF Others, Exists

LEMMA RestSpan ==
  ASSUME PlanInv, PlanInv', SpanInv, NEW w \in Workers, Abandon(w) \/ Ack(w)
  PROVE  SpanInv'
  <1>1. worker' = [worker EXCEPT ![w] = Idle] /\ UNCHANGED <<processed, notification, attempt>>
    BY DEF Abandon, Ack, rows
  <1>2. Others(w) /\ worker'[w].pc = "idle"
    BY <1>1, RestMoves
  <1>3. SpanFor(worker'[w], notification') /\ WithEvent(worker'[w])
    BY <1>2 DEF SpanFor, WithEvent
  <1> QED
    BY <1>1, <1>2, <1>3, QuietSpan DEF Others, Exists

LEMMA RecipientSpan ==
  ASSUME PlanInv, PlanInv', SpanInv, NEW w \in Workers,
         (\E u \in Users : CreateUserMessage(w, u)) \/ ListExisting(w) \/ Summary(w)
  PROVE  SpanInv'
  <1>1. UNCHANGED <<processed, notification, attempt>>
    BY DEF CreateUserMessage, ListExisting, Summary, rows
  <1>2. NotesGrow
    BY <1>1, SameNotes
  <1>3. ASSUME NEW u \in Users, CreateUserMessage(w, u)
        PROVE  Others(w) /\ SpanFor(worker'[w], notification') /\ WithEvent(worker'[w])
    <2>1. SpanFor(worker'[w], notification')
      <3>1. ASSUME NEW v \in Users, NEW c \in channelsOf[worker[w].msg][v],
                   Uncovered(worker[w], v, c), EventBacked(worker[w].msg)
            PROVE  Uncovered(worker'[w], v, c)
        BY <1>3, <3>1, TakeUserMoves DEF Uncovered, PerUser
      <3>2. /\ worker[w].pc # "idle" /\ worker'[w].msg = worker[w].msg
            /\ worker'[w].pc \notin PerChannel
        BY <1>3, TakeUserMoves DEF PerChannel
      <3> QED
        BY <1>2, <3>1, <3>2, SpanOn
    <2>2. WithEvent(worker'[w])
      BY <1>3, TakeUserMoves DEF WithEvent
    <2> QED
      BY <1>3, <2>1, <2>2, TakeUserMoves
  <1>4. CASE ListExisting(w)
    <2>1. ~EventBacked(worker[w].msg)
      BY <1>4, ExistingMoves DEF SpanInv, WorkersSpan, WithEvent
    <2>2. SpanFor(worker'[w], notification') /\ WithEvent(worker'[w])
      BY <1>4, <2>1, ExistingMoves DEF SameJob, SpanFor, WithEvent
    <2> QED
      BY <1>1, <1>4, <2>2, ExistingMoves, QuietSpan DEF SameJob, Others, Exists
  <1>5. CASE Summary(w)
    <2>1. SpanFor(worker'[w], notification')
      BY <1>2, <1>5, SummaryMoves, SpanOn DEF SameJob, Uncovered, PerUser, PerChannel
    <2>2. WithEvent(worker'[w])
      BY <1>5, SummaryMoves DEF WithEvent
    <2> QED
      BY <1>1, <1>5, <2>1, <2>2, SummaryMoves, QuietSpan DEF SameJob, Others, Exists
  <1>6. CASE \E u \in Users : CreateUserMessage(w, u)
    BY <1>1, <1>3, <1>6, QuietSpan DEF Others, Exists
  <1> QED
    BY <1>4, <1>5, <1>6

(* A channel is turned to: its notification is new and so reaches up to    *)
(* the message, or it is there and to be touched.                          *)
LEMMA EnsureSpan ==
  ASSUME PlanInv, PlanInv', SpanInv, NEW w \in Workers, NEW c \in Channels,
         EnsureNotification(w, c)
  PROVE  SpanInv'
  <1> DEFINE r == worker[w]
             n == NotificationOf(w, c)
             pc == IF notification[n].first = None THEN "list" ELSE "touch"
             made == [first |-> r.msg, last |-> r.msg, status |-> "queued"]
             new == IF notification[n].first = None THEN made ELSE notification[n]
  <1>1. /\ r.pc = "channels" /\ c \in r.chans /\ EventBacked(r.msg)
        /\ worker' = [worker EXCEPT ![w] =
             [r EXCEPT !.pc = pc, !.chans = r.chans \ {c}, !.chan = c]]
        /\ notification' = [notification EXCEPT ![n] = new]
        /\ UNCHANGED <<processed, attempt>>
    BY DEF EnsureNotification
  <1>2. r.msg \in Messages /\ r.user \in Users /\ r.msg # None /\ r.msg \in Nat
    BY <1>1, Record, ConstantsAssumption DEF PerUser
  <1>3. n = <<eventOf[r.msg], r.user, c>> /\ n \in Notes
    BY <1>1, <1>2, EventNote DEF NotificationOf
  <1>4. made.first = r.msg /\ made.last = r.msg
    OBVIOUS
  <1> HIDE DEF made
  <1>5. pc \in {"list", "touch"} /\ (pc # "touch" => notification[n].first = None)
    OBVIOUS
  <1>6. /\ SameJob(w) /\ worker'[w].pc = pc
        /\ worker'[w].user = r.user /\ worker'[w].chans = r.chans \ {c} /\ worker'[w].chan = c
    <2> HIDE DEF pc
    <2> QED
      BY <1>1, TakeChannelMoves, ZenonT(40)
  <1>7. /\ notification'[n] = new
        /\ \A x \in Notes \ {n} : notification'[x] = notification[x]
    <2> HIDE DEF new, n
    <2> QED
      BY <1>1, <1>3 DEF PlanInv, TypeOK, Notes
  <1> HIDE DEF pc
  <1>8. ASSUME NEW x \in Notes
        PROVE  Grows(notification[x], notification[x])
    <2>1. /\ notification[x].first # None =>
               notification[x].last # None /\ notification[x].last >= notification[x].first
          /\ notification[x].last \in Messages \cup {None}
      BY NoteTypes DEF SpanInv
    <2>2. notification[x].last # None => notification[x].last \in Nat
      BY <2>1, ConstantsAssumption
    <2> QED
      BY <2>1, <2>2 DEF Grows
  <1>9. Grows(notification[n], new) /\ new.first # None
    <2>1. CASE notification[n].first = None
      BY <1>2, <1>4, <2>1 DEF Grows
    <2>2. CASE notification[n].first # None
      BY <1>3, <1>8, <2>2
    <2> QED
      BY <2>1, <2>2
  <1>10. NotesGrow
    BY <1>7, <1>8, <1>9 DEF NotesGrow
  <1>11. notification[n].first = None => Covered(r.msg, r.user, c, notification')
    BY <1>2, <1>3, <1>4, <1>7 DEF Covered
  <1>12. notification'[<<eventOf[r.msg], worker'[w].user, worker'[w].chan>>].first # None
    BY <1>3, <1>6, <1>7, <1>9
  <1>13. ASSUME NEW u \in Users, NEW d \in channelsOf[r.msg][u], Uncovered(r, u, d)
         PROVE  Uncovered(worker'[w], u, d) \/ Covered(r.msg, u, d, notification')
    <2>1. CASE u \in r.users
      BY <1>6, <2>1 DEF Uncovered, SameJob
    <2>2. CASE u = r.user /\ d \in r.chans /\ d # c
      BY <1>5, <1>6, <2>2 DEF Uncovered, PerUser
    <2>3. CASE u = r.user /\ d = c
      BY <1>5, <1>6, <1>11, <2>3 DEF Uncovered, PerUser
    <2> QED
      BY <1>1, <1>13, <2>1, <2>2, <2>3 DEF Uncovered
  <1>14. SpanFor(worker'[w], notification')
    <2>1. r.pc # "idle" /\ worker'[w].msg = r.msg
      BY <1>1, <1>6 DEF SameJob
    <2> QED
      BY <1>10, <1>12, <1>13, <2>1, SpanOn
  <1>15. WithEvent(worker'[w])
    BY <1>1, <1>5, <1>6 DEF WithEvent, SameJob
  <1>16. \A k \in Keys : Exists(k)' => Exists(k)
    BY <1>1 DEF Exists
  <1> HIDE DEF r, n, new
  <1> QED
    BY <1>1, <1>6, <1>10, <1>14, <1>15, <1>16, SpanKept DEF SameJob, Others

LEMMA TouchSpan ==
  ASSUME PlanInv, PlanInv', SpanInv, NEW w \in Workers, TouchLastMessage(w)
  PROVE  SpanInv'
  <1> DEFINE r == worker[w]
             n == NotificationOf(w, r.chan)
             last == Newer(notification[n].last, r.msg)
             new == [notification[n] EXCEPT !.last = last]
  <1>1. /\ r.pc = "touch" /\ Goto(w, "list")
        /\ notification' = [notification EXCEPT ![n] = new]
        /\ UNCHANGED <<processed, attempt>>
    BY DEF TouchLastMessage
  <1>2. /\ EventBacked(r.msg) /\ r.msg \in Messages /\ r.user \in Users /\ r.chan \in Channels
    BY <1>1, KeyInHand DEF SpanInv, WorkersSpan, WithEvent, PlanInv, PerChannel
  <1>3. n = <<eventOf[r.msg], r.user, r.chan>> /\ n \in Notes
    BY <1>2, EventNote DEF NotificationOf
  <1>4. notification[n].first # None
    BY <1>1, <1>2, <1>3 DEF SpanInv, WorkersSpan, SpanFor, PerChannel
  <1>5. new.first = notification[n].first /\ new.last = last
    <2> HIDE DEF last
    <2> QED
      BY <1>3, NoteTypes DEF Notification
  <1> HIDE DEF new, n
  <1>6. /\ NotesGrow
        /\ notification'[n].first # None /\ notification'[n].last # None
        /\ notification'[n].last >= r.msg
    BY <1>1, <1>2, <1>3, <1>4, <1>5, TouchGrows
  <1>7. SameChannel(w) /\ worker'[w].pc = "list"
    BY <1>1, GotoMoves
  <1>8. ASSUME NEW u \in Users, NEW d \in channelsOf[r.msg][u], Uncovered(r, u, d)
        PROVE  Uncovered(worker'[w], u, d) \/ Covered(r.msg, u, d, notification')
    <2>1. CASE u = r.user /\ d = r.chan
      BY <1>3, <1>6, <2>1 DEF Covered
    <2>2. CASE ~(u = r.user /\ d = r.chan)
      BY <1>7, <1>8, <2>2 DEF Uncovered, PerUser, SameChannel, SameJob
    <2> QED
      BY <2>1, <2>2
  <1>9. SpanFor(worker'[w], notification')
    <2>1. r.pc # "idle" /\ worker'[w].msg = r.msg
      BY <1>1, <1>7 DEF SameChannel, SameJob
    <2>2. notification'[<<eventOf[r.msg], worker'[w].user, worker'[w].chan>>].first # None
      BY <1>3, <1>6, <1>7 DEF SameChannel
    <2> QED
      BY <1>6, <1>8, <2>1, <2>2, SpanOn
  <1>10. WithEvent(worker'[w])
    BY <1>2, <1>7 DEF WithEvent, SameChannel, SameJob
  <1>11. \A k \in Keys : Exists(k)' => Exists(k)
    BY <1>1 DEF Exists
  <1> HIDE DEF r
  <1> QED
    BY <1>1, <1>6, <1>7, <1>9, <1>10, <1>11, SpanKept DEF SameChannel, SameJob, Others

(* Without notifications of its own: the steps before and after the INSERT. *)
LEMMA OnwardSpan ==
  ASSUME PlanInv, PlanInv', SpanInv, NEW w \in Workers, worker[w].pc \in PerUser, SameJob(w),
         UNCHANGED <<processed, notification>>,
         \A k \in Keys : EventBacked(k[1]) /\ Exists(k)' =>
           Exists(k) \/ notification[NoteOf(k)].first # None,
         worker'[w].user = worker[w].user,
         EventBacked(worker[w].msg) => worker[w].pc # "touch" /\ worker'[w].chans = worker[w].chans,
         worker'[w].pc \in PerUser,
         worker'[w].pc \in PerChannel /\ EventBacked(worker[w].msg) =>
           worker[w].pc \in PerChannel /\ worker'[w].chan = worker[w].chan,
         WithEvent(worker'[w])
  PROVE  SpanInv'
  <1> DEFINE r == worker[w]
  <1>1. NotesGrow
    BY SameNotes
  <1>2. /\ r.pc # "idle" /\ worker'[w].msg = r.msg
        /\ worker'[w].users = r.users
    BY DEF SameJob, PerUser
  <1>3. ASSUME EventBacked(r.msg), worker'[w].pc \in PerChannel
        PROVE  notification'[<<eventOf[r.msg], worker'[w].user, worker'[w].chan>>].first # None
    BY <1>2, <1>3 DEF SpanInv, WorkersSpan, SpanFor
  <1>4. ASSUME EventBacked(r.msg), NEW u \in Users, NEW c \in channelsOf[r.msg][u],
               Uncovered(r, u, c)
        PROVE  Uncovered(worker'[w], u, c)
    BY <1>2, <1>4 DEF Uncovered
  <1>5. SpanFor(worker'[w], notification')
    BY <1>1, <1>2, <1>3, <1>4, SpanOn
  <1>6. \A k \in Keys : EventBacked(k[1]) /\ Exists(k)' =>
          Exists(k) \/ notification'[NoteOf(k)].first # None
    OBVIOUS
  <1>7. \A x \in Workers : \/ worker'[x] = worker[x]
                           \/ SpanFor(worker'[x], notification') /\ WithEvent(worker'[x])
    BY <1>5 DEF SameJob, Others
  <1>8. \A k \in Keys : EventBacked(k[1]) /\ processed'[k[1]] =>
          processed[k[1]] \/ Covered(k[1], k[2], k[3], notification')
    OBVIOUS
  <1> QED
    BY <1>1, <1>6, <1>7, <1>8, SpanKept

LEMMA ListSpan ==
  ASSUME PlanInv, PlanInv', SpanInv, NEW w \in Workers,
         ListAttempts(w) \/ \E c \in Channels : CreateWithoutEvent(w, c)
  PROVE  SpanInv'
  <1>1. UNCHANGED <<processed, notification, attempt>>
    BY DEF ListAttempts, CreateWithoutEvent, rows
  <1>2. \A k \in Keys : EventBacked(k[1]) /\ Exists(k)' =>
          Exists(k) \/ notification[NoteOf(k)].first # None
    BY <1>1 DEF Exists
  <1>3. CASE ListAttempts(w)
    <2>1. worker[w].pc = "list"
      BY <1>3 DEF ListAttempts
    <2>2. CASE Goto(w, "create")
      <3>1. SameChannel(w) /\ worker'[w].pc = "create"
        BY <2>2, GotoMoves
      <3>2. WithEvent(worker'[w])
        BY <3>1 DEF WithEvent
      <3> QED
        BY <1>1, <1>2, <2>1, <3>1, <3>2, OnwardSpan DEF SameChannel, PerUser, PerChannel
    <2>3. ASSUME NEW status, ChannelDone(w, status) PROVE SpanInv'
      <3>1. /\ SameJob(w) /\ worker'[w].pc \in {"summary", "channels"}
            /\ worker'[w].user = worker[w].user /\ worker'[w].chans = worker[w].chans
        BY <2>3, DoneMoves
      <3>2. WithEvent(worker'[w])
        BY <3>1 DEF WithEvent
      <3> QED
        BY <1>1, <1>2, <2>1, <3>1, <3>2, OnwardSpan DEF PerUser, PerChannel
    <2> QED
      BY <1>3, <2>2, <2>3 DEF ListAttempts
  <1>4. ASSUME NEW c \in Channels, CreateWithoutEvent(w, c) PROVE SpanInv'
    <2>1. /\ worker[w].pc = "channels" /\ ~EventBacked(worker[w].msg)
          /\ worker' = [worker EXCEPT ![w] =
               [worker[w] EXCEPT !.pc = "create", !.chans = worker[w].chans \ {c}, !.chan = c]]
      BY <1>4 DEF CreateWithoutEvent
    <2>2. /\ SameJob(w) /\ worker'[w].pc = "create" /\ worker'[w].user = worker[w].user
      <3>1. /\ SameJob(w)
            /\ worker'[w].pc = "create"
            /\ worker'[w].user = worker[w].user /\ worker'[w].chans = worker[w].chans \ {c}
            /\ worker'[w].chan = c /\ worker'[w].plan = worker[w].plan
        BY <2>1, TakeChannelMoves, Zenon
      <3> QED
        BY <3>1
    <2>3. WithEvent(worker'[w])
      BY <2>2 DEF WithEvent
    <2> QED
      BY <1>1, <1>2, <2>1, <2>2, <2>3, OnwardSpan DEF PerUser
  <1> QED
    BY <1>3, <1>4

(* The INSERT: its notification is there since EnsureNotification. *)
LEMMA CreateSpan ==
  ASSUME PlanInv, PlanInv', SpanInv, NEW w \in Workers, CreateAttempt(w)
  PROVE  SpanInv'
  <1> DEFINE r == worker[w]
             k == KeyOf(w)
             pc == IF SelectContactMethod(r.user, r.chan) = None
                   THEN "failAttempt" ELSE "destination"
  <1>1. r.pc = "create" /\ UNCHANGED <<processed, notification>>
    BY DEF CreateAttempt
  <1>2. k \in Keys /\ k = <<r.msg, r.user, r.chan>>
    BY <1>1, KeyInHand DEF PlanInv, PerChannel, KeyOf
  <1>3. EventBacked(r.msg) => notification[NoteOf(k)].first # None
    BY <1>1, <1>2 DEF SpanInv, WorkersSpan, SpanFor, PerChannel, NoteOf
  <1>4. \A j \in Keys \ {k} : attempt'[j] = attempt[j]
    <2>1. CASE CreateLoses(w)
      BY <2>1 DEF CreateLoses
    <2>2. CASE Create(w)
      BY <1>2, <2>2, AttemptTable DEF Create
    <2> QED
      BY <2>1, <2>2 DEF CreateAttempt
  <1>5. ASSUME NEW j \in Keys, EventBacked(j[1]), Exists(j)'
        PROVE  Exists(j) \/ notification[NoteOf(j)].first # None
    BY <1>2, <1>3, <1>4, <1>5 DEF Exists
  <1>6. CASE Create(w)
    <2>1. Goto(w, pc) /\ pc \in {"failAttempt", "destination"}
      BY <1>6 DEF Create, Goto
    <2> HIDE DEF pc
    <2>2. SameChannel(w) /\ worker'[w].pc = pc
      BY <2>1, GotoMoves
    <2>3. WithEvent(worker'[w])
      BY <2>1, <2>2 DEF WithEvent
    <2> HIDE DEF k
    <2> QED
      BY <1>1, <1>5, <2>1, <2>2, <2>3, OnwardSpan DEF SameChannel, PerUser, PerChannel
  <1>7. CASE CreateLoses(w)
    <2>1. PICK status : ChannelDone(w, status)
      BY <1>7 DEF CreateLoses
    <2>2. /\ SameJob(w) /\ worker'[w].pc \in {"summary", "channels"}
          /\ worker'[w].user = r.user /\ worker'[w].chans = r.chans
      BY <2>1, DoneMoves
    <2>3. WithEvent(worker'[w])
      BY <2>2 DEF WithEvent
    <2> HIDE DEF k
    <2> QED
      BY <1>1, <1>5, <2>2, <2>3, OnwardSpan DEF PerUser, PerChannel
  <1> QED
    BY <1>6, <1>7 DEF CreateAttempt

LEMMA OwnSpan ==
  ASSUME PlanInv, PlanInv', SpanInv, NEW w \in Workers, UpdateDestination(w) \/ FailAttempt(w)
  PROVE  SpanInv'
  <1> DEFINE r == worker[w]
  <1>1. r.pc \in {"destination", "failAttempt"} /\ UNCHANGED <<processed, notification>>
    BY DEF UpdateDestination, FailAttempt
  <1>2. KeyOf(w) \in Keys /\ Exists(KeyOf(w))
    BY <1>1, KeyInHand DEF PlanInv, PerChannel, WorkersGood, Good, Shape, AfterCreate, KeyOf, Exists
  <1>3. \A j \in Keys \ {KeyOf(w)} : attempt'[j] = attempt[j]
    BY <1>2, AttemptTable DEF UpdateDestination, FailAttempt, UpdateStatus
  <1>4. ASSUME NEW j \in Keys, EventBacked(j[1]), Exists(j)'
        PROVE  Exists(j) \/ notification[NoteOf(j)].first # None
    BY <1>2, <1>3, <1>4 DEF Exists
  <1>5. CASE EventBacked(r.msg) /\ Goto(w, "failNotification")
    <2>1. SameChannel(w) /\ worker'[w].pc = "failNotification"
      BY <1>5, GotoMoves
    <2>2. WithEvent(worker'[w])
      BY <1>5, <2>1 DEF WithEvent, SameChannel, SameJob
    <2> QED
      BY <1>1, <1>4, <2>1, <2>2, OnwardSpan DEF SameChannel, PerUser, PerChannel
  <1>6. CASE \E status : ChannelDone(w, status)
    <2>1. PICK status : ChannelDone(w, status)
      BY <1>6
    <2>2. /\ SameJob(w) /\ worker'[w].pc \in {"summary", "channels"}
          /\ worker'[w].user = r.user /\ worker'[w].chans = r.chans
      BY <2>1, DoneMoves
    <2>3. WithEvent(worker'[w])
      BY <2>2 DEF WithEvent
    <2> QED
      BY <1>1, <1>4, <2>2, <2>3, OnwardSpan DEF PerUser, PerChannel
  <1> QED
    BY <1>5, <1>6 DEF UpdateDestination, FailAttempt

(* UpdateNotification, of a notification that is there. *)
LEMMA UpdateGrows ==
  ASSUME PlanInv, SpanInv, NEW n \in Notes, notification[n].first # None,
         NEW m \in Messages, NEW status, UpdateNotification(n, m, status)
  PROVE  NotesGrow
  <1> DEFINE last == Newer(notification[n].last, m)
             new == [first |-> notification[n].first, last |-> last, status |-> status]
  <1>1. notification' = [notification EXCEPT ![n] = new]
    BY DEF UpdateNotification
  <1>2. new.first = notification[n].first /\ new.last = last
    OBVIOUS
  <1> HIDE DEF new
  <1> QED
    BY <1>1, <1>2, TouchGrows

LEMMA FailNoteSpan ==
  ASSUME PlanInv, PlanInv', SpanInv, NEW w \in Workers, FailNotification(w)
  PROVE  SpanInv'
  <1> DEFINE r == worker[w]
             n == NotificationOf(w, r.chan)
  <1>1. /\ r.pc = "failNotification" /\ ChannelDone(w, "failed")
        /\ UpdateNotification(n, r.msg, "failed")
        /\ UNCHANGED <<processed, attempt>>
    BY DEF FailNotification
  <1>2. /\ EventBacked(r.msg) /\ r.msg \in Messages /\ r.user \in Users /\ r.chan \in Channels
    BY <1>1, KeyInHand DEF SpanInv, WorkersSpan, WithEvent, PlanInv, PerChannel
  <1>3. n = <<eventOf[r.msg], r.user, r.chan>> /\ n \in Notes
    BY <1>2, EventNote DEF NotificationOf
  <1>4. notification[n].first # None
    BY <1>1, <1>2, <1>3 DEF SpanInv, WorkersSpan, SpanFor, PerChannel
  <1> HIDE DEF n
  <1>5. NotesGrow
    BY <1>1, <1>2, <1>3, <1>4, UpdateGrows
  <1>6. /\ SameJob(w) /\ worker'[w].pc \in {"summary", "channels"}
        /\ worker'[w].user = r.user /\ worker'[w].chans = r.chans
    BY <1>1, DoneMoves
  <1>7. SpanFor(worker'[w], notification')
    BY <1>1, <1>5, <1>6, SpanOn DEF SameJob, Uncovered, PerUser, PerChannel
  <1>8. WithEvent(worker'[w])
    BY <1>6 DEF WithEvent
  <1>9. \A k \in Keys : Exists(k)' => Exists(k)
    BY <1>1 DEF Exists
  <1> QED
    BY <1>1, <1>5, <1>6, <1>7, <1>8, <1>9, SpanKept DEF SameJob, Others

(* At the mark no recipient is before the worker: all are covered. *)
LEMMA MarkSpan ==
  ASSUME PlanInv, PlanInv', SpanInv, NEW w \in Workers, MarkProcessed(w)
  PROVE  SpanInv'
  <1> DEFINE r == worker[w]
  <1>1. /\ r.pc = "processed" /\ Goto(w, "ack")
        /\ processed' = [processed EXCEPT ![r.msg] = TRUE]
        /\ UNCHANGED <<notification, attempt>>
    BY DEF MarkProcessed
  <1>2. r.users = {} /\ r.msg \in Messages
    BY <1>1, Record DEF PlanInv, WorkersGood, Good, Shape
  <1>3. SameChannel(w) /\ worker'[w].pc = "ack"
    BY <1>1, GotoMoves
  <1>4. NotesGrow
    BY <1>1, SameNotes
  <1>5. ASSUME EventBacked(r.msg), NEW u \in Users, NEW c \in channelsOf[r.msg][u]
        PROVE  Covered(r.msg, u, c, notification)
    BY <1>1, <1>2, <1>5 DEF SpanInv, WorkersSpan, SpanFor, Uncovered, PerUser
  <1>6. ASSUME NEW k \in Keys, EventBacked(k[1]), processed'[k[1]]
        PROVE  processed[k[1]] \/ Covered(k[1], k[2], k[3], notification')
    <2>1. processed[k[1]] \/ k[1] = r.msg
      BY <1>1, <1>2, <1>6, KeyParts DEF PlanInv, TypeOK
    <2> QED
      BY <1>1, <1>5, <1>6, <2>1, KeyParts
  <1>7. SpanFor(worker'[w], notification')
    BY <1>1, <1>3, <1>4, SpanOn DEF SameChannel, SameJob, Uncovered, PerUser, PerChannel
  <1>8. WithEvent(worker'[w])
    BY <1>3 DEF WithEvent
  <1>9. \A k \in Keys : Exists(k)' => Exists(k)
    BY <1>1 DEF Exists
  <1> QED
    BY <1>3, <1>4, <1>6, <1>7, <1>8, <1>9, SpanKept DEF SameChannel, SameJob, Others

LEMMA DispatchSpan ==
  ASSUME PlanInv, PlanInv', SpanInv, Beside
  PROVE  SpanInv'
  <1>1. UNCHANGED <<processed, worker>> /\ \A k \in Keys : Exists(k)' => Exists(k)
    BY DEF Beside, AttemptsBeside
  <1>2. CASE UNCHANGED notification
    BY <1>1, <1>2, QuietSpan
  <1>3. CASE ~UNCHANGED notification
    <2>1. PICK k \in Keys, status \in Answer :
            Exists(k) /\ EventBacked(k[1]) /\ UpdateNotification(NoteOf(k), k[1], status)
      BY <1>3 DEF Beside
    <2>2. notification[NoteOf(k)].first # None
      BY <2>1 DEF SpanInv, Noted
    <2>3. NotesGrow
      BY <2>1, <2>2, KeyParts, UpdateGrows
    <2> QED
      BY <1>1, <2>3, SpanKept
  <1> QED
    BY <1>2, <1>3

LEMMA SpanInit == Init => SpanInv
  <1> SUFFICES ASSUME Init PROVE SpanInv
    OBVIOUS
  <1>1. WorkersSpan
    BY DEF Init, Idle, WorkersSpan, SpanFor, WithEvent
  <1>2. Noted
    BY DEF Init, Noted, Exists, Row
  <1> QED
    BY <1>1, <1>2 DEF Init, SpanInv, Notes, Keys

LEMMA SpanNext ==
  ASSUME PlanInv, PlanInv', ToldInv, SpanInv, [Next]_vars
  PROVE  SpanInv'
  <1>1. CASE (\E m \in Messages : Publish(m) \/ Republish(m)) \/ UNCHANGED vars
    <2>1. UNCHANGED <<processed, notification, attempt, worker>>
      BY <1>1 DEF Publish, Republish, rows, vars
    <2> QED
      BY <2>1, QuietSpan DEF Exists
  <1>2. ASSUME NEW w \in Workers,
               Take(w) \/ Abandon(w) \/ \E m \in Messages : AutoClaimInWork(w, m)
        PROVE  SpanInv'
    BY <1>2, TakeSpan, RestSpan DEF Take
  <1>3. ASSUME NEW w \in Workers, Step(w) PROVE SpanInv'
    <2>1. CASE (\E u \in Users : CreateUserMessage(w, u)) \/ ListExisting(w) \/ Summary(w)
      BY <2>1, RecipientSpan
    <2>2. CASE \E c \in Channels : EnsureNotification(w, c) \/ CreateWithoutEvent(w, c)
      BY <2>2, EnsureSpan, ListSpan
    <2>3. CASE TouchLastMessage(w) \/ ListAttempts(w) \/ CreateAttempt(w)
      BY <2>3, TouchSpan, ListSpan, CreateSpan
    <2>4. CASE UpdateDestination(w) \/ FailAttempt(w) \/ FailNotification(w)
      BY <2>4, OwnSpan, FailNoteSpan
    <2>5. CASE MarkProcessed(w) \/ Ack(w)
      BY <2>5, MarkSpan, RestSpan
    <2> QED
      BY <1>3, <2>1, <2>2, <2>3, <2>4, <2>5 DEF Step
  <1>4. CASE Dispatched
    BY <1>4, DispatchedBeside, DispatchSpan
  <1> QED
    BY <1>1, <1>2, <1>3, <1>4 DEF Next, Dispatched

LEMMA SpanInvariance == Spec => []SpanInv
  <1>1. PlanInv /\ PlanInv' /\ ToldInv /\ SpanInv /\ [Next]_vars => SpanInv'
    BY SpanNext
  <1> QED
    BY <1>1, Invariance, ToldInvariance, SpanInit, PTL DEF Spec

(* In whatever order workers come to a notification, and whatever becomes  *)
(* of them: once a message is processed its notifications reach up to it,  *)
(* and none ends before it begins (GREATEST in last_message_id).           *)
THEOREM SpansCover == Spec => []SpanCoversProcessed
  <1>1. SpanInv => SpanCoversProcessed
    <2> SUFFICES ASSUME SpanInv, NEW k \in Keys, EventBacked(k[1])
                 PROVE  /\ processed[k[1]] =>
                             /\ notification[NoteOf(k)].first # None
                             /\ notification[NoteOf(k)].last >= k[1]
                        /\ notification[NoteOf(k)].first # None =>
                             notification[NoteOf(k)].last >= notification[NoteOf(k)].first
      BY DEF SpanCoversProcessed, NoteOf
    <2> QED
      BY KeyParts DEF SpanInv, Covered, NoteOf
  <1> QED
    BY <1>1, SpanInvariance, PTL

-----------------------------------------------------------------------------
(* Suppression.                                                            *)

(* The slot has an attempt, another message's unless this one was taken up *)
(* before.                                                                 *)
ByAnother(m, u, c, tab, tk) ==
  \E j \in Keys : /\ tab[j].status # "absent" /\ slotOf[j] = slotOf[<<m, u, c>>]
                  /\ tk[m] <= 1 => j[1] # m

(* While a message is taken up for the first time, no attempt of its own   *)
(* is where its worker has still to come.                                  *)
FirstTime(r, tab, tk) ==
  r.pc # "idle" =>
    /\ tk[r.msg] >= 1
    /\ tk[r.msg] <= 1 =>
         \A u \in Users : \A c \in channelsOf[r.msg][u] :
           Ahead(r, u, c) => tab[<<r.msg, u, c>>].status = "absent"

Apart(r) ==
  /\ r.pc \in PerUser => r.user \notin r.users
  /\ r.pc \in PerChannel => r.chan \notin r.chans

PlanFresh(r, tab, tk) ==
  r.pc \in PerUser =>
    \A c \in channelsOf[r.msg][r.user] :
      r.plan[c] = "suppressed" => ByAnother(r.msg, r.user, c, tab, tk)

WorkerFresh(r, tab, tk) == FirstTime(r, tab, tk) /\ Apart(r) /\ PlanFresh(r, tab, tk)

RowFresh(m, u, status, tab, tk) ==
  status = "suppressed" => \A c \in channelsOf[m][u] : ByAnother(m, u, c, tab, tk)

(* Only one worker takes up a message for the first time. *)
FirstAlone ==
  \A v \in Workers : \A w \in Workers :
    /\ worker[v].pc # "idle" /\ worker[w].pc # "idle"
    /\ worker[v].msg = worker[w].msg /\ takes[worker[w].msg] <= 1
    => v = w

FreshInv ==
  /\ \A w \in Workers : WorkerFresh(worker[w], attempt, takes)
  /\ FirstAlone
  /\ \A k \in Keys : Exists(k) => takes[k[1]] >= 1
  /\ \A m \in Messages, u \in Users : RowFresh(m, u, userMessage[<<m, u>>], attempt, takes)

TakesGrow == \A m \in Messages : takes[m] \in Nat /\ takes'[m] \in Nat /\ takes'[m] >= takes[m]

LEMMA ByAnotherStays ==
  ASSUME Keeps(attempt, attempt'), TakesGrow, NEW m \in Messages, NEW u, NEW c,
         ByAnother(m, u, c, attempt, takes)
  PROVE  ByAnother(m, u, c, attempt', takes')
  BY DEF ByAnother, Keeps, TakesGrow

LEMMA RowFreshStays ==
  ASSUME Keeps(attempt, attempt'), TakesGrow, NEW m \in Messages, NEW u \in Users, NEW status,
         RowFresh(m, u, status, attempt, takes)
  PROVE  RowFresh(m, u, status, attempt', takes')
  BY ByAnotherStays DEF RowFresh

(* A worker that did not move, when nothing was made where it has to come. *)
LEMMA WorkerFreshStays ==
  ASSUME PlanInv, Keeps(attempt, attempt'), TakesGrow, NEW w \in Workers,
         WorkerFresh(worker[w], attempt, takes),
         \A k \in Keys :
           worker[w].pc # "idle" /\ k[1] = worker[w].msg
             /\ takes'[k[1]] <= 1 /\ Exists(k)' => Exists(k)
  PROVE  WorkerFresh(worker[w], attempt', takes')
  <1> DEFINE r == worker[w]
  <1>1. r.pc # "idle" => r.msg \in Messages
    BY Record
  <1>2. ASSUME r.pc # "idle", takes'[r.msg] <= 1, NEW u \in Users, NEW c \in channelsOf[r.msg][u],
               Ahead(r, u, c)
        PROVE  attempt'[<<r.msg, u, c>>].status = "absent"
    <2>1. <<r.msg, u, c>> \in Keys
      BY <1>1, <1>2, MatchedChannels DEF Keys
    <2>2. takes[r.msg] <= 1
      BY <1>1, <1>2 DEF TakesGrow
    <2>3. attempt[<<r.msg, u, c>>].status = "absent"
      BY <1>2, <2>2 DEF WorkerFresh, FirstTime
    <2> QED
      BY <1>2, <2>1, <2>3 DEF Exists
  <1>3. r.pc # "idle" => takes'[r.msg] >= 1
    BY <1>1 DEF WorkerFresh, FirstTime, TakesGrow
  <1>4. FirstTime(r, attempt', takes')
    BY <1>2, <1>3 DEF FirstTime
  <1>5. ASSUME r.pc \in PerUser, NEW c \in channelsOf[r.msg][r.user], r.plan[c] = "suppressed"
        PROVE  ByAnother(r.msg, r.user, c, attempt', takes')
    <2>1. ByAnother(r.msg, r.user, c, attempt, takes) /\ r.msg \in Messages
      BY <1>1, <1>5 DEF WorkerFresh, PlanFresh, PerUser
    <2> QED
      BY <2>1, ByAnotherStays
  <1> QED
    BY <1>4, <1>5 DEF WorkerFresh, PlanFresh

LEMMA SameTakes ==
  ASSUME PlanInv, takes' = takes
  PROVE  TakesGrow
  BY DEF PlanInv, TypeOK, TakesGrow

(* Every step but the taking up of a message. *)
LEMMA FreshKept ==
  ASSUME PlanInv, FreshInv, UNCHANGED takes, Keeps(attempt, attempt'),
         \A x \in Workers : worker'[x].pc # "idle" =>
           worker[x].pc # "idle" /\ worker'[x].msg = worker[x].msg,
         \A k \in Keys : Exists(k)' => Exists(k) \/ takes[k[1]] >= 1,
         \A x \in Workers :
           \/ /\ worker'[x] = worker[x]
              /\ \A k \in Keys :
                   worker[x].pc # "idle" /\ k[1] = worker[x].msg
                     /\ takes[k[1]] <= 1 /\ Exists(k)' => Exists(k)
           \/ WorkerFresh(worker'[x], attempt', takes),
         \A m \in Messages, u \in Users :
           \/ userMessage'[<<m, u>>] = userMessage[<<m, u>>]
           \/ RowFresh(m, u, userMessage'[<<m, u>>], attempt', takes)
  PROVE  FreshInv'
  <1>1. TakesGrow
    BY SameTakes
  <1>2. ASSUME NEW x \in Workers PROVE WorkerFresh(worker'[x], attempt', takes')
    <2>1. WorkerFresh(worker[x], attempt, takes)
      BY DEF FreshInv
    <2>2. CASE /\ worker'[x] = worker[x]
               /\ \A k \in Keys :
                    worker[x].pc # "idle" /\ k[1] = worker[x].msg
                      /\ takes[k[1]] <= 1 /\ Exists(k)' => Exists(k)
      BY <1>1, <2>1, <2>2, WorkerFreshStays
    <2> QED
      BY <2>2
  <1>3. FirstAlone'
    BY DEF FreshInv, FirstAlone
  <1>4. \A k \in Keys : Exists(k)' => takes'[k[1]] >= 1
    BY DEF FreshInv
  <1>5. ASSUME NEW m \in Messages, NEW u \in Users
        PROVE  RowFresh(m, u, userMessage'[<<m, u>>], attempt', takes')
    <2>1. RowFresh(m, u, userMessage[<<m, u>>], attempt, takes)
      BY DEF FreshInv
    <2>2. RowFresh(m, u, userMessage[<<m, u>>], attempt', takes')
      BY <1>1, <2>1, RowFreshStays
    <2> QED
      BY <2>2
  <1> QED
    BY <1>2, <1>3, <1>4, <1>5 DEF FreshInv, Exists

LEMMA TakeFresh ==
  ASSUME PlanInv, FreshInv, NEW w \in Workers, NEW m \in Messages,
         ReadGroup(w, m) \/ AutoClaim(w, m) \/ AutoClaimInWork(w, m)
  PROVE  FreshInv'
  <1>1. Begin(w, m) /\ UNCHANGED <<userMessage, attempt>>
    BY DEF ReadGroup, AutoClaim, AutoClaimInWork, rows
  <1>2. /\ Others(w) /\ worker[w].pc = "idle" /\ worker'[w].msg = m
        /\ worker'[w].pc \in {"processed", "users"}
    BY <1>1, BeginMoves
  <1>3. takes \in [Messages -> Nat] /\ takes' = [takes EXCEPT ![m] = takes[m] + 1]
    BY <1>1 DEF Begin, PlanInv, TypeOK
  <1>4. TakesGrow /\ takes'[m] >= 1 /\ (takes'[m] <= 1 => takes[m] = 0)
    BY <1>3 DEF TakesGrow
  <1>5. Keeps(attempt, attempt')
    BY <1>1, KeepsSame
  <1>6. ASSUME takes[m] = 0, NEW v \in Workers, worker[v].pc # "idle" PROVE worker[v].msg # m
    BY <1>6 DEF FreshInv, WorkerFresh, FirstTime
  <1>7. ASSUME NEW v \in Workers \ {w} PROVE WorkerFresh(worker'[v], attempt', takes')
    <2>1. WorkerFresh(worker[v], attempt', takes')
      BY <1>1, <1>4, <1>5, WorkerFreshStays DEF FreshInv, Exists
    <2> QED
      BY <1>2, <2>1 DEF Others
  <1>8. WorkerFresh(worker'[w], attempt', takes')
    <2>1. ASSUME takes'[m] <= 1, NEW u \in Users, NEW c \in channelsOf[m][u]
          PROVE  attempt'[<<m, u, c>>].status = "absent"
      <3>1. <<m, u, c>> \in Keys
        BY MatchedChannels DEF Keys
      <3> QED
        BY <1>1, <1>4, <2>1, <3>1 DEF FreshInv, Exists
    <2> QED
      BY <1>2, <1>4, <2>1 DEF WorkerFresh, FirstTime, Apart, PlanFresh, PerUser, PerChannel
  <1>9. FirstAlone'
    <2> SUFFICES ASSUME NEW v \in Workers, NEW x \in Workers,
                        worker'[v].pc # "idle", worker'[x].pc # "idle",
                        worker'[v].msg = worker'[x].msg, takes'[worker'[x].msg] <= 1
                 PROVE  v = x
      BY DEF FirstAlone
    <2>1. CASE v # w /\ x # w
      <3>1. /\ worker[v].pc # "idle" /\ worker[x].pc # "idle"
            /\ worker[v].msg = worker[x].msg /\ takes'[worker[x].msg] <= 1
        BY <1>2, <2>1 DEF Others
      <3>2. takes[worker[x].msg] <= 1
        BY <1>4, <3>1, Record DEF TakesGrow
      <3> QED
        BY <3>1, <3>2 DEF FreshInv, FirstAlone
    <2>2. CASE v = w /\ x # w
      BY <1>2, <1>4, <1>6, <2>2 DEF Others
    <2>3. CASE v # w /\ x = w
      BY <1>2, <1>4, <1>6, <2>3 DEF Others
    <2> QED
      BY <2>1, <2>2, <2>3
  <1>10. \A k \in Keys : Exists(k)' => takes'[k[1]] >= 1
    <2> SUFFICES ASSUME NEW k \in Keys, Exists(k) PROVE takes'[k[1]] >= 1
      BY <1>1 DEF Exists
    <2>1. takes[k[1]] >= 1 /\ k[1] \in Messages
      BY KeyParts DEF FreshInv
    <2> QED
      BY <1>4, <2>1 DEF TakesGrow
  <1>11. \A n \in Messages, u \in Users :
           RowFresh(n, u, userMessage'[<<n, u>>], attempt', takes')
    BY <1>1, <1>4, <1>5, RowFreshStays DEF FreshInv
  <1> QED
    BY <1>7, <1>8, <1>9, <1>10, <1>11 DEF FreshInv, Exists

LEMMA RestFresh ==
  ASSUME PlanInv, FreshInv, NEW w \in Workers, Abandon(w) \/ Ack(w)
  PROVE  FreshInv'
  <1>1. worker' = [worker EXCEPT ![w] = Idle] /\ UNCHANGED <<userMessage, attempt, takes>>
    BY DEF Abandon, Ack, rows
  <1>2. Others(w) /\ worker'[w].pc = "idle"
    BY <1>1, RestMoves
  <1>3. WorkerFresh(worker'[w], attempt', takes)
    BY <1>2 DEF WorkerFresh, FirstTime, Apart, PlanFresh, PerUser, PerChannel
  <1>4. Keeps(attempt, attempt')
    BY <1>1, KeepsSame
  <1> QED
    BY <1>1, <1>2, <1>3, <1>4, FreshKept DEF Others, Exists

(* A worker goes on, and nothing comes before it that was not there. *)
LEMMA StepFresh ==
  ASSUME PlanInv, FreshInv, UNCHANGED takes,
         \A k \in Keys : Exists(k)' <=> Exists(k),
         NEW w \in Workers, Others(w), worker[w].pc # "idle",
         worker'[w].msg = worker[w].msg,
         \A u \in Users : \A c \in channelsOf[worker[w].msg][u] :
           Ahead(worker'[w], u, c) => Ahead(worker[w], u, c),
         Apart(worker'[w]), PlanFresh(worker'[w], attempt', takes),
         \A m \in Messages, u \in Users :
           \/ userMessage'[<<m, u>>] = userMessage[<<m, u>>]
           \/ RowFresh(m, u, userMessage'[<<m, u>>], attempt', takes)
  PROVE  FreshInv'
  <1>1. Keeps(attempt, attempt')
    BY DEF Keeps, Exists
  <1>2. ASSUME NEW u \in Users, NEW c \in channelsOf[worker[w].msg][u],
               takes[worker[w].msg] <= 1, Ahead(worker'[w], u, c)
        PROVE  attempt'[<<worker[w].msg, u, c>>].status = "absent"
    <2>1. attempt[<<worker[w].msg, u, c>>].status = "absent"
      BY <1>2 DEF FreshInv, WorkerFresh, FirstTime
    <2>2. <<worker[w].msg, u, c>> \in Keys
      BY Record, MatchedChannels DEF Keys
    <2> QED
      BY <2>1, <2>2 DEF Exists
  <1>3. WorkerFresh(worker'[w], attempt', takes)
    BY <1>2 DEF FreshInv, WorkerFresh, FirstTime
  <1> QED
    BY <1>1, <1>3, FreshKept DEF Others

LEMMA SlotParts ==
  ASSUME NEW j \in Keys, NEW k \in Keys, slotOf[j] = slotOf[k]
  PROVE  j[2] = k[2] /\ j[3] = k[3]
  <1>1. /\ slotOf[j][3] = j[2] /\ slotOf[j][4] = j[3]
        /\ slotOf[k][3] = k[2] /\ slotOf[k][4] = k[3]
    BY DEF slotOf
  <1> QED
    BY <1>1

(* A worker's step that keeps the plan. *)
LEMMA OnwardFresh ==
  ASSUME PlanInv, FreshInv, UNCHANGED <<userMessage, attempt, takes>>,
         NEW w \in Workers, SameJob(w), worker[w].pc \in PerUser,
         worker'[w].user = worker[w].user, worker'[w].plan = worker[w].plan,
         \A c \in channelsOf[worker[w].msg][worker[w].user] :
           Ahead(worker'[w], worker[w].user, c) => Ahead(worker[w], worker[w].user, c),
         worker'[w].pc \in PerChannel => worker'[w].chan \notin worker'[w].chans
  PROVE  FreshInv'
  <1>1. WorkerFresh(worker[w], attempt, takes)
    BY DEF FreshInv
  <1>2. Apart(worker'[w])
    BY <1>1 DEF WorkerFresh, Apart, SameJob
  <1>3. PlanFresh(worker'[w], attempt', takes)
    BY <1>1 DEF WorkerFresh, PlanFresh, SameJob
  <1>4. \A u \in Users : \A c \in channelsOf[worker[w].msg][u] :
          Ahead(worker'[w], u, c) => Ahead(worker[w], u, c)
    BY DEF Ahead, SameJob
  <1>5. worker[w].pc # "idle"
    BY DEF PerUser
  <1> QED
    BY <1>2, <1>3, <1>4, <1>5, StepFresh DEF SameJob, Exists

LEMMA ChannelFresh ==
  ASSUME PlanInv, FreshInv, NEW w \in Workers, NEW c \in Channels,
         EnsureNotification(w, c) \/ CreateWithoutEvent(w, c)
  PROVE  FreshInv'
  <1>1. /\ worker[w].pc = "channels" /\ c \in worker[w].chans
        /\ UNCHANGED <<userMessage, attempt, takes>>
    BY DEF EnsureNotification, CreateWithoutEvent, rows
  <1>2. PICK pc \in BeforeCreate : worker' = [worker EXCEPT ![w] =
          [worker[w] EXCEPT !.pc = pc, !.chans = worker[w].chans \ {c}, !.chan = c]]
    BY DEF EnsureNotification, CreateWithoutEvent, BeforeCreate
  <1>3. /\ SameJob(w)
        /\ worker'[w].pc = pc
        /\ worker'[w].user = worker[w].user /\ worker'[w].chans = worker[w].chans \ {c}
        /\ worker'[w].chan = c /\ worker'[w].plan = worker[w].plan
    BY <1>2, TakeChannelMoves, Zenon
  <1> QED
    BY <1>1, <1>3, OnwardFresh DEF Ahead, PerUser, SameJob

(* The channel in hand is settled. *)
LEMMA DoneFresh ==
  ASSUME PlanInv, FreshInv, UNCHANGED <<userMessage, takes>>,
         \A k \in Keys : Exists(k)' <=> Exists(k),
         NEW w \in Workers, worker[w].pc \in PerChannel, NEW status, ChannelDone(w, status),
         status = "suppressed" =>
           ByAnother(worker[w].msg, worker[w].user, worker[w].chan, attempt, takes)
  PROVE  FreshInv'
  <1> DEFINE r == worker[w]
  <1>1. /\ SameJob(w) /\ worker'[w].pc \in {"summary", "channels"}
        /\ worker'[w].user = r.user /\ worker'[w].chans = r.chans
        /\ worker'[w].plan = [r.plan EXCEPT ![r.chan] = status]
    BY DoneMoves
  <1>2. /\ r.plan \in [Channels -> PlanStatus] /\ r.msg \in Messages /\ r.user \in Users
        /\ r.pc \in PerUser
    BY Record, KeyInHand DEF Worker, PlanInv, PerChannel, PerUser
  <1>3. WorkerFresh(r, attempt, takes)
    BY DEF FreshInv
  <1>4. ASSUME NEW c \in channelsOf[r.msg][r.user], worker'[w].plan[c] = "suppressed"
        PROVE  ByAnother(r.msg, r.user, c, attempt', takes)
    <2>1. c \in Channels
      BY <1>2, MatchedChannels
    <2>2. worker'[w].plan[c] = IF c = r.chan THEN status ELSE r.plan[c]
      BY <1>1, <1>2, <2>1
    <2>3. ByAnother(r.msg, r.user, c, attempt, takes)
      BY <1>2, <1>3, <1>4, <2>2 DEF WorkerFresh, PlanFresh
    <2> QED
      BY <2>3 DEF ByAnother, Exists
  <1>5. PlanFresh(worker'[w], attempt', takes)
    BY <1>1, <1>4 DEF PlanFresh, SameJob
  <1>6. Apart(worker'[w])
    BY <1>1, <1>2, <1>3 DEF WorkerFresh, Apart, SameJob, PerChannel
  <1>7. \A u \in Users : \A c \in channelsOf[r.msg][u] :
          Ahead(worker'[w], u, c) => Ahead(r, u, c)
    BY <1>1, <1>2 DEF Ahead, SameJob, BeforeCreate
  <1>8. r.pc # "idle"
    BY DEF PerChannel
  <1> QED
    BY <1>1, <1>5, <1>6, <1>7, <1>8, StepFresh DEF SameJob

(* Suppressed is what another message's notification had an attempt for    *)
(* before this one came to the channel: it has made none there itself.     *)
LEMMA ListFresh ==
  ASSUME PlanInv, FreshInv, NEW w \in Workers, ListAttempts(w)
  PROVE  FreshInv'
  <1> DEFINE r == worker[w]
             k == KeyOf(w)
  <1>1. r.pc = "list" /\ UNCHANGED <<userMessage, attempt, takes>>
    BY DEF ListAttempts, rows
  <1>2. /\ k \in Keys /\ k = <<r.msg, r.user, r.chan>>
        /\ r.msg \in Messages /\ r.user \in Users /\ r.chan \in channelsOf[r.msg][r.user]
    BY <1>1, KeyInHand, Record DEF PlanInv, PerChannel, KeyOf
  <1>3. \A j \in Keys : Exists(j)' <=> Exists(j)
    BY <1>1 DEF Exists
  <1>4. CASE Goto(w, "create")
    <2>1. SameChannel(w) /\ worker'[w].pc = "create"
      BY <1>4, GotoMoves
    <2>2. r.chan \notin r.chans
      BY <1>1 DEF FreshInv, WorkerFresh, Apart, PerChannel
    <2> QED
      BY <1>1, <2>1, <2>2, OnwardFresh DEF SameChannel, SameJob, Ahead, PerUser, BeforeCreate
  <1>5. ASSUME NEW j \in OfSlot(k), ChannelDone(w, attempt[j].status) PROVE FreshInv'
    <2>1. attempt[j].status # "suppressed"
      BY DEF OfSlot, PlanInv, TypeOK, Attempt, AttemptStatus, Outcome
    <2> QED
      BY <1>1, <1>3, <1>5, <2>1, DoneFresh DEF PerChannel
  <1>6. CASE OfSlot(k) # {} /\ ChannelDone(w, "suppressed")
    <2>1. PICK j \in Keys : Exists(j) /\ slotOf[j] = slotOf[k]
      BY <1>6 DEF OfSlot
    <2>2. ASSUME takes[r.msg] <= 1 PROVE j[1] # r.msg
      <3>1. Ahead(r, r.user, r.chan)
        BY <1>1 DEF Ahead, PerUser, BeforeCreate
      <3>2. ~Exists(k)
        BY <1>1, <1>2, <2>2, <3>1 DEF FreshInv, WorkerFresh, FirstTime, Exists
      <3>3. j # k
        BY <2>1, <3>2
      <3>4. j[2] = k[2] /\ j[3] = k[3]
        BY <1>2, <2>1, SlotParts
      <3> QED
        BY <1>2, <3>3, <3>4, KeyParts
    <2>3. ByAnother(r.msg, r.user, r.chan, attempt, takes)
      BY <1>2, <2>1, <2>2 DEF ByAnother, Exists
    <2> QED
      BY <1>1, <1>3, <1>6, <2>3, DoneFresh DEF PerChannel
  <1> QED
    BY <1>4, <1>5, <1>6 DEF ListAttempts

(* The INSERT makes an attempt of the message in work, behind its worker:  *)
(* no other worker has the message for the first time.                     *)
LEMMA CreateFresh ==
  ASSUME PlanInv, FreshInv, NEW w \in Workers, CreateAttempt(w)
  PROVE  FreshInv'
  <1> DEFINE r == worker[w]
             k == KeyOf(w)
             pc == IF SelectContactMethod(r.user, r.chan) = None
                   THEN "failAttempt" ELSE "destination"
             new == Row("queued")
  <1>1. r.pc = "create" /\ UNCHANGED <<userMessage, takes>>
    BY DEF CreateAttempt
  <1>2. /\ k \in Keys /\ k = <<r.msg, r.user, r.chan>> /\ k[1] = r.msg
        /\ r.msg \in Messages /\ r.user \in Users /\ r.chan \in channelsOf[r.msg][r.user]
    BY <1>1, KeyInHand, Record DEF PlanInv, PerChannel, KeyOf
  <1>3. CASE CreateLoses(w)
    <2>1. PICK j \in OfSlot(k) : ChannelDone(w, attempt[j].status)
      BY <1>3 DEF CreateLoses
    <2>2. attempt[j].status # "suppressed"
      BY DEF OfSlot, PlanInv, TypeOK, Attempt, AttemptStatus, Outcome
    <2>3. \A i \in Keys : Exists(i)' <=> Exists(i)
      BY <1>3 DEF CreateLoses, Exists
    <2> QED
      BY <1>1, <2>1, <2>2, <2>3, DoneFresh DEF PerChannel
  <1>4. CASE Create(w)
    <2>1. attempt' = [attempt EXCEPT ![k] = new] /\ ~Exists(k)
      BY <1>4 DEF Create, Duplicate
    <2>2. Goto(w, pc) /\ pc \in {"failAttempt", "destination"}
      BY <1>4 DEF Create, Goto
    <2> HIDE DEF pc
    <2>3. SameChannel(w) /\ worker'[w].pc = pc
      BY <2>2, GotoMoves
    <2>4. new.status = "queued"
      BY DEF Row
    <2> HIDE DEF new
    <2>5. attempt'[k] = new /\ \A j \in Keys \ {k} : attempt'[j] = attempt[j]
      BY <1>2, <2>1, AttemptTable
    <2>6. Keeps(attempt, attempt')
      BY <2>4, <2>5 DEF Keeps
    <2>7. WorkerFresh(r, attempt, takes)
      BY DEF FreshInv
    <2>8. takes[r.msg] >= 1
      BY <1>1, <2>7 DEF WorkerFresh, FirstTime
    <2>9. ASSUME NEW x \in Workers \ {w}, NEW j \in Keys, worker[x].pc # "idle",
                 j[1] = worker[x].msg, takes[j[1]] <= 1, Exists(j)'
          PROVE  Exists(j)
      <3>1. j # k
        BY <1>1, <1>2, <2>9 DEF FreshInv, FirstAlone
      <3> QED
        BY <2>5, <2>9, <3>1 DEF Exists
    <2>10. FirstTime(worker'[w], attempt', takes)
      <3>1. ASSUME takes[r.msg] <= 1, NEW u \in Users, NEW c \in channelsOf[r.msg][u],
                   Ahead(worker'[w], u, c)
            PROVE  attempt'[<<r.msg, u, c>>].status = "absent"
        <4>1. Ahead(r, u, c)
          BY <1>1, <2>2, <2>3, <3>1 DEF Ahead, SameChannel, SameJob, BeforeCreate, PerUser
        <4>2. ~(u = r.user /\ c = r.chan)
          BY <1>1, <2>2, <2>3, <2>7, <3>1
          DEF Ahead, WorkerFresh, Apart, SameChannel, SameJob, BeforeCreate, PerUser, PerChannel
        <4>3. attempt[<<r.msg, u, c>>].status = "absent"
          BY <1>1, <2>7, <3>1, <4>1 DEF WorkerFresh, FirstTime
        <4>4. <<r.msg, u, c>> \in Keys /\ <<r.msg, u, c>> # k
          BY <1>2, <4>2, MatchedChannels DEF Keys
        <4> QED
          BY <2>5, <4>3, <4>4
      <3> QED
        BY <2>3, <2>8, <3>1 DEF FirstTime, SameChannel, SameJob
    <2>11. Apart(worker'[w])
      BY <1>1, <2>2, <2>3, <2>7 DEF WorkerFresh, Apart, SameChannel, SameJob, PerUser, PerChannel
    <2>12. PlanFresh(worker'[w], attempt', takes)
      BY <1>1, <2>2, <2>3, <2>6, <2>7
      DEF WorkerFresh, PlanFresh, ByAnother, Keeps, SameChannel, SameJob, PerUser
    <2>13. WorkerFresh(worker'[w], attempt', takes)
      BY <2>10, <2>11, <2>12 DEF WorkerFresh
    <2>14. \A j \in Keys : Exists(j)' => Exists(j) \/ takes[j[1]] >= 1
      BY <1>2, <2>5, <2>8 DEF Exists
    <2>15. \A x \in Workers :
             \/ /\ worker'[x] = worker[x]
                /\ \A j \in Keys :
                     worker[x].pc # "idle" /\ j[1] = worker[x].msg
                       /\ takes[j[1]] <= 1 /\ Exists(j)' => Exists(j)
             \/ WorkerFresh(worker'[x], attempt', takes)
      BY <2>3, <2>9, <2>13 DEF SameChannel, SameJob, Others
    <2>16. \A x \in Workers : worker'[x].pc # "idle" =>
             worker[x].pc # "idle" /\ worker'[x].msg = worker[x].msg
      BY <1>1, <2>3 DEF SameChannel, SameJob, Others
    <2> HIDE DEF k
    <2> QED
      BY <1>1, <2>6, <2>14, <2>15, <2>16, FreshKept
  <1> QED
    BY <1>3, <1>4 DEF CreateAttempt

(* What a step of users_messages makes of one row. *)
LEMMA RowTable ==
  ASSUME PlanInv, NEW n \in Messages, NEW v \in Users, NEW status,
         userMessage' = [userMessage EXCEPT ![<<n, v>>] = status],
         NEW m \in Messages, NEW u \in Users
  PROVE  \/ userMessage'[<<m, u>>] = userMessage[<<m, u>>]
         \/ m = n /\ u = v /\ userMessage'[<<m, u>>] = status
  <1>1. userMessage \in [Messages \X Users -> UserMessageStatus]
    BY DEF PlanInv, TypeOK
  <1>2. CASE m = n /\ u = v
    BY <1>1, <1>2
  <1>3. CASE ~(m = n /\ u = v)
    BY <1>1, <1>3
  <1> QED
    BY <1>2, <1>3

LEMMA RecipientFresh ==
  ASSUME PlanInv, FreshInv, NEW w \in Workers, NEW u \in Users, CreateUserMessage(w, u)
  PROVE  FreshInv'
  <1> DEFINE r == worker[w]
             old == userMessage[<<r.msg, u>>]
             new == IF old = "absent" THEN "queued" ELSE old
  <1>1. /\ userMessage' = [userMessage EXCEPT ![<<r.msg, u>>] = new]
        /\ UNCHANGED <<attempt, takes>>
    BY DEF CreateUserMessage
  <1>2. /\ Others(w) /\ r.pc = "users" /\ u \in r.users
        /\ worker'[w].pc \in {"channels", "existing"}
        /\ worker'[w].msg = r.msg /\ worker'[w].users = r.users \ {u}
        /\ worker'[w].user = u /\ worker'[w].plan = NoPlan
        /\ r.msg \in Messages
    BY TakeUserMoves, Record
  <1>3. ASSUME NEW c \in channelsOf[r.msg][u] PROVE NoPlan[c] # "suppressed"
    <2>1. c \in Channels
      BY <1>2, MatchedChannels
    <2> QED
      BY <2>1 DEF NoPlan
  <1>4. PlanFresh(worker'[w], attempt', takes)
    BY <1>2, <1>3 DEF PlanFresh
  <1>5. Apart(worker'[w])
    BY <1>2 DEF Apart, PerChannel
  <1>6. \A v \in Users : \A c \in channelsOf[r.msg][v] :
          Ahead(worker'[w], v, c) => Ahead(r, v, c)
    BY <1>2 DEF Ahead, BeforeCreate
  <1>7. new = old \/ RowFresh(r.msg, u, new, attempt', takes)
    BY DEF RowFresh
  <1> HIDE DEF new
  <1>8. ASSUME NEW m \in Messages, NEW v \in Users
        PROVE  \/ userMessage'[<<m, v>>] = userMessage[<<m, v>>]
               \/ RowFresh(m, v, userMessage'[<<m, v>>], attempt', takes)
    <2>1. \/ userMessage'[<<m, v>>] = userMessage[<<m, v>>]
          \/ m = r.msg /\ v = u /\ userMessage'[<<m, v>>] = new
      BY <1>1, <1>2, RowTable
    <2> QED
      BY <1>7, <2>1
  <1> QED
    BY <1>1, <1>2, <1>4, <1>5, <1>6, <1>8, StepFresh DEF Exists

LEMMA ExistingFresh ==
  ASSUME PlanInv, FreshInv, NEW w \in Workers, ListExisting(w)
  PROVE  FreshInv'
  <1> DEFINE r == worker[w]
  <1>1. UNCHANGED <<userMessage, attempt, takes>>
    BY DEF ListExisting, rows
  <1>2. /\ SameJob(w) /\ r.pc = "existing"
        /\ worker'[w].pc \in {"summary", "channels"} /\ worker'[w].user = r.user
        /\ worker'[w].chans \subseteq r.chans
        /\ r.msg \in Messages /\ r.user \in Users
    BY ExistingMoves, Record DEF PerUser
  <1>3. ASSUME NEW c \in channelsOf[r.msg][r.user] PROVE worker'[w].plan[c] # "suppressed"
    <2>1. <<r.msg, r.user, c>> \in Keys
      BY <1>2, MatchedChannels DEF Keys
    <2>2. attempt[<<r.msg, r.user, c>>].status # "suppressed"
      BY <2>1 DEF PlanInv, TypeOK, Attempt, AttemptStatus, Outcome
    <2> QED
      BY <2>2, ExistingMoves
  <1>4. PlanFresh(worker'[w], attempt', takes)
    BY <1>2, <1>3 DEF PlanFresh, SameJob
  <1>5. Apart(worker'[w])
    BY <1>2 DEF FreshInv, WorkerFresh, Apart, SameJob, PerUser, PerChannel
  <1>6. \A u \in Users : \A c \in channelsOf[r.msg][u] :
          Ahead(worker'[w], u, c) => Ahead(r, u, c)
    BY <1>2 DEF Ahead, BeforeCreate, SameJob, PerUser
  <1> QED
    BY <1>1, <1>2, <1>4, <1>5, <1>6, StepFresh DEF SameJob, Exists

LEMMA OwnFresh ==
  ASSUME PlanInv, FreshInv, NEW w \in Workers,
         UpdateDestination(w) \/ FailAttempt(w) \/ FailNotification(w)
  PROVE  FreshInv'
  <1> DEFINE r == worker[w]
             k == KeyOf(w)
  <1>1. r.pc \in AfterCreate /\ UNCHANGED <<userMessage, takes>>
    BY DEF UpdateDestination, FailAttempt, FailNotification, AfterCreate
  <1>2. k \in Keys /\ Exists(k)
    BY <1>1, KeyInHand
    DEF PlanInv, PerChannel, WorkersGood, Good, Shape, AfterCreate, KeyOf, Exists
  <1>3. \A j \in Keys : Exists(j)' <=> Exists(j)
    <2>1. CASE FailNotification(w)
      BY <2>1 DEF FailNotification, Exists
    <2>2. CASE UpdateDestination(w) \/ FailAttempt(w)
      <3>1. Keeps(attempt, attempt') /\ \A j \in Keys \ {k} : attempt'[j] = attempt[j]
        <4>1. PICK new : attempt' = [attempt EXCEPT ![k] = new]
          BY <2>2 DEF UpdateDestination, FailAttempt, UpdateStatus
        <4>2. attempt'[k].status # "absent"
          BY <2>2, OwnAttemptStutters, <1>2 DEF Made, Exists
        <4> QED
          BY <1>2, <4>1, <4>2, AttemptTable DEF Keeps
      <3> QED
        BY <1>2, <3>1 DEF Keeps, Exists
    <2> QED
      BY <2>1, <2>2
  <1>4. CASE Goto(w, "failNotification")
    <2>1. SameChannel(w) /\ worker'[w].pc = "failNotification"
      BY <1>4, GotoMoves
    <2>2. WorkerFresh(r, attempt, takes)
      BY DEF FreshInv
    <2>3. Apart(worker'[w])
      BY <1>1, <2>1, <2>2
      DEF WorkerFresh, Apart, SameChannel, SameJob, AfterCreate, PerUser, PerChannel
    <2>4. PlanFresh(worker'[w], attempt', takes)
      BY <1>1, <1>3, <2>1, <2>2
      DEF WorkerFresh, PlanFresh, ByAnother, Exists, SameChannel, SameJob, AfterCreate, PerUser
    <2>5. \A u \in Users : \A c \in channelsOf[r.msg][u] :
            Ahead(worker'[w], u, c) => Ahead(r, u, c)
      BY <1>1, <2>1 DEF Ahead, SameChannel, SameJob, AfterCreate, BeforeCreate, PerUser
    <2>6. r.pc # "idle"
      BY <1>1 DEF AfterCreate
    <2> QED
      BY <1>1, <1>3, <2>1, <2>3, <2>4, <2>5, <2>6, StepFresh DEF SameChannel, SameJob
  <1>5. CASE ChannelDone(w, "queued") \/ ChannelDone(w, "failed")
    BY <1>1, <1>3, <1>5, DoneFresh DEF AfterCreate, PerChannel
  <1> QED
    BY <1>4, <1>5 DEF UpdateDestination, FailAttempt, FailNotification

LEMMA TouchFresh ==
  ASSUME PlanInv, FreshInv, NEW w \in Workers, TouchLastMessage(w)
  PROVE  FreshInv'
  <1>1. worker[w].pc = "touch" /\ Goto(w, "list") /\ UNCHANGED <<userMessage, attempt, takes>>
    BY DEF TouchLastMessage
  <1>2. SameChannel(w) /\ worker'[w].pc = "list"
    BY <1>1, GotoMoves
  <1>3. worker[w].chan \notin worker[w].chans
    BY <1>1 DEF FreshInv, WorkerFresh, Apart, PerChannel
  <1> QED
    BY <1>1, <1>2, <1>3, OnwardFresh DEF SameChannel, SameJob, Ahead, PerUser, BeforeCreate

LEMMA SummaryFresh ==
  ASSUME PlanInv, FreshInv, NEW w \in Workers, Summary(w)
  PROVE  FreshInv'
  <1> DEFINE r == worker[w]
             S == channelsOf[r.msg][r.user]
             status == Summarize(S, r.plan)
  <1>1. /\ r.pc = "summary"
        /\ userMessage' = [userMessage EXCEPT ![<<r.msg, r.user>>] = status]
        /\ UNCHANGED <<attempt, takes>>
    BY DEF Summary, RowOf
  <1>2. r.msg \in Messages /\ r.user \in Users /\ r.pc \in PerUser
    BY <1>1, Record DEF PerUser
  <1>3. status = "suppressed" => \A c \in S : r.plan[c] = "suppressed"
    <2> HIDE DEF S
    <2> QED
      BY DEF Summarize
  <1> HIDE DEF status
  <1>4. RowFresh(r.msg, r.user, status, attempt, takes)
    BY <1>2, <1>3 DEF FreshInv, WorkerFresh, PlanFresh, RowFresh
  <1>5. /\ SameJob(w) /\ worker'[w].pc \in {"processed", "users"}
    BY SummaryMoves
  <1>6. ASSUME NEW m \in Messages, NEW u \in Users
        PROVE  \/ userMessage'[<<m, u>>] = userMessage[<<m, u>>]
               \/ RowFresh(m, u, userMessage'[<<m, u>>], attempt', takes)
    <2>1. \/ userMessage'[<<m, u>>] = userMessage[<<m, u>>]
          \/ m = r.msg /\ u = r.user /\ userMessage'[<<m, u>>] = status
      BY <1>1, <1>2, RowTable
    <2> QED
      BY <1>1, <1>4, <2>1
  <1>7. /\ Apart(worker'[w]) /\ PlanFresh(worker'[w], attempt', takes)
        /\ \A u \in Users : \A c \in S : Ahead(worker'[w], u, c) => Ahead(r, u, c)
    BY <1>5 DEF Apart, PlanFresh, Ahead, SameJob, PerUser, PerChannel
  <1>8. \A u \in Users : \A c \in channelsOf[r.msg][u] : Ahead(worker'[w], u, c) => Ahead(r, u, c)
    BY <1>5 DEF Ahead, SameJob, PerUser
  <1> QED
    BY <1>1, <1>5, <1>6, <1>7, <1>8, StepFresh DEF SameJob, Exists

LEMMA MarkFresh ==
  ASSUME PlanInv, FreshInv, NEW w \in Workers, MarkProcessed(w)
  PROVE  FreshInv'
  <1>1. worker[w].pc = "processed" /\ Goto(w, "ack") /\ UNCHANGED <<userMessage, attempt, takes>>
    BY DEF MarkProcessed
  <1>2. SameChannel(w) /\ worker'[w].pc = "ack"
    BY <1>1, GotoMoves
  <1>3. /\ Apart(worker'[w]) /\ PlanFresh(worker'[w], attempt', takes)
        /\ \A u \in Users : \A c \in channelsOf[worker[w].msg][u] :
             Ahead(worker'[w], u, c) => Ahead(worker[w], u, c)
    BY <1>2 DEF Apart, PlanFresh, Ahead, SameChannel, SameJob, PerUser, PerChannel
  <1> QED
    BY <1>1, <1>2, <1>3, StepFresh DEF SameChannel, SameJob, Exists

(* The dispatcher's answers are outcomes. *)
LEMMA DispatchFresh ==
  ASSUME PlanInv, FreshInv, Beside
  PROVE  FreshInv'
  <1>1. UNCHANGED <<worker, takes>> /\ \A k \in Keys : Exists(k)' <=> Exists(k)
    BY DEF Beside, AttemptsBeside
  <1>2. ASSUME NEW m \in Messages, NEW u \in Users
        PROVE  \/ userMessage'[<<m, u>>] = userMessage[<<m, u>>]
               \/ RowFresh(m, u, userMessage'[<<m, u>>], attempt', takes)
    <2>1. CASE UNCHANGED userMessage
      BY <2>1
    <2>2. CASE ~UNCHANGED userMessage
      <3>1. PICK k \in Keys, outcome \in Outcome :
              userMessage' = [userMessage EXCEPT ![<<k[1], k[2]>>] = outcome]
        BY <2>2 DEF Beside
      <3>2. \/ userMessage'[<<m, u>>] = userMessage[<<m, u>>]
            \/ m = k[1] /\ u = k[2] /\ userMessage'[<<m, u>>] = outcome
        BY <3>1, KeyParts, RowTable
      <3> QED
        BY <3>2 DEF RowFresh, Outcome
    <2> QED
      BY <2>1, <2>2
  <1>3. Keeps(attempt, attempt')
    BY <1>1 DEF Keeps, Exists
  <1> QED
    BY <1>1, <1>2, <1>3, FreshKept

LEMMA FreshInit == Init => FreshInv
  <1> SUFFICES ASSUME Init PROVE FreshInv
    OBVIOUS
  <1>1. ASSUME NEW w \in Workers PROVE worker[w].pc = "idle"
    BY DEF Init, Idle
  <1>2. \A w \in Workers : WorkerFresh(worker[w], attempt, takes)
    BY <1>1 DEF WorkerFresh, FirstTime, Apart, PlanFresh, PerUser, PerChannel
  <1>3. FirstAlone
    BY <1>1 DEF FirstAlone
  <1>4. \A k \in Keys : ~Exists(k)
    BY DEF Init, Exists, Row
  <1>5. \A m \in Messages, u \in Users : RowFresh(m, u, userMessage[<<m, u>>], attempt, takes)
    BY DEF Init, RowFresh
  <1> QED
    BY <1>2, <1>3, <1>4, <1>5 DEF FreshInv

LEMMA FreshNext == PlanInv /\ ToldInv /\ FreshInv /\ [Next]_vars => FreshInv'
  <1> SUFFICES ASSUME PlanInv, ToldInv, FreshInv, [Next]_vars PROVE FreshInv'
    OBVIOUS
  <1>1. CASE (\E m \in Messages : Publish(m) \/ Republish(m)) \/ UNCHANGED vars
    <2>1. UNCHANGED <<userMessage, attempt, worker, takes>>
      BY <1>1 DEF Publish, Republish, rows, vars
    <2>2. Keeps(attempt, attempt')
      BY <2>1, KeepsSame
    <2> QED
      BY <2>1, <2>2, FreshKept DEF Exists
  <1>2. ASSUME NEW w \in Workers,
               Take(w) \/ Abandon(w) \/ \E m \in Messages : AutoClaimInWork(w, m)
        PROVE  FreshInv'
    BY <1>2, TakeFresh, RestFresh DEF Take
  <1>3. ASSUME NEW w \in Workers, Step(w) PROVE FreshInv'
    <2>1. CASE (\E u \in Users : CreateUserMessage(w, u)) \/ ListExisting(w) \/ Summary(w)
      BY <2>1, RecipientFresh, ExistingFresh, SummaryFresh
    <2>2. CASE \E c \in Channels : EnsureNotification(w, c) \/ CreateWithoutEvent(w, c)
      BY <2>2, ChannelFresh
    <2>3. CASE TouchLastMessage(w) \/ ListAttempts(w) \/ CreateAttempt(w)
      BY <2>3, TouchFresh, ListFresh, CreateFresh
    <2>4. CASE UpdateDestination(w) \/ FailAttempt(w) \/ FailNotification(w)
      BY <2>4, OwnFresh
    <2>5. CASE MarkProcessed(w) \/ Ack(w)
      BY <2>5, MarkFresh, RestFresh
    <2> QED
      BY <1>3, <2>1, <2>2, <2>3, <2>4, <2>5 DEF Step
  <1>4. CASE Dispatched
    BY <1>4, DispatchedBeside, DispatchFresh
  <1> QED
    BY <1>1, <1>2, <1>3, <1>4 DEF Next, Dispatched

LEMMA FreshInvariance == Spec => []FreshInv
  BY Invariance, ToldInvariance, FreshInit, FreshNext, PTL DEF Spec

(* A recipient is marked suppressed only where each channel has an attempt *)
(* for the event, and for a message delivered once they are other          *)
(* messages': no race with a second worker makes a message suppress itself. *)
THEOREM SuppressedRightly == Spec => []SuppressedByAnother
  <1>1. FreshInv => SuppressedByAnother
    <2> SUFFICES ASSUME FreshInv, NEW p \in Messages \X Users, userMessage[p] = "suppressed",
                        NEW c \in channelsOf[p[1]][p[2]]
                 PROVE  \E j \in OfSlot(<<p[1], p[2], c>>) : takes[p[1]] <= 1 => j[1] # p[1]
      BY DEF SuppressedByAnother
    <2>1. p = <<p[1], p[2]>> /\ p[1] \in Messages /\ p[2] \in Users
      OBVIOUS
    <2>2. ByAnother(p[1], p[2], c, attempt, takes)
      BY <2>1 DEF FreshInv, RowFresh
    <2> QED
      BY <2>2 DEF ByAnother, OfSlot, Exists
  <1> QED
    BY <1>1, FreshInvariance, PTL

-----------------------------------------------------------------------------
(* What faults leave behind.                                               *)

(* There are no more than n of the elements of S. *)
AtMost(S, n) == IsFiniteSet(S) /\ Cardinality(S) <= n

LEMMA StillAtMost ==
  ASSUME NEW S, NEW T, NEW n \in Nat, NEW p \in Nat, AtMost(S, n), T \subseteq S, n <= p
  PROVE  AtMost(T, p)
  <1>1. IsFiniteSet(T) /\ Cardinality(T) <= Cardinality(S)
    BY FS_Subset DEF AtMost
  <1>2. Cardinality(T) \in Nat /\ Cardinality(S) \in Nat
    BY <1>1, FS_CardinalityType DEF AtMost
  <1> QED
    BY <1>1, <1>2 DEF AtMost

LEMMA OneMore ==
  ASSUME NEW S, NEW T, NEW n \in Nat, NEW x, AtMost(S, n), T \subseteq S \cup {x}
  PROVE  AtMost(T, n + 1)
  <1>1. /\ IsFiniteSet(S \cup {x})
        /\ Cardinality(S \cup {x}) = IF x \in S THEN Cardinality(S) ELSE Cardinality(S) + 1
    BY FS_AddElement DEF AtMost
  <1>2. Cardinality(S) \in Nat
    BY FS_CardinalityType DEF AtMost
  <1>3. AtMost(S \cup {x}, n + 1)
    BY <1>1, <1>2 DEF AtMost
  <1>4. n + 1 \in Nat /\ n + 1 <= n + 1
    OBVIOUS
  <1> QED
    BY <1>3, <1>4, StillAtMost

(* An attempt without a destination that still wants one, or its failure, *)
Loose(k, a) ==
  /\ a.status # "absent" /\ a.destination = None
  /\ SelectContactMethod(k[2], k[3]) # None \/ a.status = "queued"

(* and the worker that made it and is about to see to that. *)
Holds(r, k) == r.pc \in {"destination", "failAttempt"} /\ <<r.msg, r.user, r.chan>> = k

LEMMA OrphansAre ==
  Orphans = {k \in Keys : Loose(k, attempt[k]) /\ \A w \in Workers : ~Holds(worker[w], k)}
  BY DEF Orphans, Loose, Holds, Exists, KeyOf

LEMMA OrphansWere ==
  Orphans' = {k \in Keys : Loose(k, attempt'[k]) /\ \A w \in Workers : ~Holds(worker'[w], k)}
  BY DEF Orphans, Loose, Holds, Exists, KeyOf, SelectContactMethod

LEMMA NoNewOrphan ==
  ASSUME NEW w \in Workers, Others(w),
         \A k \in Keys : Loose(k, attempt'[k]) =>
           (Loose(k, attempt[k]) /\ ~Holds(worker[w], k)) \/ Holds(worker'[w], k)
  PROVE  Orphans' \subseteq Orphans
  <1> SUFFICES ASSUME NEW k \in Keys, Loose(k, attempt'[k]),
                      \A x \in Workers : ~Holds(worker'[x], k)
               PROVE  Loose(k, attempt[k]) /\ \A x \in Workers : ~Holds(worker[x], k)
    BY OrphansAre, OrphansWere
  <1> QED
    BY DEF Others

LEMMA StepOthers ==
  ASSUME PlanInv, NEW w \in Workers, Step(w)
  PROVE  Others(w)
  <1>1. PICK next : worker' = [worker EXCEPT ![w] = next]
    <2>1. CASE \E u \in Users : CreateUserMessage(w, u)
      BY <2>1 DEF CreateUserMessage
    <2>2. CASE \E c \in Channels : EnsureNotification(w, c) \/ CreateWithoutEvent(w, c)
      BY <2>2 DEF EnsureNotification, CreateWithoutEvent
    <2>3. CASE ListExisting(w) \/ TouchLastMessage(w) \/ MarkProcessed(w) \/ Ack(w)
      BY <2>3 DEF ListExisting, TouchLastMessage, MarkProcessed, Ack, Goto
    <2>4. CASE ListAttempts(w) \/ CreateAttempt(w)
      BY <2>4 DEF ListAttempts, CreateAttempt, Create, CreateLoses, Goto, ChannelDone
    <2>5. CASE UpdateDestination(w) \/ FailAttempt(w) \/ FailNotification(w) \/ Summary(w)
      BY <2>5 DEF UpdateDestination, FailAttempt, FailNotification, Summary, Goto, ChannelDone
    <2> QED
      BY <2>1, <2>2, <2>3, <2>4, <2>5 DEF Step
  <1> QED
    BY <1>1, WorkerTable

(* The attempts a worker's step leaves alone, and the one it may change. *)
LEMMA StepOrphans ==
  ASSUME PlanInv, ToldInv, NEW w \in Workers, Step(w)
  PROVE  Orphans' \subseteq Orphans
  <1> DEFINE r == worker[w]
             k == KeyOf(w)
  <1>1. Others(w)
    BY StepOthers
  <1>2. CASE CreateAttempt(w) /\ Create(w)
    <2> DEFINE new == Row("queued")
               pc == IF SelectContactMethod(r.user, r.chan) = None
                     THEN "failAttempt" ELSE "destination"
    <2>1. /\ r.pc = "create" /\ attempt' = [attempt EXCEPT ![k] = new]
          /\ Goto(w, pc) /\ pc \in {"failAttempt", "destination"}
      BY <1>2 DEF CreateAttempt, Create, Goto
    <2> HIDE DEF pc
    <2>2. SameChannel(w) /\ worker'[w].pc = pc
      BY <2>1, GotoMoves
    <2>3. k \in Keys /\ k = <<r.msg, r.user, r.chan>>
      BY <2>1, KeyInHand DEF PlanInv, PerChannel, KeyOf
    <2> HIDE DEF new
    <2>4. \A j \in Keys \ {k} : attempt'[j] = attempt[j]
      BY <2>1, <2>3, AttemptTable
    <2>5. Holds(worker'[w], k) /\ \A j \in Keys : ~Holds(r, j)
      BY <2>1, <2>2, <2>3 DEF Holds, SameChannel, SameJob
    <2> HIDE DEF k
    <2> QED
      BY <1>1, <2>4, <2>5, NoNewOrphan
  <1>3. CASE UpdateDestination(w) \/ FailAttempt(w)
    <2>1. r.pc \in {"destination", "failAttempt"}
      BY <1>3 DEF UpdateDestination, FailAttempt
    <2>2. /\ k \in Keys /\ attempt[k] \in Attempt /\ WorkerTold(r, attempt, trail)
          /\ k = <<r.msg, r.user, r.chan>>
      BY <2>1, KeyInHand DEF PlanInv, PerChannel, TypeOK, ToldInv, KeyOf
    <2>3. PICK new : attempt' = [attempt EXCEPT ![k] = new] /\ ~Loose(k, new)
      <3>1. CASE UpdateDestination(w)
        <4> DEFINE d == SelectContactMethod(r.user, r.chan)
                   new == [attempt[k] EXCEPT !.destination = d]
        <4>1. attempt' = [attempt EXCEPT ![k] = new] /\ r.pc = "destination"
          BY <3>1 DEF UpdateDestination
        <4>2. d # None
          BY <2>2, <4>1 DEF WorkerTold, Unreachable
        <4> HIDE DEF d
        <4>3. new.destination # None
          BY <2>2, <4>2 DEF Attempt
        <4> QED
          BY <4>1, <4>3 DEF Loose
      <3>2. CASE FailAttempt(w)
        <4>1. UpdateStatus(k, "failed", "none") /\ r.pc = "failAttempt"
          BY <3>2 DEF FailAttempt
        <4>2. SelectContactMethod(k[2], k[3]) = None
          BY <2>2, <4>1 DEF WorkerTold, Unreachable
        <4>3. PICK new \in Attempt : attempt' = [attempt EXCEPT ![k] = new] /\ new.status = "failed"
          BY <2>2, <4>1, UpdateStatusType DEF AttemptStatus, Outcome
        <4> QED
          BY <4>2, <4>3 DEF Loose
      <3> QED
        BY <1>3, <3>1, <3>2
    <2>4. attempt'[k] = new /\ \A j \in Keys \ {k} : attempt'[j] = attempt[j]
      BY <2>2, <2>3, AttemptTable
    <2>5. \A j \in Keys \ {k} : ~Holds(r, j)
      BY <2>2 DEF Holds
    <2> HIDE DEF k
    <2> QED
      BY <1>1, <2>3, <2>4, <2>5, NoNewOrphan
  <1>4. ASSUME attempt' = attempt, r.pc \notin {"destination", "failAttempt"}
        PROVE  Orphans' \subseteq Orphans
    BY <1>1, <1>4, NoNewOrphan DEF Holds
  <1>5. CASE \/ \E u \in Users : CreateUserMessage(w, u)
             \/ \E c \in Channels : EnsureNotification(w, c) \/ CreateWithoutEvent(w, c)
             \/ ListExisting(w) \/ TouchLastMessage(w) \/ ListAttempts(w)
    <2>1. attempt' = attempt /\ r.pc \notin {"destination", "failAttempt"}
      BY <1>5 DEF CreateUserMessage, EnsureNotification, CreateWithoutEvent, ListExisting,
                  TouchLastMessage, ListAttempts, rows
    <2> QED
      BY <1>4, <2>1
  <1>6. CASE \/ CreateAttempt(w) /\ CreateLoses(w)
             \/ FailNotification(w) \/ Summary(w) \/ MarkProcessed(w) \/ Ack(w)
    <2>1. attempt' = attempt /\ r.pc \notin {"destination", "failAttempt"}
      BY <1>6 DEF CreateAttempt, CreateLoses, FailNotification, Summary, MarkProcessed, Ack, rows
    <2> QED
      BY <1>4, <2>1
  <1> QED
    BY <1>2, <1>3, <1>5, <1>6 DEF Step, CreateAttempt

LEMMA TakeOrphans ==
  ASSUME PlanInv, NEW w \in Workers, NEW m \in Messages,
         ReadGroup(w, m) \/ AutoClaim(w, m) \/ AutoClaimInWork(w, m)
  PROVE  Orphans' \subseteq Orphans
  <1>1. Begin(w, m) /\ UNCHANGED attempt
    BY DEF ReadGroup, AutoClaim, AutoClaimInWork, rows
  <1>2. Others(w) /\ worker[w].pc = "idle"
    BY <1>1, BeginMoves
  <1> QED
    BY <1>1, <1>2, NoNewOrphan DEF Holds

(* A worker that dies leaves the attempt it was at. *)
LEMMA AbandonOrphans ==
  ASSUME PlanInv, NEW w \in Workers, Abandon(w)
  PROVE  Orphans' \subseteq Orphans \cup {KeyOf(w)}
  <1>1. worker' = [worker EXCEPT ![w] = Idle] /\ UNCHANGED attempt
    BY DEF Abandon, rows
  <1>2. Others(w)
    BY <1>1, RestMoves
  <1> SUFFICES ASSUME NEW k \in Keys, k # KeyOf(w), Loose(k, attempt'[k]),
                      \A x \in Workers : ~Holds(worker'[x], k)
               PROVE  Loose(k, attempt[k]) /\ \A x \in Workers : ~Holds(worker[x], k)
    BY OrphansAre, OrphansWere
  <1>3. ~Holds(worker[w], k)
    BY DEF Holds, KeyOf
  <1> QED
    BY <1>1, <1>2, <1>3 DEF Others

(* Beside the workers, an attempt is loose again only if it was, or was    *)
(* about to be queued again.                                               *)
LEMMA DispatchOrphans ==
  ASSUME Beside
  PROVE  Orphans' \subseteq Orphans \cup Retried
  <1>1. worker' = worker
    BY DEF Beside
  <1>2. \A k \in Keys : Loose(k, attempt'[k]) => Loose(k, attempt[k]) \/ k \in Retried
    BY DEF Beside, AttemptsBeside, Loose, Exists
  <1> QED
    BY <1>1, <1>2, OrphansAre, OrphansWere

LEMMA NextFaults ==
  ASSUME PlanInv, [Next]_vars
  PROVE  faults \in Nat /\ (faults' = faults \/ faults' = faults + 1)
  <1>1. faults \in Nat
    BY ConstantsAssumption DEF PlanInv, TypeOK
  <1>2. faults' = faults \/ faults' = faults + 1
    <2>1. ASSUME NEW w \in Workers, Step(w) PROVE faults' = faults
      BY <2>1 DEF Step, CreateUserMessage, ListExisting, EnsureNotification, CreateWithoutEvent,
                  TouchLastMessage, ListAttempts, CreateAttempt, UpdateDestination, FailAttempt,
                  FailNotification, Summary, MarkProcessed, Ack
    <2>2. CASE Dispatched
      <3>1. ASSUME NEW d \in Dispatchers, NEW k \in Keys, Call(d, k)
            PROVE  faults' = faults \/ faults' = faults + 1
        BY <3>1 DEF Call, Claim, Send, Requeue, RecordAttempt, RecordUserMessage,
                    RecordNotification, Fault
      <3>2. ASSUME NEW h \in Handlers,
                   Handle(h) \/ HookFails(h) \/ \E k \in Keys : HookLookup(h, k)
            PROVE  faults' = faults \/ faults' = faults + 1
        BY <3>2 DEF Handle, HookFails, HookLookup, HookAttempt, HookUserMessage,
                    HookNotification, Fault
      <3>3. ASSUME NEW k \in Keys, LeaseExpires(k) PROVE faults' = faults \/ faults' = faults + 1
        BY <3>3 DEF LeaseExpires, Fault
      <3>4. ASSUME NEW d \in Dispatchers, DispatcherFails(d) PROVE faults' = faults + 1
        BY <3>4 DEF DispatcherFails, LetGo, Fault
      <3> QED
        BY <2>2, <3>1, <3>2, <3>3, <3>4 DEF Dispatched
    <2>3. CASE (\E m \in Messages : Publish(m) \/ Republish(m)) \/ UNCHANGED vars
      BY <2>3 DEF Publish, Republish, Fault, vars
    <2>4. ASSUME NEW w \in Workers,
                 Take(w) \/ Abandon(w) \/ \E m \in Messages : AutoClaimInWork(w, m)
          PROVE  faults' = faults \/ faults' = faults + 1
      BY <2>4 DEF Take, ReadGroup, AutoClaim, AutoClaimInWork, Abandon, Fault
    <2> QED
      BY <2>1, <2>2, <2>3, <2>4 DEF Next, Dispatched
  <1> QED
    BY <1>1, <1>2

(* What is left behind, or will be when a retry is recorded. *)
Left == Orphans \cup Retried

LEMMA WorkerRetried ==
  ASSUME NEW w \in Workers,
         \/ Step(w) \/ Abandon(w)
         \/ \E m \in Messages : ReadGroup(w, m) \/ AutoClaim(w, m) \/ AutoClaimInWork(w, m)
  PROVE  Retried' \subseteq Retried
  <1>1. CASE Step(w)
    <2>1. UNCHANGED dispatch
      BY <1>1 DEF Step, CreateUserMessage, ListExisting, EnsureNotification, CreateWithoutEvent,
                  TouchLastMessage, ListAttempts, CreateAttempt, UpdateDestination, FailAttempt,
                  FailNotification, Summary, MarkProcessed, Ack
    <2> QED
      BY <2>1, RetriedSame DEF dispatch
  <1>2. CASE \E m \in Messages : ReadGroup(w, m) \/ AutoClaim(w, m) \/ AutoClaimInWork(w, m)
    BY <1>2, RetriedSame DEF ReadGroup, AutoClaim, AutoClaimInWork, dispatch
  <1>3. CASE Abandon(w)
    BY <1>3, RetriedSame DEF Abandon
  <1> QED
    BY <1>1, <1>2, <1>3

(* Every step leaves behind what was left, or is a fault. *)
LEMMA LeftSteps ==
  ASSUME PlanInv, ToldInv, [Next]_vars
  PROVE  \/ Left' \subseteq Left
         \/ \E k : Left' \subseteq Left \cup {k} /\ faults' = faults + 1
  <1>1. ASSUME NEW w \in Workers, Abandon(w)
        PROVE  Left' \subseteq Left \cup {KeyOf(w)} /\ faults' = faults + 1
    <2>1. Retried' \subseteq Retried
      BY <1>1, WorkerRetried
    <2>2. Orphans' \subseteq Orphans \cup {KeyOf(w)}
      BY <1>1, AbandonOrphans
    <2> QED
      BY <1>1, <2>1, <2>2 DEF Left, Abandon, Fault
  <1>2. ASSUME NEW w \in Workers,
               \/ Step(w)
               \/ \E m \in Messages : ReadGroup(w, m) \/ AutoClaim(w, m) \/ AutoClaimInWork(w, m)
        PROVE  Left' \subseteq Left
    <2>1. Retried' \subseteq Retried
      BY <1>2, WorkerRetried
    <2>2. Orphans' \subseteq Orphans
      BY <1>2, StepOrphans, TakeOrphans
    <2> QED
      BY <2>1, <2>2 DEF Left
  <1>3. CASE Dispatched
    <2>1. Beside
      BY <1>3, DispatchedBeside
    <2>2. Orphans' \subseteq Left
      BY <2>1, DispatchOrphans DEF Left
    <2>3. CASE Retried' \subseteq Retried
      BY <2>2, <2>3 DEF Left
    <2>4. CASE \E k \in Keys : Retried' \subseteq Retried \cup {k} /\ faults' = faults + 1
      BY <2>2, <2>4 DEF Left
    <2> QED
      BY <2>1, <2>3, <2>4 DEF Beside
  <1>4. ASSUME (\E m \in Messages : Publish(m) \/ Republish(m)) \/ UNCHANGED vars
        PROVE  Left' \subseteq Left
    <2>1. UNCHANGED <<attempt, worker, caller>>
      BY <1>4 DEF Publish, Republish, rows, dispatch, vars
    <2>2. Orphans' \subseteq Orphans /\ Retried' \subseteq Retried
      BY <2>1, OrphansAre, OrphansWere, RetriedSame
    <2> QED
      BY <2>2 DEF Left
  <1> QED
    BY <1>1, <1>2, <1>3, <1>4 DEF Next, Take, Dispatched

LEMMA NextLeft ==
  ASSUME PlanInv, ToldInv, AtMost(Left, faults), [Next]_vars
  PROVE  AtMost(Left, faults)'
  <1>1. faults \in Nat /\ faults' \in Nat /\ faults <= faults'
    BY NextFaults
  <1>2. CASE Left' \subseteq Left
    <2>1. AtMost(Left', faults')
      BY <1>1, <1>2, StillAtMost
    <2> QED
      BY <2>1 DEF AtMost
  <1>3. ASSUME NEW k, Left' \subseteq Left \cup {k}, faults' = faults + 1
        PROVE  AtMost(Left, faults)'
    <2>1. AtMost(Left', faults + 1)
      BY <1>1, <1>3, OneMore
    <2> QED
      BY <1>3, <2>1 DEF AtMost
  <1> QED
    BY <1>2, <1>3, LeftSteps

(* An attempt is left without a destination, for nobody to complete, only  *)
(* by a worker that died between the INSERT and the UPDATE after it, or by *)
(* an answer that queued a failed one again: no race between workers, or   *)
(* with dispatchers and callbacks, adds one.                               *)
THEOREM OrphansCounted == Spec => []OrphansAccounted
  <1>1. Init => AtMost(Left, faults)
    <2> SUFFICES ASSUME Init PROVE AtMost(Left, faults)
      OBVIOUS
    <2>1. Orphans = {}
      BY DEF Init, Orphans, Exists, Row
    <2>2. Retried = {}
      BY NoCallGood DEF Init, Retried
    <2> QED
      BY <2>1, <2>2, FS_EmptySet DEF AtMost, Init, Left
  <1>2. PlanInv /\ ToldInv /\ AtMost(Left, faults) /\ [Next]_vars => AtMost(Left, faults)'
    BY NextLeft
  <1>3. PlanInv /\ AtMost(Left, faults) => OrphansAccounted
    <2> SUFFICES ASSUME PlanInv, AtMost(Left, faults) PROVE AtMost(Orphans, faults)
      BY DEF AtMost, OrphansAccounted
    <2>1. faults \in Nat /\ Orphans \subseteq Left
      BY ConstantsAssumption DEF PlanInv, TypeOK, Left
    <2> QED
      BY <2>1, StillAtMost
  <1> QED
    BY <1>1, <1>2, <1>3, Invariance, ToldInvariance, PTL DEF Spec

-----------------------------------------------------------------------------
(* Attempt and notification part only by a disturbance.                    *)

(* As long as nothing disturbed the attempt k: its row a names a call only *)
(* when it has an outcome, and none without a contact method;              *)
CalmRow(a, k) ==
  /\ a.status \notin Outcome => a.call = "none"
  /\ Unreachable(k) => a.call = "none" /\ a.status # "sent" /\ a.destination = None

(* a dispatcher has it under its lease, unless the planner failed it       *)
(* meanwhile, and records what the row reads;                              *)
CalmCall(x, a, k) ==
  /\ x.pc \in {"call", "attempt"} =>
       (a.status = "dispatching" /\ a.leased) \/ (Unreachable(k) /\ a.status = "failed")
  /\ x.pc = "attempt" => x.outcome \in Outcome
  /\ x.pc \in {"user", "notification"} => x.outcome = a.status /\ a.status \in Outcome
  /\ Unreachable(k) =>
       /\ x.pc = "call" => x.dialled = None
       /\ x.pc = "attempt" => x.outcome # "sent"

(* a callback is about the call the row names and records the same,        *)
On(x, k) == x.pc # "none" /\ x.key = k
CalmHook(x, a) ==
  /\ x.outcome = a.call
  /\ x.pc \in {"user", "notification"} => x.outcome = a.status

(* as does the planner.                                                    *)
Fails(r, k) == r.pc = "failNotification" /\ <<r.msg, r.user, r.chan>> = k

(* No two dispatchers have it, *)
Lone(k) ==
  \A d, e \in Dispatchers : caller[d][k].pc # "none" /\ caller[e][k].pc # "none" => d = e

Agrees(k) ==
  EventBacked(k[1]) /\ attempt[k].status \in Outcome /\ ~Recording(k) =>
    notification[NoteOf(k)].status = attempt[k].status

Calm(k) ==
  /\ CalmRow(attempt[k], k)
  /\ Lone(k)
  /\ \A d \in Dispatchers : CalmCall(caller[d][k], attempt[k], k)
  /\ \A h \in Handlers : On(hook[h], k) => CalmHook(hook[h], attempt[k])
  /\ \A w \in Workers : Fails(worker[w], k) => attempt[k].status = "failed"
  /\ Agrees(k)

CalmInv == \A k \in Keys : trail[k].disturbed \/ Calm(k)

(* A step that does not concern k. *)
HooksElsewhere(k) ==
  \A h \in Handlers : hook'[h] = hook[h] \/ (~On(hook[h], k) /\ ~On(hook'[h], k))
CallersElsewhere(k) == \A d \in Dispatchers : caller'[d][k] = caller[d][k]
WorkersElsewhere(k) ==
  \A w \in Workers : worker'[w] = worker[w] \/ (~Fails(worker[w], k) /\ ~Fails(worker'[w], k))
NoteElsewhere(k) ==
  EventBacked(k[1]) /\ Exists(k) =>
    notification'[NoteOf(k)].status = notification[NoteOf(k)].status

LEMMA RecordingIs ==
  ASSUME NEW k \in Keys
  PROVE  Recording(k) <=>
           \/ \E d \in Dispatchers : caller[d][k].pc \in {"user", "notification"}
           \/ \E h \in Handlers : On(hook[h], k) /\ hook[h].pc \in {"user", "notification"}
           \/ \E w \in Workers : Fails(worker[w], k)
  BY DEF Recording, On, Fails, KeyOf

LEMMA RecordingWill ==
  ASSUME NEW k \in Keys
  PROVE  Recording(k)' <=>
           \/ \E d \in Dispatchers : caller'[d][k].pc \in {"user", "notification"}
           \/ \E h \in Handlers : On(hook'[h], k) /\ hook'[h].pc \in {"user", "notification"}
           \/ \E w \in Workers : Fails(worker'[w], k)
  BY DEF Recording, On, Fails, KeyOf

LEMMA CalmElsewhere ==
  ASSUME NEW k \in Keys, Calm(k), attempt'[k] = attempt[k],
         CallersElsewhere(k), HooksElsewhere(k), WorkersElsewhere(k), NoteElsewhere(k)
  PROVE  Calm(k)'
  <1>1. Lone(k)'
    BY DEF Calm, Lone, CallersElsewhere
  <1>2. \A d \in Dispatchers : CalmCall(caller'[d][k], attempt'[k], k)
    BY DEF Calm, CallersElsewhere
  <1>3. \A h \in Handlers : On(hook'[h], k) => CalmHook(hook'[h], attempt'[k])
    BY DEF Calm, HooksElsewhere
  <1>4. \A w \in Workers : Fails(worker'[w], k) => attempt'[k].status = "failed"
    BY DEF Calm, WorkersElsewhere
  <1>5. Recording(k)' <=> Recording(k)
    BY RecordingIs, RecordingWill DEF CallersElsewhere, HooksElsewhere, WorkersElsewhere
  <1>6. Agrees(k)'
    <2> SUFFICES ASSUME EventBacked(k[1]), attempt'[k].status \in Outcome, ~Recording(k)'
                 PROVE  notification'[NoteOf(k)].status = attempt'[k].status
      BY DEF Agrees, EventBacked, NoteOf
    <2>1. Exists(k)
      BY DEF Exists, Outcome
    <2> QED
      BY <1>5, <2>1 DEF Calm, Agrees, NoteElsewhere
  <1> QED
    BY <1>1, <1>2, <1>3, <1>4, <1>6 DEF Calm, On, Fails

(* Attempts that exist have notifications of their own. *)
LEMMA OwnNote ==
  ASSUME PlanInv, NEW j \in Keys, NEW k \in Keys, Exists(j), Exists(k),
         EventBacked(j[1]), EventBacked(k[1]), NoteOf(j) = NoteOf(k)
  PROVE  j = k
  <1>1. slotOf[j] = slotOf[k]
    BY DEF slotOf, NoteOf, EventBacked
  <1> QED
    BY <1>1 DEF PlanInv, OneAttemptPerEvent

LEMMA UpdateElsewhere ==
  ASSUME PlanInv, NEW j \in Keys, NEW k \in Keys, Exists(j), EventBacked(j[1]), j # k,
         NEW status, UpdateNotification(NoteOf(j), j[1], status)
  PROVE  NoteElsewhere(k)
  <1> SUFFICES ASSUME EventBacked(k[1]), Exists(k)
               PROVE  notification'[NoteOf(k)] = notification[NoteOf(k)]
    BY DEF NoteElsewhere
  <1>1. NoteOf(j) # NoteOf(k)
    BY OwnNote
  <1>2. NoteOf(j) \in Notes /\ NoteOf(k) \in Notes
    BY KeyParts
  <1> HIDE DEF NoteOf
  <1> QED
    BY <1>1, <1>2 DEF UpdateNotification, PlanInv, TypeOK, Notes

LEMMA UpdateNote ==
  ASSUME PlanInv, NEW k \in Keys, EventBacked(k[1]), NEW status,
         UpdateNotification(NoteOf(k), k[1], status)
  PROVE  notification'[NoteOf(k)].status = status
  <1>1. NoteOf(k) \in Notes
    BY KeyParts
  <1> HIDE DEF NoteOf
  <1> QED
    BY <1>1 DEF UpdateNotification, PlanInv, TypeOK, Notes

-----------------------------------------------------------------------------
(* The workers *)

LEMMA WorkerCalm ==
  ASSUME NEW k \in Keys, Calm(k), NEW w \in Workers, Others(w),
         UNCHANGED <<caller, hook>>, attempt'[k] = attempt[k], NoteElsewhere(k),
         ~Fails(worker[w], k), ~Fails(worker'[w], k)
  PROVE  Calm(k)'
  <1>1. CallersElsewhere(k) /\ HooksElsewhere(k) /\ WorkersElsewhere(k)
    BY DEF CallersElsewhere, HooksElsewhere, WorkersElsewhere, Others
  <1> QED
    BY <1>1, CalmElsewhere

LEMMA NoteSame ==
  ASSUME UNCHANGED notification, NEW k
  PROVE  NoteElsewhere(k)
  BY DEF NoteElsewhere

(* A worker turns to the next channel. *)
LEMMA TurnMoves ==
  ASSUME PlanInv, NEW w \in Workers, NEW c \in Channels,
         EnsureNotification(w, c) \/ CreateWithoutEvent(w, c)
  PROVE  Others(w) /\ worker'[w].pc \in {"touch", "list", "create"}
  <1>1. PICK pc \in {"touch", "list", "create"} : worker' = [worker EXCEPT ![w] =
          [worker[w] EXCEPT !.pc = pc, !.chans = worker[w].chans \ {c}, !.chan = c]]
    BY DEF EnsureNotification, CreateWithoutEvent
  <1>2. /\ SameJob(w)
        /\ worker'[w].pc = pc
        /\ worker'[w].user = worker[w].user /\ worker'[w].chans = worker[w].chans \ {c}
        /\ worker'[w].chan = c /\ worker'[w].plan = worker[w].plan
    BY <1>1, TakeChannelMoves, ZenonT(40)
  <1> QED
    BY <1>1, <1>2 DEF SameJob

(* The steps that change neither attempts nor notifications. *)
LEMMA QuietCalm ==
  ASSUME PlanInv, NEW k \in Keys, Calm(k), NEW w \in Workers,
         \/ \E u \in Users : CreateUserMessage(w, u)
         \/ \E c \in Channels : CreateWithoutEvent(w, c)
         \/ ListExisting(w) \/ ListAttempts(w) \/ Summary(w) \/ MarkProcessed(w) \/ Ack(w)
         \/ worker[w].pc = "create" /\ CreateLoses(w) /\ UNCHANGED <<notification, dispatch>>
         \/ \E m \in Messages : ReadGroup(w, m) \/ AutoClaim(w, m) \/ AutoClaimInWork(w, m)
  PROVE  Calm(k)'
  <1>1. /\ UNCHANGED <<notification, attempt, caller, hook>>
        /\ worker[w].pc # "failNotification"
    BY DEF CreateUserMessage, CreateWithoutEvent, ListExisting, ListAttempts, Summary,
           MarkProcessed, Ack, CreateLoses, ReadGroup, AutoClaim, AutoClaimInWork, Begin,
           rows, dispatch
  <1>2. Others(w) /\ worker'[w].pc # "failNotification"
    <2>1. CASE \E u \in Users : CreateUserMessage(w, u)
      BY <2>1, TakeUserMoves
    <2>2. CASE \E c \in Channels : CreateWithoutEvent(w, c)
      BY <2>2, TurnMoves
    <2>3. CASE ListExisting(w)
      BY <2>3, ExistingMoves DEF SameJob
    <2>4. CASE ListAttempts(w) \/ CreateLoses(w)
      <3>1. Goto(w, "create") \/ \E status : ChannelDone(w, status)
        BY <2>4 DEF ListAttempts, CreateLoses
      <3> QED
        <4>1. CASE Goto(w, "create")
          BY <4>1, GotoMoves DEF SameChannel, SameJob
        <4>2. ASSUME NEW status, ChannelDone(w, status)
              PROVE  Others(w) /\ worker'[w].pc # "failNotification"
          BY <4>2, DoneMoves DEF SameJob
        <4> QED
          BY <3>1, <4>1, <4>2
    <2>5. CASE Summary(w)
      BY <2>5, SummaryMoves DEF SameJob
    <2>6. CASE MarkProcessed(w)
      BY <2>6, GotoMoves DEF MarkProcessed, SameChannel, SameJob
    <2>7. CASE Ack(w)
      BY <2>7, RestMoves DEF Ack
    <2>8. CASE \E m \in Messages : ReadGroup(w, m) \/ AutoClaim(w, m) \/ AutoClaimInWork(w, m)
      BY <2>8, BeginMoves DEF ReadGroup, AutoClaim, AutoClaimInWork
    <2> QED
      BY <2>1, <2>2, <2>3, <2>4, <2>5, <2>6, <2>7, <2>8
  <1> QED
    BY <1>1, <1>2, WorkerCalm, NoteSame DEF Fails

(* A notification that is there keeps its status when a message is planned *)
(* for it.                                                                 *)
LEMMA NotedCalm ==
  ASSUME PlanInv, SpanInv, NEW k \in Keys, Calm(k), NEW w \in Workers,
         (\E c \in Channels : EnsureNotification(w, c)) \/ TouchLastMessage(w)
  PROVE  Calm(k)'
  <1> DEFINE r == worker[w]
  <1>1. /\ UNCHANGED <<attempt, caller, hook>>
        /\ r.pc \in {"channels", "touch"}
    BY DEF EnsureNotification, TouchLastMessage, dispatch
  <1>2. Others(w) /\ worker'[w].pc # "failNotification"
    <2>1. CASE \E c \in Channels : EnsureNotification(w, c)
      BY <2>1, TurnMoves
    <2>2. CASE TouchLastMessage(w)
      BY <2>2, GotoMoves DEF TouchLastMessage, SameChannel, SameJob
    <2> QED
      BY <2>1, <2>2
  <1>3. NoteElsewhere(k)
    <2> SUFFICES ASSUME EventBacked(k[1]), Exists(k)
                 PROVE  notification'[NoteOf(k)].status = notification[NoteOf(k)].status
      BY DEF NoteElsewhere
    <2> DEFINE j == NoteOf(k)
    <2>1. j \in Notes /\ notification[j].first # None /\ notification[j] \in Notification
      BY KeyParts, NoteTypes DEF SpanInv, Noted
    <2> HIDE DEF j
    <2>2. ASSUME NEW c \in Channels, EnsureNotification(w, c)
          PROVE  notification'[j] = notification[j]
      <3> DEFINE n == NotificationOf(w, c)
                 made == [first |-> r.msg, last |-> r.msg, status |-> "queued"]
      <3>1. notification' = [notification EXCEPT ![n] =
              IF notification[n].first = None THEN made ELSE notification[n]]
        BY <2>2 DEF EnsureNotification
      <3> HIDE DEF n, made
      <3> QED
        BY <2>1, <3>1 DEF PlanInv, TypeOK, Notes
    <2>3. CASE TouchLastMessage(w)
      <3> DEFINE n == NotificationOf(w, r.chan)
                 last == Newer(notification[n].last, r.msg)
      <3>1. notification' = [notification EXCEPT ![n] = [notification[n] EXCEPT !.last = last]]
        BY <2>3 DEF TouchLastMessage
      <3> HIDE DEF n, last
      <3>2. notification'[j] = notification[j]
              \/ notification'[j] = [notification[j] EXCEPT !.last = last]
        BY <2>1, <3>1 DEF PlanInv, TypeOK, Notes
      <3> QED
        BY <2>1, <3>2 DEF Notification, j
    <2> QED
      BY <2>2, <2>3 DEF j
  <1> QED
    BY <1>1, <1>2, <1>3, WorkerCalm DEF Fails

(* A worker that dies before it failed a notification is a disturbance. *)
LEMMA HitDisturbs ==
  ASSUME NEW S, Hit(S), NEW k \in Keys, ~trail'[k].disturbed, PlanInv
  PROVE  k \notin S
  <1> DEFINE hit == trail[k].disturbed \/ k \in S
             row == [trail[k] EXCEPT !.disturbed = hit]
  <1>1. trail'[k] = row
    BY DEF Hit
  <1>2. trail[k] \in Trail
    BY DEF PlanInv, TypeOK
  <1>3. row.disturbed = hit
    <2> HIDE DEF hit
    <2> QED
      BY <1>2 DEF Trail
  <1> HIDE DEF row
  <1>4. ~hit
    BY <1>1, <1>3
  <1> QED
    BY <1>4

LEMMA AbandonCalm ==
  ASSUME PlanInv, NEW k \in Keys, Calm(k), ~trail'[k].disturbed, NEW w \in Workers, Abandon(w)
  PROVE  Calm(k)'
  <1>1. /\ worker' = [worker EXCEPT ![w] = Idle] /\ Hit({KeyOf(w)})
        /\ UNCHANGED <<notification, attempt, caller, hook>>
    BY DEF Abandon, rows
  <1>2. Others(w) /\ worker'[w].pc = "idle"
    BY <1>1, RestMoves
  <1>3. k # KeyOf(w)
    BY <1>1, HitDisturbs
  <1> QED
    BY <1>1, <1>2, <1>3, WorkerCalm, NoteSame DEF Fails, KeyOf

(* Nobody else has an attempt that is just made. *)
LEMMA CreateCalm ==
  ASSUME PlanInv, ToldInv, NEW k \in Keys, Calm(k), NEW w \in Workers, CreateAttempt(w)
  PROVE  Calm(k)'
  <1> DEFINE r == worker[w]
             j == KeyOf(w)
             new == Row("queued")
             pc == IF SelectContactMethod(r.user, r.chan) = None
                   THEN "failAttempt" ELSE "destination"
  <1>1. r.pc = "create" /\ UNCHANGED <<notification, caller, hook>>
    BY DEF CreateAttempt, dispatch
  <1>2. CASE CreateLoses(w)
    BY <1>1, <1>2, QuietCalm DEF CreateAttempt
  <1>3. CASE Create(w)
    <2>1. attempt' = [attempt EXCEPT ![j] = new] /\ Goto(w, pc) /\ ~Exists(j)
      BY <1>3 DEF Create, Duplicate, Goto
    <2>2. Others(w) /\ worker'[w].pc # "failNotification"
      <3>1. pc # "failNotification"
        OBVIOUS
      <3> HIDE DEF pc
      <3> QED
        BY <2>1, <3>1, GotoMoves DEF SameChannel, SameJob
    <2>3. j \in Keys
      BY <1>1, KeyInHand DEF PlanInv, PerChannel
    <2>4. new.status = "queued" /\ new.call = "none" /\ new.destination = None
      BY DEF Row
    <2> HIDE DEF new
    <2>5. attempt'[j] = new /\ \A i \in Keys \ {j} : attempt'[i] = attempt[i]
      BY <2>1, <2>3, AttemptTable
    <2>6. CASE k # j
      BY <1>1, <2>2, <2>5, <2>6, WorkerCalm, NoteSame DEF Fails
    <2>7. CASE k = j
      <3>1. \A d \in Dispatchers : caller'[d][k].pc = "none"
        BY <1>1, <2>1, <2>7, InHandGood
      <3>2. \A h \in Handlers : ~On(hook'[h], k)
        BY <1>1, <2>1, <2>7, HookGoodInHand DEF On
      <3>3. \A x \in Workers : ~Fails(worker'[x], k)
        <4>1. ASSUME NEW x \in Workers, Fails(worker[x], k) PROVE FALSE
          <5>1. Exists(KeyOf(x))
            BY <4>1 DEF Fails, PlanInv, WorkersGood, Good, Shape, AfterCreate, Exists, KeyOf
          <5> QED
            BY <2>1, <2>7, <4>1, <5>1 DEF Fails, KeyOf
        <4> QED
          BY <2>2, <4>1 DEF Others, Fails
      <3>4. CalmRow(attempt'[k], k) /\ Agrees(k)'
        BY <2>4, <2>5, <2>7 DEF CalmRow, Agrees, Outcome
      <3>5. Lone(k)' /\ \A d \in Dispatchers : CalmCall(caller'[d][k], attempt'[k], k)
        BY <3>1 DEF Lone, CalmCall
      <3> QED
        BY <3>2, <3>3, <3>4, <3>5 DEF Calm, On, Fails
    <2> QED
      BY <2>6, <2>7
  <1> QED
    BY <1>2, <1>3 DEF CreateAttempt

(* The planner's own attempts: only one with a contact method gets a       *)
(* destination,                                                            *)
LEMMA DestinationCalm ==
  ASSUME PlanInv, ToldInv, NEW k \in Keys, Calm(k), NEW w \in Workers, UpdateDestination(w)
  PROVE  Calm(k)'
  <1> DEFINE j == KeyOf(w)
             dest == SelectContactMethod(worker[w].user, worker[w].chan)
             new == [attempt[j] EXCEPT !.destination = dest]
  <1>1. /\ worker[w].pc = "destination" /\ ChannelDone(w, "queued")
        /\ attempt' = [attempt EXCEPT ![j] = new]
        /\ UNCHANGED <<notification, caller, hook>>
    BY DEF UpdateDestination, dispatch
  <1>2. j \in Keys /\ attempt[j] \in Attempt /\ ~Unreachable(j)
    BY <1>1, KeyInHand DEF PlanInv, PerChannel, TypeOK, ToldInv, WorkerTold, KeyOf
  <1>3. new.status = attempt[j].status /\ new.leased = attempt[j].leased /\ new.call = attempt[j].call
    <2> HIDE DEF dest
    <2> QED
      BY <1>2 DEF Attempt
  <1>4. attempt'[j] = new /\ \A i \in Keys \ {j} : attempt'[i] = attempt[i]
    BY <1>1, <1>2, AttemptTable
  <1>5. Others(w) /\ worker'[w].pc # "failNotification"
    BY <1>1, DoneMoves DEF SameJob
  <1> HIDE DEF new, j
  <1>6. CASE k # j
    BY <1>1, <1>4, <1>5, <1>6, WorkerCalm, NoteSame DEF Fails
  <1>7. CASE k = j
    <2>1. CalmRow(attempt'[k], k)
      BY <1>2, <1>3, <1>4, <1>7 DEF Calm, CalmRow
    <2>2. Lone(k)' /\ \A d \in Dispatchers : CalmCall(caller'[d][k], attempt'[k], k)
      BY <1>1, <1>3, <1>4, <1>7 DEF Calm, CalmCall, Lone
    <2>3. \A h \in Handlers : On(hook'[h], k) => CalmHook(hook'[h], attempt'[k])
      BY <1>1, <1>3, <1>4, <1>7 DEF Calm, CalmHook
    <2>4. \A x \in Workers : Fails(worker'[x], k) <=> Fails(worker[x], k)
      BY <1>1, <1>5 DEF Fails, Others
    <2>5. Recording(k)' <=> Recording(k)
      BY <1>1, <2>4, RecordingIs, RecordingWill
    <2>6. Agrees(k)'
      BY <1>1, <1>3, <1>4, <1>7, <2>5 DEF Calm, Agrees, EventBacked, NoteOf
    <2> QED
      BY <1>3, <1>4, <1>7, <2>1, <2>2, <2>3, <2>4, <2>6 DEF Calm, On, Fails
  <1> QED
    BY <1>6, <1>7

(* one without fails, with its notification, whatever a dispatcher did.    *)
LEMMA FailCalm ==
  ASSUME PlanInv, ToldInv, NEW k \in Keys, Calm(k), NEW w \in Workers, FailAttempt(w)
  PROVE  Calm(k)'
  <1> DEFINE r == worker[w]
             j == KeyOf(w)
  <1>1. /\ r.pc = "failAttempt" /\ UpdateStatus(j, "failed", "none")
        /\ IF EventBacked(r.msg) THEN Goto(w, "failNotification") ELSE ChannelDone(w, "failed")
        /\ UNCHANGED <<notification, caller, hook>>
    BY DEF FailAttempt, dispatch
  <1>2. j \in Keys /\ Unreachable(j) /\ j = <<r.msg, r.user, r.chan>>
    BY <1>1, KeyInHand DEF PlanInv, PerChannel, ToldInv, WorkerTold, KeyOf
  <1>3. PICK new \in Attempt : /\ attempt' = [attempt EXCEPT ![j] = new]
                               /\ new.status = "failed" /\ new.call = "none"
                               /\ new.destination = attempt[j].destination
    BY <1>1, <1>2, UpdateStatusType DEF AttemptStatus, Outcome
  <1>4. attempt'[j] = new /\ \A i \in Keys \ {j} : attempt'[i] = attempt[i]
    BY <1>2, <1>3, AttemptTable
  <1>5. /\ Others(w)
        /\ EventBacked(r.msg) => Fails(worker'[w], j)
        /\ k # j => ~Fails(worker'[w], k)
    <2>1. CASE EventBacked(r.msg)
      BY <1>1, <1>2, <2>1, GotoMoves DEF SameChannel, SameJob, Fails
    <2>2. CASE ~EventBacked(r.msg)
      BY <1>1, <2>2, DoneMoves DEF SameJob, Fails
    <2> QED
      BY <2>1, <2>2
  <1>6. r.msg = j[1]
    BY <1>2
  <1> HIDE DEF j
  <1>7. CASE k # j
    BY <1>1, <1>4, <1>5, <1>7, WorkerCalm, NoteSame DEF Fails
  <1>8. CASE k = j
    <2>1. CalmRow(attempt[k], k) /\ attempt[k].call = "none" /\ attempt[k].status # "sent"
      BY <1>2, <1>8 DEF Calm, CalmRow
    <2>2. CalmRow(attempt'[k], k)
      BY <1>2, <1>3, <1>4, <1>8, <2>1 DEF CalmRow
    <2>3. Lone(k)' /\ \A d \in Dispatchers : CalmCall(caller'[d][k], attempt'[k], k)
      <3>1. ASSUME NEW d \in Dispatchers
            PROVE  CalmCall(caller[d][k], attempt'[k], k)
        BY <1>2, <1>3, <1>4, <1>8, <2>1 DEF Calm, CalmCall, Outcome
      <3> QED
        BY <1>1, <3>1 DEF Calm, Lone
    <2>4. ASSUME NEW h \in Handlers PROVE ~On(hook'[h], k)
      <3>1. CASE On(hook[h], k)
        BY <2>1, <3>1, HookGoodInHand DEF Calm, On, CalmHook, Outcome
      <3> QED
        BY <1>1, <3>1
    <2>5. Agrees(k)'
      BY <1>5, <1>6, <1>8, RecordingWill DEF Agrees, EventBacked
    <2> QED
      BY <1>3, <1>4, <1>8, <2>2, <2>3, <2>4, <2>5 DEF Calm, On, Fails
  <1> QED
    BY <1>7, <1>8

LEMMA FailNoteCalm ==
  ASSUME PlanInv, SpanInv, NEW k \in Keys, Calm(k), NEW w \in Workers, FailNotification(w)
  PROVE  Calm(k)'
  <1> DEFINE r == worker[w]
             j == KeyOf(w)
  <1>1. /\ r.pc = "failNotification" /\ ChannelDone(w, "failed")
        /\ UpdateNotification(NotificationOf(w, r.chan), r.msg, "failed")
        /\ UNCHANGED <<attempt, caller, hook>>
    BY DEF FailNotification, dispatch
  <1>2. j \in Keys /\ Exists(j) /\ j = <<r.msg, r.user, r.chan>> /\ EventBacked(r.msg)
    BY <1>1, KeyInHand DEF PlanInv, WorkersGood, Good, Shape, PerChannel, AfterCreate, Exists,
                           SpanInv, WorkersSpan, WithEvent, KeyOf
  <1>3. UpdateNotification(NoteOf(j), j[1], "failed") /\ EventBacked(j[1])
    BY <1>1, <1>2 DEF NotificationOf, NoteOf
  <1>4. Others(w) /\ \A i \in Keys : ~Fails(worker'[w], i)
    BY <1>1, DoneMoves DEF SameJob, Fails
  <1>5. \A i \in Keys \ {j} : ~Fails(r, i)
    BY <1>2 DEF Fails
  <1>6. Fails(r, j)
    BY <1>1, <1>2 DEF Fails
  <1> HIDE DEF j
  <1>7. CASE k # j
    BY <1>1, <1>2, <1>3, <1>4, <1>5, <1>7, WorkerCalm, UpdateElsewhere
  <1>8. CASE k = j
    <2>1. attempt[k].status = "failed"
      BY <1>6, <1>8 DEF Calm
    <2>2. notification'[NoteOf(k)].status = "failed"
      BY <1>3, <1>8, UpdateNote
    <2>3. Agrees(k)'
      BY <1>1, <2>1, <2>2 DEF Agrees, NoteOf
    <2>4. \A x \in Workers : Fails(worker'[x], k) => attempt'[k].status = "failed"
      BY <1>1, <2>1
    <2> QED
      BY <1>1, <2>3, <2>4 DEF Calm, On, Fails, Lone
  <1> QED
    BY <1>7, <1>8

-----------------------------------------------------------------------------
(* The dispatchers *)

LEMMA OtherCalm ==
  ASSUME PlanInv, NEW j \in Keys, Exists(j), NEW k \in Keys, k # j, Calm(k),
         attempt'[k] = attempt[k], CallersElsewhere(k), HooksElsewhere(k), UNCHANGED worker,
         \/ UNCHANGED notification
         \/ EventBacked(j[1]) /\ \E status : UpdateNotification(NoteOf(j), j[1], status)
  PROVE  Calm(k)'
  <1>1. NoteElsewhere(k)
    BY NoteSame, UpdateElsewhere
  <1>2. WorkersElsewhere(k)
    BY DEF WorkersElsewhere
  <1> QED
    BY <1>1, <1>2, CalmElsewhere

LEMMA IdleCallCalm ==
  ASSUME NEW x, x.pc = "none", NEW a, NEW k
  PROVE  CalmCall(x, a, k)
  BY DEF CalmCall

(* What d does with its k while hooks and workers look on. *)
LEMMA OwnCalm ==
  ASSUME PlanInv, NEW k \in Keys, Calm(k), NEW d \in Dispatchers,
         caller[d][k].pc # "none" \/ \A e \in Dispatchers : caller[e][k].pc = "none",
         \A e \in Dispatchers : e # d => caller'[e][k] = caller[e][k],
         UNCHANGED <<worker, hook>>,
         CalmRow(attempt'[k], k),
         CalmCall(caller'[d][k], attempt'[k], k),
         \A h \in Handlers : On(hook[h], k) => CalmHook(hook[h], attempt'[k]),
         \A w \in Workers : Fails(worker[w], k) => attempt'[k].status = "failed",
         Agrees(k)'
  PROVE  Calm(k)'
  <1>1. Lone(k)' /\ \A e \in Dispatchers : e # d => caller'[e][k].pc = "none"
    BY DEF Calm, Lone
  <1>2. \A e \in Dispatchers : CalmCall(caller'[e][k], attempt'[k], k)
    BY <1>1, IdleCallCalm
  <1> QED
    BY <1>1, <1>2 DEF Calm, On, Fails

(* No callback is about an attempt in work. *)
LEMMA NoHookOn ==
  ASSUME PlanInv, NEW k \in Keys, Calm(k), attempt[k].call = "none"
  PROVE  \A h \in Handlers : ~On(hook[h], k)
  BY HookGoodInHand DEF Calm, On, CalmHook, Outcome

LEMMA InWorkCalm ==
  ASSUME NEW k \in Keys, Calm(k), NEW d \in Dispatchers, caller[d][k].pc \in {"call", "attempt"}
  PROVE  attempt[k].call = "none"
  BY DEF Calm, CalmCall, CalmRow, Outcome

LEMMA ClaimCalm ==
  ASSUME PlanInv, NEW k \in Keys, Calm(k), NEW d \in Dispatchers, NEW j \in Keys, Claim(d, j)
  PROVE  Calm(k)'
  <1> DEFINE new == [attempt[j] EXCEPT !.status = "dispatching", !.leased = TRUE]
             c == [pc |-> "call", dialled |-> attempt[j].destination, outcome |-> None]
  <1>1. /\ Claimable(j) /\ caller[d][j].pc = "none"
        /\ attempt' = [attempt EXCEPT ![j] = new]
        /\ caller' = [caller EXCEPT ![d][j] = c]
        /\ UNCHANGED <<notification, worker, hook>>
    BY DEF Claim
  <1>2. attempt[j] \in Attempt /\ Exists(j)
    BY <1>1 DEF PlanInv, TypeOK, Claimable, Exists
  <1>3. /\ new.status = "dispatching" /\ new.leased /\ new.call = attempt[j].call
        /\ new.destination = attempt[j].destination
    BY <1>2 DEF Attempt
  <1>4. c \in Caller /\ c.pc = "call" /\ c.dialled = attempt[j].destination
    BY <1>2 DEF Caller, CallerPc, Attempt
  <1> HIDE DEF new, c
  <1>5. attempt'[j] = new /\ \A i \in Keys \ {j} : attempt'[i] = attempt[i]
    BY <1>1, AttemptTable
  <1>6. /\ caller'[d][j] = c
        /\ \A e \in Dispatchers : \A i \in Keys :
             caller'[e][i] = caller[e][i] \/ (e = d /\ i = j)
    BY <1>1, <1>4, CallerMove
  <1>7. CASE k # j
    BY <1>1, <1>2, <1>5, <1>6, <1>7, OtherCalm DEF CallersElsewhere, HooksElsewhere
  <1>8. CASE k = j
    <2>1. attempt[k].status \in {"queued", "dispatching"} /\ ~attempt[k].leased
      BY <1>1, <1>8 DEF Claimable
    <2>2. attempt[k].call = "none" /\ CalmRow(attempt'[k], k)
      BY <1>3, <1>5, <1>8, <2>1 DEF Calm, CalmRow, Outcome
    <2>3. \A e \in Dispatchers : caller[e][k].pc = "none"
      <3>1. ASSUME NEW e \in Dispatchers, caller[e][k].pc # "none" PROVE FALSE
        <4>1. caller[e][k].pc \in {"call", "attempt", "user", "notification"}
          BY <3>1, InHandGood DEF Caller, CallerPc
        <4> QED
          BY <2>1, <4>1 DEF Calm, CalmCall, Outcome
      <3> QED
        BY <3>1
    <2>4. \A h \in Handlers : ~On(hook[h], k)
      BY <2>2, NoHookOn
    <2>5. \A w \in Workers : ~Fails(worker[w], k)
      BY <2>1 DEF Calm
    <2>6. CalmCall(caller'[d][k], attempt'[k], k)
      <3>1. Unreachable(k) => attempt[k].destination = None
        BY DEF Calm, CalmRow
      <3> QED
        BY <1>3, <1>4, <1>5, <1>6, <1>8, <3>1 DEF CalmCall
    <2>7. Agrees(k)'
      BY <1>3, <1>5, <1>8 DEF Agrees, Outcome
    <2> QED
      BY <1>1, <1>6, <1>8, <2>2, <2>3, <2>4, <2>5, <2>6, <2>7, OwnCalm
  <1> QED
    BY <1>7, <1>8

(* An answer that asks for a retry is a disturbance. *)
LEMMA SendCalm ==
  ASSUME PlanInv, NEW k \in Keys, Calm(k), ~trail'[k].disturbed,
         NEW d \in Dispatchers, NEW j \in Keys, Send(d, j)
  PROVE  Calm(k)'
  <1> DEFINE x == caller[d][j]
  <1>1. x.pc = "call" /\ UNCHANGED <<notification, attempt, worker, hook>>
    BY DEF Send, rows
  <1>2. PICK answer \in Answer :
          /\ x.dialled = None => answer # "sent"
          /\ caller' = [caller EXCEPT ![d][j] = [x EXCEPT !.pc = "attempt", !.outcome = answer]]
          /\ trail' = [trail EXCEPT ![j].told = @ \cup ({answer} \cap Outcome),
                                    ![j].disturbed = @ \/ answer = "queued"]
    BY DEF Send
  <1>3. Exists(j) /\ x \in Caller /\ trail[j] \in Trail
    BY <1>1, InHandGood
  <1> DEFINE c == [x EXCEPT !.pc = "attempt", !.outcome = answer]
  <1>4. c \in Caller /\ c.pc = "attempt" /\ c.outcome = answer /\ c.dialled = x.dialled
    BY <1>3 DEF Caller, CallerPc
  <1>5. caller' = [caller EXCEPT ![d][j] = c]
    BY <1>2
  <1> HIDE DEF c
  <1>6. /\ caller'[d][j] = c
        /\ \A e \in Dispatchers : \A i \in Keys :
             caller'[e][i] = caller[e][i] \/ (e = d /\ i = j)
    BY <1>4, <1>5, CallerMove
  <1>7. CASE k # j
    BY <1>1, <1>3, <1>6, <1>7, OtherCalm DEF CallersElsewhere, HooksElsewhere
  <1>8. CASE k = j
    <2>1. answer \in Outcome
      <3> DEFINE hit == trail[j].disturbed \/ answer = "queued"
                 told == trail[j].told \cup ({answer} \cap Outcome)
                 row == [trail[j] EXCEPT !.told = told, !.disturbed = hit]
      <3>1. trail'[j] = row
        BY <1>2 DEF PlanInv, TypeOK
      <3>2. row.disturbed = hit
        <4> HIDE DEF hit, told
        <4> QED
          BY <1>3 DEF Trail
      <3> HIDE DEF row
      <3>3. ~hit
        BY <1>8, <3>1, <3>2
      <3> QED
        BY <3>3 DEF Answer
    <2>2. CalmCall(caller'[d][k], attempt'[k], k)
      BY <1>1, <1>2, <1>4, <1>6, <1>8, <2>1 DEF Calm, CalmCall
    <2>3. attempt[k].call = "none"
      BY <1>1, <1>8, InWorkCalm
    <2>4. \A h \in Handlers : ~On(hook[h], k)
      BY <2>3, NoHookOn
    <2>5. Agrees(k)'
      <3>1. Recording(k) => Recording(k)'
        BY <1>1, <1>6, <1>8, <2>4, RecordingIs, RecordingWill
      <3> QED
        BY <1>1, <3>1 DEF Calm, Agrees, EventBacked, NoteOf
    <2> QED
      BY <1>1, <1>6, <1>8, <2>2, <2>4, <2>5, OwnCalm DEF Calm
  <1> QED
    BY <1>7, <1>8

LEMMA RequeueCalm ==
  ASSUME PlanInv, NEW k \in Keys, Calm(k), NEW d \in Dispatchers, NEW j \in Keys, Requeue(d, j)
  PROVE  Calm(k)'
  <1> DEFINE c == IF EventBacked(j[1]) THEN [caller[d][j] EXCEPT !.pc = "notification"] ELSE NoCall
  <1>1. /\ caller[d][j].pc = "attempt" /\ caller[d][j].outcome = "queued"
        /\ UpdateStatus(j, "queued", attempt[j].call)
        /\ caller' = [caller EXCEPT ![d][j] = c]
        /\ UNCHANGED <<notification, worker, hook>>
    BY DEF Requeue
  <1>2. Exists(j) /\ caller[d][j] \in Caller /\ attempt[j] \in Attempt
    BY <1>1, InHandGood
  <1>3. c \in Caller
    BY <1>2, NoCallGood DEF Caller, CallerPc
  <1> HIDE DEF c
  <1>4. \A e \in Dispatchers : \A i \in Keys : caller'[e][i] = caller[e][i] \/ (e = d /\ i = j)
    BY <1>1, <1>3, CallerMove
  <1>5. k # j
    BY <1>1 DEF Calm, CalmCall, Outcome
  <1>6. attempt'[k] = attempt[k]
    BY <1>1, <1>5 DEF UpdateStatus, PlanInv, TypeOK
  <1> QED
    BY <1>1, <1>2, <1>4, <1>5, <1>6, OtherCalm DEF CallersElsewhere, HooksElsewhere

LEMMA RecordAttemptCalm ==
  ASSUME PlanInv, ToldInv, NEW k \in Keys, Calm(k), NEW d \in Dispatchers, NEW j \in Keys,
         RecordAttempt(d, j)
  PROVE  Calm(k)'
  <1> DEFINE x == caller[d][j]
             call == IF x.outcome = "sent" THEN "live" ELSE "none"
             c == [x EXCEPT !.pc = "user"]
  <1>1. /\ x.pc = "attempt" /\ x.outcome \in Outcome /\ UpdateStatus(j, x.outcome, call)
        /\ caller' = [caller EXCEPT ![d][j] = c]
        /\ UNCHANGED <<notification, worker, hook>>
    BY DEF RecordAttempt
  <1>2. Exists(j) /\ x \in Caller
    BY <1>1, InHandGood
  <1>3. c \in Caller /\ c.pc = "user" /\ c.outcome = x.outcome
    BY <1>2 DEF Caller, CallerPc
  <1>4. call \in {"none", "live"} /\ (x.outcome # "sent" => call = "none")
    OBVIOUS
  <1> HIDE DEF c, call
  <1>5. PICK new \in Attempt : /\ attempt' = [attempt EXCEPT ![j] = new]
                               /\ new.status = x.outcome /\ new.call = call
                               /\ new.destination = attempt[j].destination
    BY <1>1, <1>4, UpdateStatusType DEF AttemptStatus, Outcome
  <1>6. attempt'[j] = new /\ \A i \in Keys \ {j} : attempt'[i] = attempt[i]
    BY <1>5, AttemptTable
  <1>7. /\ caller'[d][j] = c
        /\ \A e \in Dispatchers : \A i \in Keys :
             caller'[e][i] = caller[e][i] \/ (e = d /\ i = j)
    BY <1>1, <1>3, CallerMove
  <1>8. CASE k # j
    BY <1>1, <1>2, <1>6, <1>7, <1>8, OtherCalm DEF CallersElsewhere, HooksElsewhere
  <1>9. CASE k = j
    <2>1. \A h \in Handlers : ~On(hook[h], k)
      BY <1>1, <1>9, InWorkCalm, NoHookOn
    <2>2. Unreachable(k) => x.outcome # "sent" /\ attempt[k].destination = None
      BY <1>1, <1>9 DEF Calm, CalmCall, CalmRow
    <2>3. CalmRow(attempt'[k], k) /\ CalmCall(caller'[d][k], attempt'[k], k)
      BY <1>1, <1>3, <1>4, <1>5, <1>6, <1>7, <1>9, <2>2 DEF CalmRow, CalmCall
    <2>4. ASSUME NEW w \in Workers, Fails(worker[w], k)
          PROVE  attempt'[k].status = "failed"
      <3>1. Unreachable(k)
        BY <2>4 DEF Fails, ToldInv, WorkerTold
      <3> QED
        BY <1>1, <1>5, <1>6, <1>9, <2>2, <3>1 DEF Outcome
    <2>5. Recording(k)'
      BY <1>3, <1>7, <1>9, RecordingWill
    <2>6. Agrees(k)'
      BY <2>5 DEF Agrees
    <2> QED
      BY <1>1, <1>7, <1>9, <2>1, <2>3, <2>4, <2>6, OwnCalm
  <1> QED
    BY <1>8, <1>9

LEMMA RecordUserCalm ==
  ASSUME PlanInv, NEW k \in Keys, Calm(k), NEW d \in Dispatchers, NEW j \in Keys,
         RecordUserMessage(d, j)
  PROVE  Calm(k)'
  <1> DEFINE x == caller[d][j]
             c == IF EventBacked(j[1]) THEN [x EXCEPT !.pc = "notification"] ELSE NoCall
  <1>1. /\ x.pc = "user"
        /\ caller' = [caller EXCEPT ![d][j] = c]
        /\ UNCHANGED <<notification, attempt, worker, hook>>
    BY DEF RecordUserMessage
  <1>2. Exists(j) /\ x \in Caller
    BY <1>1, InHandGood
  <1>3. /\ c \in Caller
        /\ EventBacked(j[1]) => c.pc = "notification" /\ c.outcome = x.outcome
        /\ ~EventBacked(j[1]) => c.pc = "none"
    BY <1>2, NoCallGood DEF Caller, CallerPc
  <1> HIDE DEF c
  <1>4. /\ caller'[d][j] = c
        /\ \A e \in Dispatchers : \A i \in Keys :
             caller'[e][i] = caller[e][i] \/ (e = d /\ i = j)
    BY <1>1, <1>3, CallerMove
  <1>5. CASE k # j
    BY <1>1, <1>2, <1>4, <1>5, OtherCalm DEF CallersElsewhere, HooksElsewhere
  <1>6. CASE k = j
    <2>1. CalmCall(caller'[d][k], attempt'[k], k)
      BY <1>1, <1>3, <1>4, <1>6 DEF Calm, CalmCall
    <2>2. Agrees(k)'
      <3>1. EventBacked(k[1]) => Recording(k)'
        BY <1>3, <1>4, <1>6, RecordingWill
      <3> QED
        BY <3>1 DEF Agrees, EventBacked
    <2> QED
      BY <1>1, <1>4, <1>6, <2>1, <2>2, OwnCalm DEF Calm
  <1> QED
    BY <1>5, <1>6

LEMMA RecordNoteCalm ==
  ASSUME PlanInv, ToldInv, NEW k \in Keys, Calm(k), NEW d \in Dispatchers, NEW j \in Keys,
         RecordNotification(d, j)
  PROVE  Calm(k)'
  <1> DEFINE x == caller[d][j]
  <1>1. /\ x.pc = "notification"
        /\ UpdateNotification(NoteOf(j), j[1], x.outcome)
        /\ caller' = [caller EXCEPT ![d][j] = NoCall]
        /\ UNCHANGED <<attempt, worker, hook>>
    BY DEF RecordNotification
  <1>2. Exists(j) /\ EventBacked(j[1])
    BY <1>1, InHandGood DEF ToldInv, CallTold
  <1>3. /\ caller'[d][j].pc = "none"
        /\ \A e \in Dispatchers : \A i \in Keys :
             caller'[e][i] = caller[e][i] \/ (e = d /\ i = j)
    BY <1>1, NoCallGood, CallerMove
  <1>4. CASE k # j
    BY <1>1, <1>2, <1>3, <1>4, OtherCalm DEF CallersElsewhere, HooksElsewhere
  <1>5. CASE k = j
    <2>1. x.outcome = attempt[k].status
      BY <1>1, <1>5 DEF Calm, CalmCall
    <2>2. notification'[NoteOf(k)].status = x.outcome
      BY <1>1, <1>2, <1>5, UpdateNote
    <2>3. Agrees(k)'
      BY <1>1, <2>1, <2>2 DEF Agrees, NoteOf
    <2>4. CalmCall(caller'[d][k], attempt'[k], k)
      BY <1>3, <1>5, IdleCallCalm
    <2> QED
      BY <1>1, <1>3, <1>5, <2>3, <2>4, OwnCalm DEF Calm
  <1> QED
    BY <1>4, <1>5

(* A lease that runs out is a disturbance, and so is a dispatcher that     *)
(* fails.                                                                  *)
LEMMA LeaseCalm ==
  ASSUME PlanInv, NEW k \in Keys, Calm(k), ~trail'[k].disturbed, NEW j \in Keys, LeaseExpires(j)
  PROVE  Calm(k)'
  <1> DEFINE new == [attempt[j] EXCEPT !.leased = FALSE]
             again == trail[j].again + 1
             row == [trail[j] EXCEPT !.again = again, !.disturbed = TRUE]
  <1>1. /\ attempt[j].status = "dispatching"
        /\ attempt' = [attempt EXCEPT ![j] = new]
        /\ trail' = [trail EXCEPT ![j].again = again, ![j].disturbed = TRUE]
        /\ UNCHANGED <<notification, worker, caller, hook>>
    BY DEF LeaseExpires
  <1>2. k # j
    <2>1. trail[j] \in Trail /\ trail'[j] = row
      BY <1>1 DEF PlanInv, TypeOK
    <2>2. row.disturbed = TRUE
      <3> HIDE DEF again
      <3> QED
        BY <2>1 DEF Trail
    <2> HIDE DEF row
    <2> QED
      BY <2>1, <2>2
  <1>3. attempt'[k] = attempt[k]
    BY <1>1, <1>2, AttemptTable
  <1>4. Exists(j)
    BY <1>1 DEF Exists
  <1> QED
    BY <1>1, <1>2, <1>3, <1>4, OtherCalm DEF CallersElsewhere, HooksElsewhere

LEMMA DispatcherFailsCalm ==
  ASSUME PlanInv, NEW k \in Keys, Calm(k), ~trail'[k].disturbed,
         NEW d \in Dispatchers, DispatcherFails(d)
  PROVE  Calm(k)'
  <1>1. PICK S \in SUBSET Keys : LetGo(d, S)
    BY DEF DispatcherFails, Held
  <1>2. /\ Hit(S) /\ UNCHANGED <<notification, attempt, worker, hook>>
        /\ caller' = [caller EXCEPT ![d] = [i \in Keys |-> IF i \in S THEN NoCall ELSE @[i]]]
    BY <1>1 DEF LetGo, rows
  <1>3. k \notin S
    BY <1>2, HitDisturbs
  <1>4. CallersElsewhere(k)
    BY <1>2, <1>3 DEF CallersElsewhere, PlanInv, TypeOK
  <1>5. HooksElsewhere(k) /\ WorkersElsewhere(k) /\ NoteElsewhere(k)
    BY <1>2, NoteSame DEF HooksElsewhere, WorkersElsewhere
  <1> QED
    BY <1>2, <1>4, <1>5, CalmElsewhere

-----------------------------------------------------------------------------
(* The callbacks *)

LEMMA HookOwnCalm ==
  ASSUME NEW k \in Keys, Calm(k), UNCHANGED <<worker, caller>>,
         CalmRow(attempt'[k], k),
         \A d \in Dispatchers : CalmCall(caller[d][k], attempt'[k], k),
         \A h \in Handlers : On(hook'[h], k) => CalmHook(hook'[h], attempt'[k]),
         \A w \in Workers : Fails(worker[w], k) => attempt'[k].status = "failed",
         Agrees(k)'
  PROVE  Calm(k)'
  BY DEF Calm, On, Fails, Lone

(* A callback is posted for a call the row names, and only for that one.   *)
LEMMA HookLookupCalm ==
  ASSUME PlanInv, NEW k \in Keys, Calm(k), NEW h \in Handlers, NEW j \in Keys, HookLookup(h, j)
  PROVE  Calm(k)'
  <1>1. /\ hook[h].pc = "none" /\ attempt[j].call # "none"
        /\ UNCHANGED <<notification, worker, caller>>
    BY DEF HookLookup
  <1>2. PICK outcome \in Outcome :
          /\ attempt[j].call \in {"live", outcome}
          /\ hook' = [hook EXCEPT ![h] = [pc |-> "attempt", key |-> j, outcome |-> outcome]]
          /\ attempt' = [attempt EXCEPT ![j] = [attempt[j] EXCEPT !.call = outcome]]
    BY DEF HookLookup
  <1> DEFINE x == [pc |-> "attempt", key |-> j, outcome |-> outcome]
             new == [attempt[j] EXCEPT !.call = outcome]
  <1>3. attempt[j] \in Attempt /\ Exists(j)
    BY <1>1 DEF PlanInv, TypeOK, TakenUp, Counted, Exists
  <1>4. /\ new.status = attempt[j].status /\ new.leased = attempt[j].leased
        /\ new.call = outcome /\ new.destination = attempt[j].destination
    BY <1>3 DEF Attempt
  <1>5. x \in Hook /\ x.pc = "attempt" /\ x.key = j /\ x.outcome = outcome
    BY DEF Hook, HookPc
  <1> HIDE DEF x, new
  <1>6. attempt'[j] = new /\ \A i \in Keys \ {j} : attempt'[i] = attempt[i]
    BY <1>2, AttemptTable DEF new
  <1>7. hook'[h] = x /\ \A g \in Handlers : hook'[g] = hook[g] \/ g = h
    BY <1>2, <1>5, HookMove DEF x
  <1>8. CASE k # j
    <2>1. HooksElsewhere(k)
      BY <1>1, <1>5, <1>7, <1>8 DEF HooksElsewhere, On
    <2> QED
      BY <1>1, <1>3, <1>6, <1>8, <2>1, OtherCalm DEF CallersElsewhere
  <1>9. CASE k = j
    <2>1. attempt[k].status \in Outcome /\ ~Unreachable(k)
      BY <1>1, <1>9 DEF Calm, CalmRow
    <2>2. CalmRow(attempt'[k], k)
      BY <1>4, <1>6, <1>9, <2>1 DEF CalmRow
    <2>3. \A d \in Dispatchers : CalmCall(caller[d][k], attempt'[k], k)
      BY <1>4, <1>6, <1>9, <2>1 DEF Calm, CalmCall
    <2>4. ASSUME NEW g \in Handlers, On(hook'[g], k) PROVE CalmHook(hook'[g], attempt'[k])
      <3>1. CASE g = h
        BY <1>4, <1>5, <1>6, <1>7, <1>9, <3>1 DEF CalmHook
      <3>2. CASE g # h
        <4>1. hook'[g] = hook[g] /\ CalmHook(hook[g], attempt[k]) /\ hook[g].outcome \in Outcome
          BY <1>7, <2>4, <3>2, HookGoodInHand DEF Calm, On
        <4>2. attempt[k].call = outcome
          BY <1>2, <1>9, <4>1 DEF CalmHook, Outcome
        <4> QED
          BY <1>4, <1>6, <1>9, <4>1, <4>2 DEF CalmHook
      <3> QED
        BY <3>1, <3>2
    <2>5. Agrees(k)'
      <3>1. Recording(k)' <=> Recording(k)
        <4>1. \A g \in Handlers :
                (On(hook'[g], k) /\ hook'[g].pc \in {"user", "notification"}) <=>
                (On(hook[g], k) /\ hook[g].pc \in {"user", "notification"})
          BY <1>1, <1>5, <1>7 DEF On
        <4> QED
          BY <1>1, <4>1, RecordingIs, RecordingWill
      <3> QED
        BY <1>1, <1>4, <1>6, <1>9, <3>1 DEF Calm, Agrees, EventBacked, NoteOf
    <2>6. \A w \in Workers : Fails(worker[w], k) => attempt'[k].status = "failed"
      BY <1>4, <1>6, <1>9 DEF Calm
    <2> QED
      BY <1>1, <2>2, <2>3, <2>4, <2>5, <2>6, HookOwnCalm
  <1> QED
    BY <1>8, <1>9

(* Its UPDATEs: applied while a dispatcher has the attempt in work they    *)
(* are a disturbance.                                                      *)
LEMMA HookAttemptCalm ==
  ASSUME PlanInv, ToldInv, NEW k \in Keys, Calm(k), ~trail'[k].disturbed,
         NEW h \in Handlers, HookAttempt(h)
  PROVE  Calm(k)'
  <1> DEFINE j == hook[h].key
             new == [attempt[j] EXCEPT !.status = hook[h].outcome]
             x == [hook[h] EXCEPT !.pc = "user"]
             held == \E d \in Dispatchers : j \in Held(d)
             hit == trail[j].disturbed \/ held
             row == [trail[j] EXCEPT !.disturbed = hit]
  <1>1. /\ hook[h].pc = "attempt"
        /\ attempt' = [attempt EXCEPT ![j] = new]
        /\ hook' = [hook EXCEPT ![h] = x]
        /\ trail' = [trail EXCEPT ![j] = row]
        /\ UNCHANGED <<notification, worker, caller>>
    BY DEF HookAttempt
  <1>2. /\ hook[h] \in Hook /\ j \in Keys /\ hook[h].outcome \in Outcome
        /\ Exists(j) /\ attempt[j] \in Attempt /\ trail[j] \in Trail
    BY <1>1, HookGoodInHand
  <1>3. /\ new.status = hook[h].outcome /\ new.call = attempt[j].call
        /\ new.destination = attempt[j].destination
    BY <1>2 DEF Attempt
  <1>4. x \in Hook /\ x.pc = "user" /\ x.key = j /\ x.outcome = hook[h].outcome
    BY <1>2 DEF Hook, HookPc
  <1>5. row.disturbed = hit
    <2> HIDE DEF hit
    <2> QED
      BY <1>2 DEF Trail
  <1> HIDE DEF x, new, row, held
  <1>6. k = j => ~held
    <2>1. k = j => trail'[k] = row
      BY <1>1, <1>2 DEF PlanInv, TypeOK
    <2> QED
      BY <1>5, <2>1
  <1> HIDE DEF j, hit
  <1>7. attempt'[j] = new /\ \A i \in Keys \ {j} : attempt'[i] = attempt[i]
    BY <1>1, <1>2, AttemptTable
  <1>8. hook'[h] = x /\ \A g \in Handlers : hook'[g] = hook[g] \/ g = h
    BY <1>1, <1>4, HookMove
  <1>9. CASE k # j
    <2>1. HooksElsewhere(k)
      BY <1>4, <1>8, <1>9 DEF HooksElsewhere, On, j
    <2> QED
      BY <1>1, <1>2, <1>7, <1>9, <2>1, OtherCalm DEF CallersElsewhere
  <1>10. CASE k = j
    <2>1. On(hook[h], k) /\ attempt[k].call = hook[h].outcome
      BY <1>1, <1>10 DEF On, j, Calm, CalmHook
    <2>2. ~Unreachable(k)
      BY <1>2, <2>1 DEF Calm, CalmRow, Outcome
    <2>3. CalmRow(attempt'[k], k)
      BY <1>2, <1>3, <1>7, <1>10, <2>2 DEF CalmRow
    <2>4. \A d \in Dispatchers : CalmCall(caller[d][k], attempt'[k], k)
      <3>1. \A d \in Dispatchers : caller[d][k].pc = "none"
        BY <1>6, <1>10 DEF held, Held
      <3> QED
        BY <3>1, IdleCallCalm
    <2>5. ASSUME NEW g \in Handlers, On(hook'[g], k) PROVE CalmHook(hook'[g], attempt'[k])
      <3>1. CASE g = h
        BY <1>3, <1>4, <1>7, <1>8, <1>10, <2>1, <3>1 DEF CalmHook
      <3>2. CASE g # h
        <4>1. hook'[g] = hook[g] /\ CalmHook(hook[g], attempt[k])
          BY <1>8, <2>5, <3>2 DEF Calm, On
        <4> QED
          BY <1>3, <1>7, <1>10, <2>1, <4>1 DEF CalmHook
      <3> QED
        BY <3>1, <3>2
    <2>6. \A w \in Workers : ~Fails(worker[w], k)
      BY <2>2 DEF Fails, ToldInv, WorkerTold
    <2>7. Agrees(k)'
      <3>1. On(hook'[h], k) /\ hook'[h].pc \in {"user", "notification"}
        BY <1>4, <1>8, <1>10 DEF On
      <3>2. Recording(k)'
        BY <3>1, RecordingWill
      <3> QED
        BY <3>2 DEF Agrees
    <2> QED
      BY <1>1, <2>3, <2>4, <2>5, <2>6, <2>7, HookOwnCalm
  <1> QED
    BY <1>9, <1>10

LEMMA HookUserCalm ==
  ASSUME PlanInv, NEW k \in Keys, Calm(k), NEW h \in Handlers, HookUserMessage(h)
  PROVE  Calm(k)'
  <1> DEFINE j == hook[h].key
             x == IF EventBacked(j[1]) THEN [hook[h] EXCEPT !.pc = "notification"] ELSE NoHook
  <1>1. /\ hook[h].pc = "user" /\ hook' = [hook EXCEPT ![h] = x]
        /\ UNCHANGED <<notification, attempt, worker, caller>>
    BY DEF HookUserMessage
  <1>2. hook[h] \in Hook /\ j \in Keys /\ Exists(j)
    BY <1>1, HookGoodInHand
  <1>3. /\ x \in Hook
        /\ EventBacked(j[1]) => x.pc = "notification" /\ x.key = j /\ x.outcome = hook[h].outcome
        /\ ~EventBacked(j[1]) => x.pc = "none"
    BY <1>2, NoHookGood DEF Hook, HookPc
  <1> HIDE DEF x, j
  <1>4. hook'[h] = x /\ \A g \in Handlers : hook'[g] = hook[g] \/ g = h
    BY <1>1, <1>3, HookMove
  <1>5. CASE k # j
    <2>1. HooksElsewhere(k)
      BY <1>3, <1>4, <1>5 DEF HooksElsewhere, On, j
    <2> QED
      BY <1>1, <1>2, <1>5, <2>1, OtherCalm DEF CallersElsewhere
  <1>6. CASE k = j
    <2>1. ASSUME NEW g \in Handlers, On(hook'[g], k) PROVE CalmHook(hook'[g], attempt'[k])
      <3>1. CASE g = h
        <4>1. On(hook[h], k) /\ x.pc = "notification" /\ x.outcome = hook[h].outcome
          BY <1>1, <1>3, <1>4, <1>6, <2>1, <3>1 DEF On, j
        <4> QED
          BY <1>1, <1>4, <3>1, <4>1 DEF Calm, CalmHook
      <3>2. CASE g # h
        BY <1>1, <1>4, <2>1, <3>2 DEF Calm, On
      <3> QED
        BY <3>1, <3>2
    <2>2. Agrees(k)'
      <3>1. EventBacked(k[1]) => On(hook'[h], k) /\ hook'[h].pc = "notification"
        BY <1>3, <1>4, <1>6 DEF On
      <3>2. EventBacked(k[1]) => Recording(k)'
        BY <3>1, RecordingWill
      <3> QED
        BY <3>2 DEF Agrees, EventBacked
    <2> QED
      BY <1>1, <2>1, <2>2, HookOwnCalm DEF Calm
  <1> QED
    BY <1>5, <1>6

LEMMA HookNoteCalm ==
  ASSUME PlanInv, ToldInv, NEW k \in Keys, Calm(k), NEW h \in Handlers, HookNotification(h)
  PROVE  Calm(k)'
  <1> DEFINE j == hook[h].key
  <1>1. /\ hook[h].pc = "notification" /\ hook' = [hook EXCEPT ![h] = NoHook]
        /\ UpdateNotification(NoteOf(j), j[1], hook[h].outcome)
        /\ UNCHANGED <<attempt, worker, caller>>
    BY DEF HookNotification
  <1>2. j \in Keys /\ Exists(j) /\ EventBacked(j[1])
    BY <1>1, HookGoodInHand DEF ToldInv, HookTold
  <1>3. hook'[h].pc = "none" /\ \A g \in Handlers : hook'[g] = hook[g] \/ g = h
    BY <1>1, NoHookGood, HookMove
  <1> HIDE DEF j
  <1>4. CASE k # j
    <2>1. HooksElsewhere(k)
      BY <1>3, <1>4 DEF HooksElsewhere, On, j
    <2> QED
      BY <1>1, <1>2, <1>4, <2>1, OtherCalm DEF CallersElsewhere
  <1>5. CASE k = j
    <2>1. hook[h].outcome = attempt[k].status
      BY <1>1, <1>5 DEF Calm, CalmHook, On, j
    <2>2. notification'[NoteOf(k)].status = hook[h].outcome
      BY <1>1, <1>2, <1>5, UpdateNote
    <2>3. Agrees(k)'
      BY <1>1, <2>1, <2>2 DEF Agrees, NoteOf
    <2>4. \A g \in Handlers : On(hook'[g], k) => CalmHook(hook'[g], attempt'[k])
      BY <1>1, <1>3 DEF Calm, On
    <2> QED
      BY <1>1, <2>3, <2>4, HookOwnCalm DEF Calm
  <1> QED
    BY <1>4, <1>5

LEMMA HookFailsCalm ==
  ASSUME PlanInv, NEW k \in Keys, Calm(k), ~trail'[k].disturbed, NEW h \in Handlers, HookFails(h)
  PROVE  Calm(k)'
  <1>1. /\ hook[h].pc # "none" /\ Hit({hook[h].key}) /\ hook' = [hook EXCEPT ![h] = NoHook]
        /\ UNCHANGED <<notification, attempt, worker, caller>>
    BY DEF HookFails, rows
  <1>2. hook'[h].pc = "none" /\ \A g \in Handlers : hook'[g] = hook[g] \/ g = h
    BY <1>1, NoHookGood, HookMove
  <1>3. hook[h].key # k
    BY <1>1, HitDisturbs
  <1>4. HooksElsewhere(k)
    BY <1>2, <1>3 DEF HooksElsewhere, On
  <1> QED
    BY <1>1, <1>4, CalmElsewhere, NoteSame DEF CallersElsewhere, WorkersElsewhere

-----------------------------------------------------------------------------
(* A disturbance is never forgotten. *)
LEMMA DisturbedStays ==
  ASSUME PlanInv, [Next]_vars, NEW k \in Keys, trail[k].disturbed
  PROVE  trail'[k].disturbed
  <1> SUFFICES ASSUME trail'[k] # trail[k]
               PROVE  trail'[k].disturbed = TRUE
    OBVIOUS
  <1>1. trail \in [Keys -> Trail] /\ trail[k] \in Trail /\ trail[k].disturbed = TRUE
    BY DEF PlanInv, TypeOK, Trail
  <1>2. ASSUME NEW S, Hit(S) PROVE trail'[k].disturbed = TRUE
    <2>1. trail'[k] = [trail[k] EXCEPT !.disturbed = trail[k].disturbed \/ k \in S]
      BY <1>2 DEF Hit
    <2>2. (trail[k].disturbed \/ k \in S) = TRUE
      BY <1>1
    <2> QED
      BY <1>1, <2>1, <2>2 DEF Trail
  <1>3. ASSUME NEW w \in Workers, Abandon(w) PROVE trail'[k].disturbed = TRUE
    BY <1>2, <1>3 DEF Abandon
  <1>4. ASSUME NEW d \in Dispatchers, DispatcherFails(d) PROVE trail'[k].disturbed = TRUE
    BY <1>2, <1>4 DEF DispatcherFails, LetGo
  <1>5. ASSUME NEW h \in Handlers, HookFails(h) PROVE trail'[k].disturbed = TRUE
    BY <1>2, <1>5 DEF HookFails
  <1>6. ASSUME NEW d \in Dispatchers, NEW j \in Keys, Claim(d, j) \/ Requeue(d, j)
        PROVE  trail'[k].disturbed = TRUE
    <2>1. CASE Claim(d, j)
      <3>1. trail' = [trail EXCEPT ![j].calls = @ + 1]
        BY <2>1 DEF Claim
      <3>2. trail'[k] = [trail[k] EXCEPT !.calls = trail[k].calls + 1]
        BY <1>1, <3>1
      <3> QED
        BY <1>1, <3>2 DEF Trail
    <2>2. CASE Requeue(d, j)
      <3>1. trail' = [trail EXCEPT ![j].again = @ + 1]
        BY <2>2 DEF Requeue
      <3>2. trail'[k] = [trail[k] EXCEPT !.again = trail[k].again + 1]
        BY <1>1, <3>1
      <3> QED
        BY <1>1, <3>2 DEF Trail
    <2> QED
      BY <1>6, <2>1, <2>2
  <1>7. ASSUME NEW d \in Dispatchers, NEW j \in Keys, Send(d, j)
        PROVE  trail'[k].disturbed = TRUE
    <2>1. PICK answer \in Answer :
            trail' = [trail EXCEPT ![j].told = @ \cup ({answer} \cap Outcome),
                                   ![j].disturbed = @ \/ answer = "queued"]
      BY <1>7 DEF Send
    <2> DEFINE told == trail[k].told \cup ({answer} \cap Outcome)
               hit == trail[k].disturbed \/ answer = "queued"
    <2>2. trail'[k] = [trail[k] EXCEPT !.told = told, !.disturbed = hit]
      BY <1>1, <2>1
    <2>3. hit = TRUE
      BY <1>1
    <2> HIDE DEF told, hit
    <2> QED
      BY <1>1, <2>2, <2>3 DEF Trail
  <1>8. ASSUME NEW j \in Keys, LeaseExpires(j) PROVE trail'[k].disturbed = TRUE
    <2>1. trail' = [trail EXCEPT ![j].again = @ + 1, ![j].disturbed = TRUE]
      BY <1>8 DEF LeaseExpires
    <2>2. trail'[k] = [trail[k] EXCEPT !.again = trail[k].again + 1, !.disturbed = TRUE]
      BY <1>1, <2>1
    <2> QED
      BY <1>1, <2>2 DEF Trail
  <1>9. ASSUME NEW h \in Handlers, NEW j \in Keys, HookLookup(h, j)
        PROVE  trail'[k].disturbed = TRUE
    <2>1. PICK outcome : trail' = [trail EXCEPT ![j].told = @ \cup {outcome}]
      BY <1>9 DEF HookLookup
    <2>2. trail'[k] = [trail[k] EXCEPT !.told = trail[k].told \cup {outcome}]
      BY <1>1, <2>1
    <2> QED
      BY <1>1, <2>2 DEF Trail
  <1>10. ASSUME NEW h \in Handlers, HookAttempt(h) PROVE trail'[k].disturbed = TRUE
    <2> DEFINE j == hook[h].key
               hit == trail[j].disturbed \/ \E d \in Dispatchers : j \in Held(d)
    <2>1. trail' = [trail EXCEPT ![j] = [trail[j] EXCEPT !.disturbed = hit]]
      BY <1>10 DEF HookAttempt
    <2>2. j = k
      <3> HIDE DEF j, hit
      <3> QED
        BY <1>1, <2>1
    <2>3. hit = TRUE
      BY <1>1, <2>2
    <2> HIDE DEF hit
    <2>4. trail'[k] = [trail[k] EXCEPT !.disturbed = hit]
      BY <1>1, <2>1, <2>2
    <2> QED
      BY <1>1, <2>3, <2>4 DEF Trail
  <1>11. ASSUME NEW w \in Workers, Step(w) \/ Take(w) \/ \E m \in Messages : AutoClaimInWork(w, m)
         PROVE  UNCHANGED trail
    BY <1>11 DEF Step, Take, AutoClaimInWork, CreateUserMessage, ListExisting, EnsureNotification,
                 CreateWithoutEvent, TouchLastMessage, ListAttempts, CreateAttempt,
                 UpdateDestination, FailAttempt, FailNotification, Summary, MarkProcessed, Ack,
                 ReadGroup, AutoClaim, dispatch
  <1>12. ASSUME NEW d \in Dispatchers, NEW j \in Keys,
                RecordAttempt(d, j) \/ RecordUserMessage(d, j) \/ RecordNotification(d, j)
         PROVE  UNCHANGED trail
    BY <1>12 DEF RecordAttempt, RecordUserMessage, RecordNotification
  <1>13. ASSUME NEW h \in Handlers, HookUserMessage(h) \/ HookNotification(h)
         PROVE  UNCHANGED trail
    BY <1>13 DEF HookUserMessage, HookNotification
  <1>14. ASSUME (\E m \in Messages : Publish(m) \/ Republish(m)) \/ UNCHANGED vars
         PROVE  UNCHANGED trail
    BY <1>14 DEF Publish, Republish, dispatch, vars
  <1> QED
    BY <1>3, <1>4, <1>5, <1>6, <1>7, <1>8, <1>9, <1>10, <1>11, <1>12, <1>13, <1>14
    DEF Next, Call, Handle

LEMMA CalmInit == Init => CalmInv
  <1> SUFFICES ASSUME Init, NEW k \in Keys PROVE Calm(k)
    BY DEF CalmInv
  <1>1. attempt[k].status = "absent" /\ attempt[k].call = "none" /\ attempt[k].destination = None
    BY DEF Init, Row
  <1>2. \A d \in Dispatchers : caller[d][k].pc = "none"
    BY NoCallGood DEF Init
  <1>3. \A h \in Handlers : ~On(hook[h], k)
    BY NoHookGood DEF Init, On
  <1>4. \A w \in Workers : ~Fails(worker[w], k)
    BY DEF Init, Idle, Fails
  <1>5. CalmRow(attempt[k], k) /\ Agrees(k)
    BY <1>1 DEF CalmRow, Agrees, Outcome
  <1>6. Lone(k) /\ \A d \in Dispatchers : CalmCall(caller[d][k], attempt[k], k)
    BY <1>2, IdleCallCalm DEF Lone
  <1> QED
    BY <1>3, <1>4, <1>5, <1>6 DEF Calm

LEMMA StepCalm ==
  ASSUME PlanInv, ToldInv, SpanInv, NEW k \in Keys, Calm(k), NEW w \in Workers, Step(w)
  PROVE  Calm(k)'
  <1>1. CASE \/ \E u \in Users : CreateUserMessage(w, u)
             \/ \E c \in Channels : CreateWithoutEvent(w, c)
             \/ ListExisting(w) \/ ListAttempts(w) \/ Summary(w) \/ MarkProcessed(w) \/ Ack(w)
    BY <1>1, QuietCalm
  <1>2. CASE (\E c \in Channels : EnsureNotification(w, c)) \/ TouchLastMessage(w)
    BY <1>2, NotedCalm
  <1>3. CASE CreateAttempt(w) \/ UpdateDestination(w) \/ FailAttempt(w) \/ FailNotification(w)
    BY <1>3, CreateCalm, DestinationCalm, FailCalm, FailNoteCalm
  <1> QED
    BY <1>1, <1>2, <1>3 DEF Step

LEMMA CalmNext ==
  ASSUME PlanInv, ToldInv, SpanInv, CalmInv, [Next]_vars
  PROVE  CalmInv'
  <1> SUFFICES ASSUME NEW k \in Keys, ~trail'[k].disturbed
               PROVE  Calm(k)'
    BY DEF CalmInv
  <1>1. Calm(k)
    BY DisturbedStays DEF CalmInv
  <1>2. CASE (\E m \in Messages : Publish(m) \/ Republish(m)) \/ UNCHANGED vars
    <2>1. UNCHANGED <<notification, attempt, worker, caller, hook>>
      BY <1>2 DEF Publish, Republish, rows, dispatch, vars
    <2> QED
      BY <1>1, <2>1, CalmElsewhere, NoteSame
      DEF CallersElsewhere, HooksElsewhere, WorkersElsewhere
  <1>3. ASSUME NEW w \in Workers,
               Take(w) \/ Step(w) \/ Abandon(w) \/ \E m \in Messages : AutoClaimInWork(w, m)
        PROVE  Calm(k)'
    BY <1>1, <1>3, StepCalm, QuietCalm, AbandonCalm DEF Take
  <1>4. ASSUME NEW d \in Dispatchers, DispatcherFails(d) \/ \E j \in Keys : Call(d, j)
        PROVE  Calm(k)'
    BY <1>1, <1>4, ClaimCalm, SendCalm, RequeueCalm, RecordAttemptCalm, RecordUserCalm,
       RecordNoteCalm, DispatcherFailsCalm DEF Call
  <1>5. ASSUME NEW h \in Handlers, Handle(h) \/ HookFails(h) \/ \E j \in Keys : HookLookup(h, j)
        PROVE  Calm(k)'
    BY <1>1, <1>5, HookLookupCalm, HookAttemptCalm, HookUserCalm, HookNoteCalm, HookFailsCalm
    DEF Handle
  <1>6. ASSUME NEW j \in Keys, LeaseExpires(j) PROVE Calm(k)'
    BY <1>1, <1>6, LeaseCalm
  <1> QED
    BY <1>2, <1>3, <1>4, <1>5, <1>6 DEF Next

(* However planner, dispatchers and callbacks interleave: attempt and      *)
(* notification end the same, unless a fault hit the attempt or a callback *)
(* was applied while a dispatcher had it in work.                          *)
THEOREM DisagreementsExplained == Spec => []PartedOnlyByDisturbance
  <1>1. PlanInv /\ ToldInv /\ SpanInv /\ CalmInv /\ [Next]_vars => CalmInv'
    BY CalmNext
  <1>2. CalmInv => PartedOnlyByDisturbance
    BY DEF CalmInv, Calm, Agrees, PartedOnlyByDisturbance
  <1> QED
    BY <1>1, <1>2, Invariance, ToldInvariance, SpanInvariance, CalmInit, PTL DEF Spec

=============================================================================
