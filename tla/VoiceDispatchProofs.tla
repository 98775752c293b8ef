------------------------ MODULE VoiceDispatchProofs ------------------------
(***************************************************************************)
(* Proofs about VoiceDispatch: type correctness, and what the lease        *)
(* protects.                                                               *)
(***************************************************************************)
EXTENDS VoiceDispatch, TLAPS

(* The sets the variables range over, and the record constants. *)
LEMMA ConstantTypes ==
  /\ Idle \in Dispatcher
  /\ EmptyCache \in [Messages -> CachedOutcome]
  BY ConstantsAssumption
     DEF Idle, Dispatcher, DispatcherPc, EmptyCache, CachedOutcome, NoOutcome

LEMMA InitTypeOK == Init => TypeOK
  <1> SUFFICES ASSUME Init PROVE TypeOK
    OBVIOUS
  <1>1. row \in [Attempts -> Row]
    BY DEF Init, Row, RowStatus
  <1>2. user \in [Attempts -> {"queued"} \cup Outcome] /\ notif \in [Attempts -> Notification]
    BY DEF Init, Notification
  <1>3. /\ disp \in [Dispatchers -> Dispatcher]
        /\ cache \in [Dispatchers -> [Messages -> CachedOutcome]]
    BY ConstantTypes DEF Init
  <1>4. call \in [Sids -> CallRecord] /\ hook \in [Sids -> Hook]
    BY DEF Init, CallRecord, Hook, HookPc
  <1>5. /\ late \in [Attempts -> Nat] /\ ambiguous \in [Attempts -> Nat]
        /\ faults \in 0..MaxFaults
    BY ConstantsAssumption DEF Init
  <1> QED
    BY <1>1, <1>2, <1>3, <1>4, <1>5 DEF TypeOK

(* The statements keep the type of the table they write. *)
LEMMA UpdateStatusType ==
  ASSUME TypeOK, NEW a, NEW status \in RowStatus, NEW sid \in Sids \cup {None},
         NEW delivered \in BOOLEAN, UpdateStatus(a, status, sid, delivered)
  PROVE  row' \in [Attempts -> Row]
  <1> DEFINE written == [row[a] EXCEPT !.status = status, !.sid = sid, !.lease = None,
                                       !.expired = FALSE, !.delivered = delivered]
  <1>1. a \in Attempts => written \in Row
    <2>1. a \in Attempts => row[a] \in Row
      BY DEF TypeOK
    <2> QED
      BY <2>1 DEF Row
  <1>2. row' = [row EXCEPT ![a] = written]
    BY DEF UpdateStatus
  <1> HIDE DEF written
  <1> QED
    BY <1>1, <1>2 DEF TypeOK

LEMMA RequeueType ==
  ASSUME TypeOK, NEW a, Requeue(a)
  PROVE  row' \in [Attempts -> Row]
  <1> DEFINE written == [row[a] EXCEPT !.status = "queued", !.due = FALSE,
                                       !.lease = None, !.expired = FALSE]
  <1>1. a \in Attempts => written \in Row
    <2>1. a \in Attempts => row[a] \in Row
      BY DEF TypeOK
    <2> QED
      BY <2>1 DEF Row, RowStatus
  <1>2. row' = [row EXCEPT ![a] = written]
    BY DEF Requeue
  <1> HIDE DEF written
  <1> QED
    BY <1>1, <1>2 DEF TypeOK

LEMMA UpdateVoiceCallbackType ==
  ASSUME TypeOK, NEW a, NEW status \in Outcome, UpdateVoiceCallback(a, status)
  PROVE  row' \in [Attempts -> Row]
  <1> DEFINE done == status = "sent"
             written == [row[a] EXCEPT !.status = status, !.delivered = done,
                                       !.report = status]
  <1>0. done \in BOOLEAN /\ status \in RowStatus /\ status \in {"none", "sent", "failed"}
    BY DEF Outcome, RowStatus
  <1>2. row' = [row EXCEPT ![a] = written]
    BY DEF UpdateVoiceCallback
  <1> HIDE DEF done
  <1>1. a \in Attempts => written \in Row
    <2>1. a \in Attempts => row[a] \in Row
      BY DEF TypeOK
    <2> QED
      BY <1>0, <2>1 DEF Row
  <1> HIDE DEF written
  <1> QED
    BY <1>1, <1>2 DEF TypeOK

LEMMA UpdateNotificationType ==
  ASSUME TypeOK, NEW a, NEW status \in {"queued"} \cup Outcome, NEW delivered \in BOOLEAN,
         UpdateNotification(a, status, delivered)
  PROVE  notif' \in [Attempts -> Notification]
  <1> DEFINE written == [status |-> status, delivered |-> notif[a].delivered \/ delivered]
  <1>1. a \in Attempts => written \in Notification
    BY DEF TypeOK, Notification
  <1>2. notif' = [notif EXCEPT ![a] = written]
    BY DEF UpdateNotification
  <1> HIDE DEF written
  <1> QED
    BY <1>1, <1>2 DEF TypeOK

(* Moving a dispatcher or a callback on keeps their types. *)
LEMMA ContinueType ==
  ASSUME TypeOK, NEW d \in Dispatchers, Continue(d)
  PROVE  disp' \in [Dispatchers -> Dispatcher]
  <1> DEFINE next == IF disp[d].todo = {} THEN Idle
                     ELSE [disp[d] EXCEPT !.pc = "loop", !.cur = None, !.sid = None,
                                          !.delivered = FALSE]
  <1>1. next \in Dispatcher
    BY ConstantTypes DEF TypeOK, Dispatcher, DispatcherPc
  <1>2. disp' = [disp EXCEPT ![d] = next]
    BY DEF Continue
  <1> HIDE DEF next
  <1> QED
    BY <1>1, <1>2 DEF TypeOK

LEMMA GotoType ==
  ASSUME TypeOK, NEW d \in Dispatchers, NEW pc \in DispatcherPc, Goto(d, pc)
  PROVE  disp' \in [Dispatchers -> Dispatcher]
  <1> DEFINE next == [disp[d] EXCEPT !.pc = pc]
  <1>1. next \in Dispatcher
    BY DEF TypeOK, Dispatcher
  <1>2. disp' = [disp EXCEPT ![d] = next]
    BY DEF Goto
  <1> HIDE DEF next
  <1> QED
    BY <1>1, <1>2 DEF TypeOK

LEMMA CacheCollapsedType ==
  ASSUME TypeOK, NEW d \in Dispatchers, CacheCollapsed(d)
  PROVE  cache' \in [Dispatchers -> [Messages -> CachedOutcome]]
  <1> DEFINE known == [sid |-> disp[d].sid, delivered |-> disp[d].delivered]
             m == messageOf[disp[d].cur]
  <1>1. known \in CachedOutcome
    BY DEF TypeOK, Dispatcher, CachedOutcome
  <1>2. cache' = [cache EXCEPT ![d] = [cache[d] EXCEPT ![m] = known]] \/ cache' = cache
    BY DEF CacheCollapsed
  <1> HIDE DEF known, m
  <1>3. cache[d] \in [Messages -> CachedOutcome]
    BY DEF TypeOK
  <1>4. [cache[d] EXCEPT ![m] = known] \in [Messages -> CachedOutcome]
    BY <1>1, <1>3
  <1> QED
    BY <1>2, <1>4 DEF TypeOK

LEMMA PlaceType ==
  ASSUME TypeOK, NEW c \in Sids, NEW a \in Attempts \cup {None}, Place(c, a)
  PROVE  call' \in [Sids -> CallRecord]
  <1>1. [attempt |-> a, state |-> "live"] \in CallRecord
    BY DEF CallRecord
  <1> QED
    BY <1>1 DEF TypeOK, Place

LEMMA FaultType == ASSUME TypeOK, Fault PROVE faults' \in 0..MaxFaults
  BY ConstantsAssumption DEF TypeOK, Fault

(* Each step of the environment keeps the types. *)
LEMMA EnvironmentTypeOK ==
  ASSUME TypeOK, NEW a \in Attempts, Create(a) \/ LeaseExpires(a) \/ RetryDue(a)
  PROVE  TypeOK'
  <1>1. CASE Create(a)
    <2>1. row' \in [Attempts -> Row]
      <3>1. [row[a] EXCEPT !.status = "queued"] \in Row
        <4>1. row[a] \in Row
          BY DEF TypeOK
        <4> QED
          BY <4>1 DEF Row, RowStatus
      <3> QED
        BY <1>1, <3>1 DEF Create, TypeOK
    <2> QED
      BY <1>1, <2>1 DEF Create, TypeOK, history
  <1>2. CASE LeaseExpires(a)
    <2>1. row' \in [Attempts -> Row] /\ late' \in [Attempts -> Nat]
      <3>1. [row[a] EXCEPT !.expired = TRUE] \in Row
        <4>1. row[a] \in Row
          BY DEF TypeOK
        <4> QED
          BY <4>1 DEF Row
      <3> QED
        BY <1>2, <3>1 DEF LeaseExpires, TypeOK
    <2>2. faults' \in 0..MaxFaults
      BY <1>2, FaultType DEF LeaseExpires, TypeOK
    <2> QED
      BY <1>2, <2>1, <2>2 DEF LeaseExpires, TypeOK
  <1>3. CASE RetryDue(a)
    <2>1. row' \in [Attempts -> Row]
      <3>1. [row[a] EXCEPT !.due = TRUE] \in Row
        <4>1. row[a] \in Row
          BY DEF TypeOK
        <4> QED
          BY <4>1 DEF Row
      <3> QED
        BY <1>3, <3>1 DEF RetryDue, TypeOK
    <2> QED
      BY <1>3, <2>1 DEF RetryDue, TypeOK, history
  <1> QED
    BY <1>1, <1>2, <1>3

(* Each step of a dispatcher keeps the types. *)
LEMMA ClaimTypeOK ==
  ASSUME TypeOK, NEW d \in Dispatchers,
         ClaimUpdate(d) \/ ClaimSelect(d) \/ ClaimSelectFails(d)
  PROVE  TypeOK'
  <1>1. CASE ClaimUpdate(d)
    <2> DEFINE picked == FirstOf({a \in Attempts : Claimable(a)}, ClaimLimit)
               next == [Idle EXCEPT !.pc = "select", !.todo = picked]
               claimed(a) == [row[a] EXCEPT !.status = "dispatching", !.lease = d,
                                            !.expired = FALSE]
    <2>1. picked \in SUBSET Attempts
      BY DEF FirstOf
    <2>2. /\ disp' = [disp EXCEPT ![d] = next]
          /\ row' = [a \in Attempts |-> IF a \in picked THEN claimed(a) ELSE row[a]]
      BY <1>1 DEF ClaimUpdate
    <2> HIDE DEF picked
    <2>3. next \in Dispatcher
      BY <2>1, ConstantTypes DEF Dispatcher, DispatcherPc
    <2>4. \A a \in Attempts : claimed(a) \in Row
      <3>1. \A a \in Attempts : row[a] \in Row
        BY DEF TypeOK
      <3> QED
        BY <3>1 DEF Row, RowStatus
    <2> HIDE DEF next, claimed
    <2>5. disp' \in [Dispatchers -> Dispatcher] /\ row' \in [Attempts -> Row]
      BY <2>2, <2>3, <2>4 DEF TypeOK
    <2> QED
      BY <1>1, <2>5 DEF ClaimUpdate, TypeOK, history
  <1>2. CASE ClaimSelect(d)
    <2> DEFINE held == {a \in disp[d].todo : LeaseHeldBy(d, a)}
               next == IF held = {} THEN Idle
                       ELSE [Idle EXCEPT !.pc = "loop", !.batch = held, !.todo = held]
    <2>1. held \in SUBSET Attempts
      BY DEF TypeOK, Dispatcher
    <2>2. disp' = [disp EXCEPT ![d] = next]
      BY <1>2 DEF ClaimSelect
    <2> HIDE DEF held
    <2>3. next \in Dispatcher
      BY <2>1, ConstantTypes DEF Dispatcher, DispatcherPc
    <2> HIDE DEF next
    <2>4. disp' \in [Dispatchers -> Dispatcher]
      BY <2>2, <2>3 DEF TypeOK
    <2> QED
      BY <1>2, <2>4 DEF ClaimSelect, TypeOK, history, rows
  <1>3. CASE ClaimSelectFails(d)
    BY <1>3, ConstantTypes, FaultType DEF ClaimSelectFails, TypeOK, history, rows
  <1> QED
    BY <1>1, <1>2, <1>3

LEMMA TakeUpType ==
  ASSUME TypeOK, NEW d \in Dispatchers, NEW a \in Attempts, NEW pc \in DispatcherPc,
         NEW known \in CachedOutcome, TakeUp(d, a, pc, known)
  PROVE  disp' \in [Dispatchers -> Dispatcher]
  <1> DEFINE next == [pc |-> pc, batch |-> disp[d].batch, todo |-> disp[d].todo \ {a},
                      cur |-> a, sid |-> known.sid, delivered |-> known.delivered]
  <1>1. next \in Dispatcher
    BY DEF TypeOK, Dispatcher, CachedOutcome
  <1>2. disp' = [disp EXCEPT ![d] = next]
    BY DEF TakeUp
  <1> HIDE DEF next
  <1> QED
    BY <1>1, <1>2 DEF TypeOK

(* What the lookup for a collapsed call returns. *)
LEMMA LookupsType ==
  ASSUME TypeOK, NEW d \in Dispatchers, NEW m \in Messages
  PROVE  Lookups(d, m) \subseteq CachedOutcome
  <1>1. cache[d][m] \in CachedOutcome
    BY DEF TypeOK
  <1>2. NoOutcome \in CachedOutcome
    BY DEF NoOutcome, CachedOutcome
  <1>3. \A b \in Attempts : [sid |-> row[b].sid, delivered |-> row[b].delivered] \in CachedOutcome
    BY DEF TypeOK, Row, CachedOutcome
  <1> QED
    BY <1>1, <1>2, <1>3 DEF Lookups, SentRows

LEMMA LoopTypeOK ==
  ASSUME TypeOK, NEW d \in Dispatchers, StartCall(d) \/ ReuseCall(d) \/ LookupFails(d)
  PROVE  TypeOK'
  <1>1. CASE StartCall(d)
    <2>1. PICK a \in Attempts : TakeUp(d, a, "send", NoOutcome)
      BY <1>1 DEF StartCall
    <2>2. disp' \in [Dispatchers -> Dispatcher]
      BY <2>1, TakeUpType DEF NoOutcome, CachedOutcome, DispatcherPc
    <2> QED
      BY <1>1, <2>2 DEF StartCall, TypeOK, history, rows
  <1>2. CASE ReuseCall(d)
    <2>1. PICK a \in Attempts : \E known \in Lookups(d, messageOf[a]) :
            /\ cache' = [cache EXCEPT ![d][messageOf[a]] = known]
            /\ TakeUp(d, a, "markAttempt", known)
      BY <1>2 DEF ReuseCall
    <2>2. PICK known \in Lookups(d, messageOf[a]) :
            /\ cache' = [cache EXCEPT ![d] = [cache[d] EXCEPT ![messageOf[a]] = known]]
            /\ TakeUp(d, a, "markAttempt", known)
      BY <2>1
    <2>3. messageOf[a] \in Messages
      BY ConstantsAssumption
    <2>4. known \in CachedOutcome
      BY <2>2, <2>3, LookupsType
    <2>5. [cache[d] EXCEPT ![messageOf[a]] = known] \in [Messages -> CachedOutcome]
      BY <2>4 DEF TypeOK
    <2>6. cache' \in [Dispatchers -> [Messages -> CachedOutcome]]
      BY <2>2, <2>5 DEF TypeOK
    <2>7. disp' \in [Dispatchers -> Dispatcher]
      BY <2>2, <2>4, TakeUpType DEF DispatcherPc
    <2> QED
      BY <1>2, <2>6, <2>7 DEF ReuseCall, TypeOK, history, rows
  <1>3. CASE LookupFails(d)
    <2>1. PICK rest \in SUBSET Attempts :
            disp' = [disp EXCEPT ![d] = IF rest = {} THEN Idle
                                        ELSE [disp[d] EXCEPT !.todo = rest]]
      BY <1>3 DEF LookupFails, TypeOK, Dispatcher
    <2>2. [disp[d] EXCEPT !.todo = rest] \in Dispatcher
      BY DEF TypeOK, Dispatcher
    <2>3. disp' \in [Dispatchers -> Dispatcher]
      BY <2>1, <2>2, ConstantTypes DEF TypeOK
    <2> QED
      BY <1>3, <2>3, FaultType DEF LookupFails, TypeOK, history, rows
  <1> QED
    BY <1>1, <1>2, <1>3

LEMMA SendTypeOK ==
  ASSUME TypeOK, NEW d \in Dispatchers, SendOk(d) \/ SendRetryable(d) \/ SendRefused(d)
  PROVE  TypeOK'
  <1>0. disp[d].cur \in Attempts \cup {None}
    BY DEF TypeOK, Dispatcher
  <1>1. CASE SendOk(d)
    <2>1. PICK c \in Sids :
            /\ Place(c, disp[d].cur)
            /\ disp' = [disp EXCEPT ![d] = [disp[d] EXCEPT !.pc = "markAttempt", !.sid = c]]
      BY <1>1 DEF SendOk
    <2>2. call' \in [Sids -> CallRecord]
      BY <1>0, <2>1, PlaceType
    <2>3. [disp[d] EXCEPT !.pc = "markAttempt", !.sid = c] \in Dispatcher
      <3>1. disp[d] \in Dispatcher
        BY DEF TypeOK
      <3> QED
        BY <3>1 DEF Dispatcher, DispatcherPc
    <2>4. disp' \in [Dispatchers -> Dispatcher]
      BY <2>1, <2>3 DEF TypeOK
    <2> QED
      BY <1>1, <2>2, <2>4 DEF SendOk, TypeOK, history, rows
  <1>2. CASE SendRetryable(d)
    <2>1. call' \in [Sids -> CallRecord]
      BY <1>0, <1>2, PlaceType DEF SendRetryable, TypeOK
    <2>2. ambiguous' \in [Attempts -> Nat]
      BY <1>2 DEF SendRetryable, TypeOK
    <2>3. disp' \in [Dispatchers -> Dispatcher]
      BY <1>2, GotoType DEF SendRetryable, DispatcherPc
    <2> QED
      BY <1>2, <2>1, <2>2, <2>3, FaultType DEF SendRetryable, TypeOK, rows
  <1>3. CASE SendRefused(d)
    <2>1. call' \in [Sids -> CallRecord]
      BY <1>0, <1>3, PlaceType DEF SendRefused, TypeOK
    <2>2. faults' \in 0..MaxFaults
      BY <1>3, FaultType DEF SendRefused, TypeOK
    <2>3. disp' \in [Dispatchers -> Dispatcher]
      BY <1>3, GotoType DEF SendRefused, DispatcherPc
    <2> QED
      BY <1>3, <2>1, <2>2, <2>3 DEF SendRefused, TypeOK, history, rows
  <1> QED
    BY <1>1, <1>2, <1>3

LEMMA WriteTypeOK ==
  ASSUME TypeOK, NEW d \in Dispatchers,
         \/ MarkAttempt(d) \/ MarkUser(d) \/ MarkNotif(d)
         \/ RequeueAttempt(d) \/ RequeueNotif(d)
         \/ FailAttempt(d) \/ FailUser(d) \/ FailNotif(d)
  PROVE  TypeOK'
  <1>0. disp[d].sid \in Sids \cup {None} /\ disp[d].delivered \in BOOLEAN
    BY DEF TypeOK, Dispatcher
  <1>1. CASE MarkAttempt(d)
    <2>1. row' \in [Attempts -> Row]
      BY <1>0, <1>1, UpdateStatusType DEF MarkAttempt, RowStatus
    <2>2. disp' \in [Dispatchers -> Dispatcher]
      BY <1>1, GotoType DEF MarkAttempt, DispatcherPc
    <2> QED
      BY <1>1, <2>1, <2>2 DEF MarkAttempt, TypeOK, history
  <1>2. CASE MarkUser(d)
    <2>1. user' \in [Attempts -> {"queued"} \cup Outcome]
      BY <1>2 DEF MarkUser, TypeOK, Outcome
    <2>2. disp' \in [Dispatchers -> Dispatcher]
      BY <1>2, GotoType, ContinueType DEF MarkUser, DispatcherPc
    <2>3. cache' \in [Dispatchers -> [Messages -> CachedOutcome]]
      BY <1>2, CacheCollapsedType DEF MarkUser, TypeOK
    <2> QED
      BY <1>2, <2>1, <2>2, <2>3 DEF MarkUser, TypeOK, history
  <1>3. CASE MarkNotif(d)
    <2>1. notif' \in [Attempts -> Notification]
      BY <1>0, <1>3, UpdateNotificationType DEF MarkNotif, Outcome
    <2>2. disp' \in [Dispatchers -> Dispatcher]
      BY <1>3, ContinueType DEF MarkNotif
    <2>3. cache' \in [Dispatchers -> [Messages -> CachedOutcome]]
      BY <1>3, CacheCollapsedType DEF MarkNotif
    <2> QED
      BY <1>3, <2>1, <2>2, <2>3 DEF MarkNotif, TypeOK, history
  <1>4. CASE RequeueAttempt(d)
    <2>1. row' \in [Attempts -> Row]
      BY <1>4, RequeueType DEF RequeueAttempt
    <2>2. disp' \in [Dispatchers -> Dispatcher]
      BY <1>4, GotoType, ContinueType DEF RequeueAttempt, DispatcherPc
    <2> QED
      BY <1>4, <2>1, <2>2 DEF RequeueAttempt, TypeOK, history
  <1>5. CASE RequeueNotif(d)
    <2>1. notif' \in [Attempts -> Notification]
      BY <1>5, UpdateNotificationType DEF RequeueNotif
    <2>2. disp' \in [Dispatchers -> Dispatcher]
      BY <1>5, ContinueType DEF RequeueNotif
    <2> QED
      BY <1>5, <2>1, <2>2 DEF RequeueNotif, TypeOK, history
  <1>6. CASE FailAttempt(d)
    <2>1. row' \in [Attempts -> Row]
      BY <1>6, UpdateStatusType DEF FailAttempt, RowStatus
    <2>2. disp' \in [Dispatchers -> Dispatcher]
      BY <1>6, GotoType DEF FailAttempt, DispatcherPc
    <2> QED
      BY <1>6, <2>1, <2>2 DEF FailAttempt, TypeOK, history
  <1>7. CASE FailUser(d)
    <2>1. user' \in [Attempts -> {"queued"} \cup Outcome]
      BY <1>7 DEF FailUser, TypeOK, Outcome
    <2>2. disp' \in [Dispatchers -> Dispatcher]
      BY <1>7, GotoType, ContinueType DEF FailUser, DispatcherPc
    <2> QED
      BY <1>7, <2>1, <2>2 DEF FailUser, TypeOK, history
  <1>8. CASE FailNotif(d)
    <2>1. notif' \in [Attempts -> Notification]
      BY <1>8, UpdateNotificationType DEF FailNotif, Outcome
    <2>2. disp' \in [Dispatchers -> Dispatcher]
      BY <1>8, ContinueType DEF FailNotif
    <2> QED
      BY <1>8, <2>1, <2>2 DEF FailNotif, TypeOK, history
  <1> QED
    BY <1>1, <1>2, <1>3, <1>4, <1>5, <1>6, <1>7, <1>8

LEMMA AbandonTypeOK ==
  ASSUME TypeOK, NEW d \in Dispatchers, StatementFails(d) \/ Restart(d)
  PROVE  TypeOK'
  <1>1. CASE StatementFails(d)
    BY <1>1, ContinueType, FaultType DEF StatementFails, TypeOK, history, rows
  <1>2. CASE Restart(d)
    <2>1. /\ disp' \in [Dispatchers -> Dispatcher]
          /\ cache' \in [Dispatchers -> [Messages -> CachedOutcome]]
      BY <1>2, ConstantTypes DEF Restart, TypeOK
    <2> QED
      BY <1>2, <2>1, FaultType DEF Restart, TypeOK, history, rows
  <1> QED
    BY <1>1, <1>2

(* Each step of Twilio and of the callback handler keeps the types. *)
LEMMA HookTypeOK ==
  ASSUME TypeOK, NEW c \in Sids,
         CallEnds(c) \/ Handling(c) \/ HookFails(c) \/ HookRepeats(c)
  PROVE  TypeOK'
  <1>0. /\ ReportOf(c) \in Outcome
        /\ hook[c].todo \in SUBSET Attempts
    BY DEF ReportOf, Outcome, TypeOK, Hook
  <1>a. ASSUME NEW pc \in HookPc, hook' = [hook EXCEPT ![c].pc = pc]
        PROVE  hook' \in [Sids -> Hook]
    <2>1. [hook[c] EXCEPT !.pc = pc] \in Hook
      BY <1>a DEF TypeOK, Hook
    <2> QED
      BY <1>a, <2>1 DEF TypeOK
  <1>b. ASSUME NEW a, HookNext(c, a) PROVE hook' \in [Sids -> Hook]
    <2> DEFINE rest == hook[c].todo \ {a}
               next == [pc |-> IF rest = {} THEN "done" ELSE "attempt", todo |-> rest]
    <2>1. next \in Hook
      BY <1>0 DEF Hook, HookPc
    <2>2. hook' = [hook EXCEPT ![c] = next]
      BY <1>b DEF HookNext
    <2> HIDE DEF next
    <2> QED
      BY <2>1, <2>2 DEF TypeOK
  <1>1. CASE CallEnds(c)
    <2>1. PICK outcome \in {"completed", "failed"} :
            call' = [call EXCEPT ![c] = [call[c] EXCEPT !.state = outcome]]
      BY <1>1 DEF CallEnds
    <2>2. [call[c] EXCEPT !.state = outcome] \in CallRecord
      BY DEF TypeOK, CallRecord
    <2>3. call' \in [Sids -> CallRecord]
      BY <2>1, <2>2 DEF TypeOK
    <2>4. [pc |-> "pending", todo |-> {}] \in Hook
      BY DEF Hook, HookPc
    <2>5. hook' \in [Sids -> Hook]
      BY <1>1, <2>4 DEF CallEnds, TypeOK
    <2> QED
      BY <1>1, <2>3, <2>5 DEF CallEnds, TypeOK, history, rows
  <1>2. CASE HookLookup(c)
    <2> DEFINE found == {a \in Attempts : row[a].sid = c}
               next == [pc |-> IF found = {} THEN "dropped" ELSE "attempt", todo |-> found]
    <2>2. next \in Hook
      BY DEF Hook, HookPc
    <2>3. hook' = [hook EXCEPT ![c] = next]
      BY <1>2 DEF HookLookup
    <2> HIDE DEF next
    <2>1. hook' \in [Sids -> Hook]
      BY <2>2, <2>3 DEF TypeOK
    <2> QED
      BY <1>2, <2>1 DEF HookLookup, TypeOK, history, rows
  <1>3. CASE HookAttempt(c)
    <2>1. row' \in [Attempts -> Row]
      BY <1>0, <1>3, UpdateVoiceCallbackType DEF HookAttempt
    <2>2. hook' \in [Sids -> Hook]
      BY <1>a, <1>3 DEF HookAttempt, HookPc
    <2> QED
      BY <1>3, <2>1, <2>2 DEF HookAttempt, TypeOK, history
  <1>4. CASE HookUser(c)
    <2>1. PICK a \in Attempts :
            /\ user' = [user EXCEPT ![a] = ReportOf(c)]
            /\ IF a \in EventBacked THEN hook' = [hook EXCEPT ![c].pc = "notif"]
               ELSE HookNext(c, a)
      BY <1>4 DEF HookUser
    <2>2. user' \in [Attempts -> {"queued"} \cup Outcome]
      BY <1>0, <2>1 DEF TypeOK
    <2>3. hook' \in [Sids -> Hook]
      BY <1>a, <1>b, <2>1 DEF HookPc
    <2> QED
      BY <1>4, <2>2, <2>3 DEF HookUser, TypeOK, history
  <1>5. CASE HookNotif(c)
    <2>1. PICK a \in Attempts :
            /\ UpdateNotification(a, ReportOf(c), ReportOf(c) = "sent")
            /\ HookNext(c, a)
      BY <1>5 DEF HookNotif
    <2>2. notif' \in [Attempts -> Notification]
      BY <1>0, <2>1, UpdateNotificationType
    <2>3. hook' \in [Sids -> Hook]
      BY <1>b, <2>1
    <2> QED
      BY <1>5, <2>2, <2>3 DEF HookNotif, TypeOK, history
  <1>6. CASE HookFails(c)
    <2>2. PICK pc \in {"pending", "dropped"} : hook' = [hook EXCEPT ![c] = [pc |-> pc, todo |-> {}]]
      BY <1>6 DEF HookFails
    <2>3. [pc |-> pc, todo |-> {}] \in Hook
      BY DEF Hook, HookPc
    <2>1. hook' \in [Sids -> Hook]
      BY <2>2, <2>3 DEF TypeOK
    <2> QED
      BY <1>6, <2>1, FaultType DEF HookFails, TypeOK, history, rows
  <1>7. CASE HookRepeats(c)
    <2>1. hook' \in [Sids -> Hook]
      BY <1>a, <1>7 DEF HookRepeats, HookPc
    <2> QED
      BY <1>7, <2>1, FaultType DEF HookRepeats, TypeOK, history, rows
  <1> QED
    BY <1>1, <1>2, <1>3, <1>4, <1>5, <1>6, <1>7 DEF Handling

LEMMA NextTypeOK == TypeOK /\ [Next]_vars => TypeOK'
  <1> SUFFICES ASSUME TypeOK, [Next]_vars PROVE TypeOK'
    OBVIOUS
  <1>1. ASSUME NEW a \in Attempts, Create(a) \/ LeaseExpires(a) \/ RetryDue(a) PROVE TypeOK'
    BY <1>1, EnvironmentTypeOK
  <1>2. ASSUME NEW d \in Dispatchers, Working(d) \/ Failing(d) PROVE TypeOK'
    BY <1>2, ClaimTypeOK, LoopTypeOK, SendTypeOK, WriteTypeOK, AbandonTypeOK
       DEF Working, Failing
  <1>3. ASSUME NEW c \in Sids, CallEnds(c) \/ Handling(c) \/ HookFails(c) \/ HookRepeats(c)
        PROVE  TypeOK'
    BY <1>3, HookTypeOK
  <1>4. CASE UNCHANGED vars
    BY <1>4 DEF vars, TypeOK
  <1> QED
    BY <1>1, <1>2, <1>3, <1>4 DEF Next

(* Whatever the rows, processes and faults, every variable keeps the type  *)
(* TypeOK gives it.                                                        *)
THEOREM TypeCorrect == Spec => []TypeOK
  BY InitTypeOK, NextTypeOK, PTL DEF Spec
=============================================================================
