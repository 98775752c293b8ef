--------------------------- MODULE VoiceDispatch ---------------------------
(***************************************************************************)
(* The voice-dispatcher processes, the delivery_attempts, users_messages   *)
(* and notifications rows they share with the API's Twilio callback        *)
(* handler, and the calls Twilio places.                                   *)
(*                                                                         *)
(* A dispatcher claims a batch of rows under a lease with one UPDATE,      *)
(* reads the batch back with a SELECT, and handles the rows one by one:    *)
(* it looks for a collapsed call, waits for the pacer, asks Twilio for a   *)
(* call and records the outcome with up to three UPDATEs that no           *)
(* transaction joins.  Every statement is a step of its own, so that the   *)
(* steps of other dispatchers and of the callback handler fall between     *)
(* them, and so that each of them can fail or be the last before a crash.  *)
(*                                                                         *)
(* A row is named by its id, which also orders rows by requested_at: the   *)
(* claim breaks ties the way the ids were given out.  The clock is left    *)
(* out: a lease expires, and a retry comes due, at any moment after it was *)
(* set.                                                                    *)
(***************************************************************************)
EXTENDS Integers, FiniteSets

CONSTANTS
  Attempts,     (* ids of the voice rows of delivery_attempts             *)
  Messages,     (* ids of the messages rows                               *)
  messageOf,    (* the message an attempt belongs to                      *)
  receivedAt,   (* messages.received_at                                   *)
  EventBacked,  (* the attempts whose notification_id is not NULL         *)
  Dispatchers,  (* the voice-dispatcher processes                         *)
  Sids,         (* the call ids (SIDs) Twilio may hand out, numbered in   *)
                (* the order it does                                      *)
  ClaimLimit,   (* THUNDERCALL_VOICE_CLAIM_BATCH                          *)
  Collapse,     (* the sender's CollapseVoiceOverrideCalls()              *)
  MaxFaults,    (* bound on crashes, failed statements, lost answers,     *)
                (* retryable refusals, slow dispatchers, repeated calls   *)
                (* of the webhook                                         *)
  None

ASSUME ConstantsAssumption ==
  /\ Attempts \subseteq Nat /\ IsFiniteSet(Attempts)
  /\ messageOf \in [Attempts -> Messages]
  /\ receivedAt \in [Messages -> Nat]
  /\ EventBacked \subseteq Attempts
  /\ Sids \subseteq Nat
  /\ ClaimLimit \in Nat \ {0}
  /\ Collapse \in BOOLEAN
  /\ MaxFaults \in Nat
  /\ None \notin Attempts /\ None \notin Dispatchers /\ None \notin Sids

VARIABLES
  row,       (* delivery_attempts                                         *)
  user,      (* users_messages.status of the attempt's users_messages row *)
  notif,     (* the notifications row behind an event-backed attempt      *)
  disp,      (* the state of each dispatcher's Run loop                   *)
  cache,     (* Service.collapsedByMessage of each dispatcher             *)
  call,      (* Twilio's calls                                            *)
  hook,      (* the status callback of each call                          *)
  late,      (* history: how often the lease of a row ran out             *)
  ambiguous, (* history: calls placed whose answer asked for a retry      *)
  faults     (* faults so far, at most MaxFaults                          *)

vars == <<row, user, notif, disp, cache, call, hook, late, ambiguous, faults>>
rows == <<row, user, notif>>
history == <<late, ambiguous>>

RowStatus  == {"absent", "queued", "dispatching", "sent", "failed"}
Outcome    == {"sent", "failed"}
Row == [status : RowStatus, lease : Dispatchers \cup {None}, expired : BOOLEAN,
        due : BOOLEAN, sid : Sids \cup {None}, delivered : BOOLEAN,
        report : {"none", "sent", "failed"}]
Notification == [status : {"queued"} \cup Outcome, delivered : BOOLEAN]
DispatcherPc == {"idle", "select", "loop", "send",
                 "markAttempt", "markUser", "markNotif",
                 "requeueAttempt", "requeueNotif",
                 "failAttempt", "failUser", "failNotif"}
Dispatcher == [pc : DispatcherPc, batch : SUBSET Attempts, todo : SUBSET Attempts,
               cur : Attempts \cup {None}, sid : Sids \cup {None}, delivered : BOOLEAN]
CallRecord == [attempt : Attempts \cup {None},
               state : {"none", "live", "completed", "failed"}]
HookPc == {"none", "pending", "attempt", "user", "notif", "done", "dropped"}
Hook == [pc : HookPc, todo : SUBSET Attempts]
CachedOutcome == [sid : Sids \cup {None}, delivered : BOOLEAN]

Idle == [pc |-> "idle", batch |-> {}, todo |-> {}, cur |-> None,
         sid |-> None, delivered |-> FALSE]
NoOutcome == [sid |-> None, delivered |-> FALSE]
EmptyCache == [m \in Messages |-> NoOutcome]

Init ==
  /\ row = [a \in Attempts |-> [status |-> "absent", lease |-> None, expired |-> FALSE,
                                due |-> TRUE, sid |-> None, delivered |-> FALSE,
                                report |-> "none"]]
  /\ user = [a \in Attempts |-> "queued"]
  /\ notif = [a \in Attempts |-> [status |-> "queued", delivered |-> FALSE]]
  /\ disp = [d \in Dispatchers |-> Idle]
  /\ cache = [d \in Dispatchers |-> EmptyCache]
  /\ call = [c \in Sids |-> [attempt |-> None, state |-> "none"]]
  /\ hook = [c \in Sids |-> [pc |-> "none", todo |-> {}]]
  /\ late = [a \in Attempts |-> 0]
  /\ ambiguous = [a \in Attempts |-> 0]
  /\ faults = 0

Fault == faults < MaxFaults /\ faults' = faults + 1

-----------------------------------------------------------------------------
(* The statements of repositories/deliveryattempts and its neighbours.      *)

(* Repository.UpdateStatus: no condition on the lease or the old status.   *)
UpdateStatus(a, status, sid, delivered) ==
  row' = [row EXCEPT ![a] = [@ EXCEPT !.status = status, !.sid = sid,
                                      !.lease = None, !.expired = FALSE,
                                      !.delivered = delivered]]

(* Repository.Requeue: provider_message_id is kept. *)
Requeue(a) ==
  row' = [row EXCEPT ![a] = [@ EXCEPT !.status = "queued", !.due = FALSE,
                                      !.lease = None, !.expired = FALSE]]

(* Mutant: a failed call goes back to the queue. *)
UpdateVoiceCallbackRetrying(a, status) ==
  row' = [row EXCEPT ![a] = [@ EXCEPT !.status = IF status = "sent" THEN status ELSE "queued",
                                      !.delivered = (status = "sent"),
                                      !.report = status]]

(* Repository.UpdateVoiceCallback: lease and provider_message_id are kept. *)
UpdateVoiceCallback(a, status) ==
  row' = [row EXCEPT ![a] = [@ EXCEPT !.status = status,
                                      !.delivered = (status = "sent"),
                                      !.report = status]]

(* notifications UpdateStatus: delivered_at is COALESCEd, so it never goes *)
(* back to NULL.                                                           *)
UpdateNotification(a, status, delivered) ==
  notif' = [notif EXCEPT ![a] = [status |-> status,
                                 delivered |-> @.delivered \/ delivered]]

(* Mutants of the claim's WHERE clause: leases are ignored; failed rows    *)
(* are claimed again; dispatching rows never are.                          *)
ClaimableIgnoringLease(a) == row[a].status \in {"queued", "dispatching"} /\ row[a].due
ClaimableFailedToo(a) ==
  /\ row[a].status \in {"queued", "dispatching", "failed"}
  /\ row[a].due
  /\ row[a].lease = None \/ row[a].expired
ClaimableQueuedOnly(a) ==
  /\ row[a].status = "queued"
  /\ row[a].due
  /\ row[a].lease = None \/ row[a].expired

Claimable(a) ==
  /\ row[a].status \in {"queued", "dispatching"}
  /\ row[a].due
  /\ row[a].lease = None \/ row[a].expired

(* ROW_NUMBER() OVER (PARTITION BY message_id ORDER BY requested_at, id)   *)
QueueRank(S, a) == Cardinality({b \in S : messageOf[b] = messageOf[a] /\ b <= a})

(* Mutant: queue_rank is left out of the order. *)
PrecedesUnranked(S, a, b) ==
  LET ta == receivedAt[messageOf[a]]  tb == receivedAt[messageOf[b]]
  IN  ta < tb \/ (ta = tb /\ a < b)

(* ORDER BY queue_rank, received_at, id *)
Precedes(S, a, b) ==
  LET ra == QueueRank(S, a)  ta == receivedAt[messageOf[a]]
      rb == QueueRank(S, b)  tb == receivedAt[messageOf[b]]
  IN  \/ ra < rb
      \/ ra = rb /\ ta < tb
      \/ ra = rb /\ ta = tb /\ a < b

(* The first n rows of S in that order (LIMIT n). *)
FirstOf(S, n) == {a \in S : Cardinality({b \in S : Precedes(S, b, a)}) < n}

-----------------------------------------------------------------------------
(* The planner's INSERT, seen from here: the row and its parents are there, *)
(* and dispatch_after is not in the future.                                *)
Create(a) ==
  /\ row[a].status = "absent"
  /\ row' = [row EXCEPT ![a].status = "queued"]
  /\ UNCHANGED <<user, notif, disp, cache, call, hook, history, faults>>

LeaseHeldBy(d, a) == row[a].lease = d

(* The rows a dispatcher has in hand: it will still write them. *)
InHand(d) ==
  disp[d].todo \cup
  (IF disp[d].pc \in {"send", "markAttempt", "requeueAttempt", "failAttempt"}
   THEN {disp[d].cur} ELSE {})

(* lease_expires_at passes.  It passes under a dispatcher that still has   *)
(* the row in hand only when that dispatcher is slow, which is a fault.    *)
LeaseExpires(a) ==
  /\ row[a].status = "dispatching" /\ row[a].lease # None /\ ~row[a].expired
  /\ row' = [row EXCEPT ![a].expired = TRUE]
  /\ late' = [late EXCEPT ![a] = @ + 1]
  /\ IF \E d \in Dispatchers : a \in InHand(d) THEN Fault ELSE UNCHANGED faults
  /\ UNCHANGED <<user, notif, disp, cache, call, hook, ambiguous>>

(* dispatch_after passes. *)
RetryDue(a) ==
  /\ row[a].status = "queued" /\ ~row[a].due
  /\ row' = [row EXCEPT ![a].due = TRUE]
  /\ UNCHANGED <<user, notif, disp, cache, call, hook, history, faults>>

-----------------------------------------------------------------------------
(* Runner.Run *)

(* The UPDATE of ClaimQueuedVoiceAttempts. *)
ClaimUpdate(d) ==
  LET picked == FirstOf({a \in Attempts : Claimable(a)}, ClaimLimit) IN
  /\ disp[d].pc = "idle"
  /\ picked # {}
  /\ row' = [a \in Attempts |->
               IF a \in picked
               THEN [row[a] EXCEPT !.status = "dispatching", !.lease = d, !.expired = FALSE]
               ELSE row[a]]
  /\ disp' = [disp EXCEPT ![d] = [Idle EXCEPT !.pc = "select", !.todo = picked]]
  /\ UNCHANGED <<user, notif, cache, call, hook, history, faults>>

(* Its SELECT by lease token: the rows whose lease is still the new one. *)
ClaimSelect(d) ==
  LET held == {a \in disp[d].todo : LeaseHeldBy(d, a)} IN
  /\ disp[d].pc = "select"
  /\ disp' = [disp EXCEPT ![d] =
                IF held = {} THEN Idle
                ELSE [Idle EXCEPT !.pc = "loop", !.batch = held, !.todo = held]]
  /\ UNCHANGED <<rows, cache, call, hook, history, faults>>

(* The SELECT fails: the rows keep a lease nobody works under. *)
ClaimSelectFails(d) ==
  /\ disp[d].pc = "select"
  /\ Fault
  /\ disp' = [disp EXCEPT ![d] = Idle]
  /\ UNCHANGED <<rows, cache, call, hook, history>>

(* The record the loop comes to next: the SELECT ranks within the batch. *)
IsNext(d, a) ==
  /\ a \in disp[d].todo
  /\ \A b \in disp[d].todo : ~Precedes(disp[d].batch, b, a)

(* The loop goes on with the next record, or back to claiming. *)
Continue(d) ==
  disp' = [disp EXCEPT ![d] =
             IF @.todo = {} THEN Idle
             ELSE [@ EXCEPT !.pc = "loop", !.cur = None, !.sid = None, !.delivered = FALSE]]

Goto(d, pc) == disp' = [disp EXCEPT ![d].pc = pc]

-----------------------------------------------------------------------------
(* Service.ProcessAttempt *)

(* Mutant: the query forgets the message. *)
SentRowsOfAny(m) == {b \in Attempts : row[b].status = "sent"}

(* collapsedProviderMessageID: what the cache, or else a sent row of the   *)
(* message, says was already called.  Which of several sent rows is the    *)
(* latest is left open; one without a provider_message_id says nothing.    *)
SentRows(m) == {b \in Attempts : messageOf[b] = m /\ row[b].status = "sent"}
Lookups(d, m) ==
  IF cache[d][m].sid # None THEN {cache[d][m]}
  ELSE IF SentRows(m) = {} THEN {NoOutcome}
  ELSE {[sid |-> row[b].sid, delivered |-> row[b].delivered] : b \in SentRows(m)}

(* The record becomes the one in work. *)
TakeUp(d, a, pc, known) ==
  disp' = [disp EXCEPT ![d] =
             [pc |-> pc, batch |-> @.batch, todo |-> @.todo \ {a}, cur |-> a,
              sid |-> known.sid, delivered |-> known.delivered]]

(* No outcome is known, or collapsing is off: go on to the pacer. *)
StartCall(d) ==
  /\ disp[d].pc = "loop"
  /\ \E a \in Attempts :
       /\ IsNext(d, a)
       /\ Collapse => \E known \in Lookups(d, messageOf[a]) : known.sid = None
       /\ TakeUp(d, a, "send", NoOutcome)
  /\ UNCHANGED <<rows, cache, call, hook, history, faults>>

(* The message was already called: the row is marked with that call. *)
ReuseCall(d) ==
  /\ Collapse
  /\ disp[d].pc = "loop"
  /\ \E a \in Attempts : \E known \in Lookups(d, messageOf[a]) :
       /\ IsNext(d, a)
       /\ known.sid # None
       /\ cache' = [cache EXCEPT ![d][messageOf[a]] = known]
       /\ TakeUp(d, a, "markAttempt", known)
  /\ UNCHANGED <<rows, call, hook, history, faults>>

(* The lookup fails: the row keeps its lease. *)
LookupFails(d) ==
  /\ Collapse
  /\ disp[d].pc = "loop"
  /\ Fault
  /\ \E a \in Attempts :
       /\ IsNext(d, a)
       /\ LET rest == disp[d].todo \ {a} IN
          disp' = [disp EXCEPT ![d] = IF rest = {} THEN Idle ELSE [@ EXCEPT !.todo = rest]]
  /\ UNCHANGED <<rows, cache, call, hook, history>>

(* SendVoice reaches Twilio, which places call c. *)
Place(c, a) ==
  /\ call[c].state = "none"
  /\ \A b \in Sids : b < c => call[b].state # "none"
  /\ call' = [call EXCEPT ![c] = [attempt |-> a, state |-> "live"]]

(* SendVoice returns the call's id. *)
SendOk(d) ==
  /\ disp[d].pc = "send"
  /\ \E c \in Sids :
       /\ Place(c, disp[d].cur)
       /\ disp' = [disp EXCEPT ![d] = [@ EXCEPT !.pc = "markAttempt", !.sid = c]]
  /\ UNCHANGED <<rows, cache, hook, history, faults>>

(* SendVoice returns a retryable error (429, 5xx, a timeout); the call may *)
(* have been placed all the same.                                          *)
SendRetryable(d) ==
  /\ disp[d].pc = "send"
  /\ Fault
  /\ \/ /\ \E c \in Sids : Place(c, disp[d].cur)
        /\ ambiguous' = [ambiguous EXCEPT ![disp[d].cur] = @ + 1]
     \/ UNCHANGED <<call, ambiguous>>
  /\ Goto(d, "requeueAttempt")
  /\ UNCHANGED <<rows, cache, hook, late>>

(* SendVoice returns any other error: a refusal, or a broken connection    *)
(* (again perhaps after the call was placed).                              *)
SendRefused(d) ==
  /\ disp[d].pc = "send"
  /\ \/ UNCHANGED <<call, faults>>
     \/ Fault /\ \E c \in Sids : Place(c, disp[d].cur)
  /\ Goto(d, "failAttempt")
  /\ UNCHANGED <<rows, cache, hook, history>>

(* markSent and markDelivered: three UPDATEs, then the cache. *)
MarkAttempt(d) ==
  /\ disp[d].pc = "markAttempt"
  /\ UpdateStatus(disp[d].cur, "sent", disp[d].sid, disp[d].delivered)
  /\ Goto(d, "markUser")
  /\ UNCHANGED <<user, notif, cache, call, hook, history, faults>>

(* Mutant: outcomes are never cached. *)
CacheNothing(d) == cache' = cache

(* A collapsed outcome is already in the cache, so writing it again when   *)
(* the row was marked from it changes nothing.                             *)
CacheCollapsed(d) ==
  cache' = IF Collapse
           THEN [cache EXCEPT ![d][messageOf[disp[d].cur]] =
                   [sid |-> disp[d].sid, delivered |-> disp[d].delivered]]
           ELSE cache

(* Mutant: the notification is forgotten. *)
MarkUserOnly(d) ==
  /\ disp[d].pc = "markUser"
  /\ user' = [user EXCEPT ![disp[d].cur] = "sent"]
  /\ Continue(d) /\ CacheCollapsed(d)
  /\ UNCHANGED <<row, notif, call, hook, history, faults>>

MarkUser(d) ==
  /\ disp[d].pc = "markUser"
  /\ user' = [user EXCEPT ![disp[d].cur] = "sent"]
  /\ IF disp[d].cur \in EventBacked
     THEN Goto(d, "markNotif") /\ UNCHANGED cache
     ELSE Continue(d) /\ CacheCollapsed(d)
  /\ UNCHANGED <<row, notif, call, hook, history, faults>>

(* Mutant: a call handed to Twilio counts as delivered. *)
MarkNotifDelivered(d) ==
  /\ disp[d].pc = "markNotif"
  /\ UpdateNotification(disp[d].cur, "sent", TRUE)
  /\ Continue(d)
  /\ CacheCollapsed(d)
  /\ UNCHANGED <<row, user, call, hook, history, faults>>

MarkNotif(d) ==
  /\ disp[d].pc = "markNotif"
  /\ UpdateNotification(disp[d].cur, "sent", disp[d].delivered)
  /\ Continue(d)
  /\ CacheCollapsed(d)
  /\ UNCHANGED <<row, user, call, hook, history, faults>>

(* handleSendError, retryable. *)
RequeueAttempt(d) ==
  /\ disp[d].pc = "requeueAttempt"
  /\ Requeue(disp[d].cur)
  /\ IF disp[d].cur \in EventBacked THEN Goto(d, "requeueNotif") ELSE Continue(d)
  /\ UNCHANGED <<user, notif, cache, call, hook, history, faults>>

RequeueNotif(d) ==
  /\ disp[d].pc = "requeueNotif"
  /\ UpdateNotification(disp[d].cur, "queued", FALSE)
  /\ Continue(d)
  /\ UNCHANGED <<row, user, cache, call, hook, history, faults>>

(* Mutant: a final error is retried like any other. *)
FailAttemptRequeues(d) ==
  /\ disp[d].pc = "failAttempt"
  /\ Requeue(disp[d].cur)
  /\ Goto(d, "failUser")
  /\ UNCHANGED <<user, notif, cache, call, hook, history, faults>>

(* handleSendError, final: provider_message_id becomes NULL. *)
FailAttempt(d) ==
  /\ disp[d].pc = "failAttempt"
  /\ UpdateStatus(disp[d].cur, "failed", None, FALSE)
  /\ Goto(d, "failUser")
  /\ UNCHANGED <<user, notif, cache, call, hook, history, faults>>

FailUser(d) ==
  /\ disp[d].pc = "failUser"
  /\ user' = [user EXCEPT ![disp[d].cur] = "failed"]
  /\ IF disp[d].cur \in EventBacked THEN Goto(d, "failNotif") ELSE Continue(d)
  /\ UNCHANGED <<row, notif, cache, call, hook, history, faults>>

FailNotif(d) ==
  /\ disp[d].pc = "failNotif"
  /\ UpdateNotification(disp[d].cur, "failed", FALSE)
  /\ Continue(d)
  /\ UNCHANGED <<row, user, cache, call, hook, history, faults>>

(* A statement fails: ProcessAttempt returns and the statements after it   *)
(* are never issued.                                                       *)
StatementFails(d) ==
  /\ disp[d].pc \in {"markAttempt", "markUser", "markNotif", "requeueAttempt",
                     "requeueNotif", "failAttempt", "failUser", "failNotif"}
  /\ Fault
  /\ Continue(d)
  /\ UNCHANGED <<rows, cache, call, hook, history>>

(* The process stops anywhere (crash, or ctx cancelled at a wait) and is   *)
(* started again with an empty cache.                                      *)
Restart(d) ==
  /\ disp[d] # Idle \/ cache[d] # EmptyCache
  /\ Fault
  /\ disp' = [disp EXCEPT ![d] = Idle]
  /\ cache' = [cache EXCEPT ![d] = EmptyCache]
  /\ UNCHANGED <<rows, call, hook, history>>

-----------------------------------------------------------------------------
(* Twilio, and handleTwilioVoiceStatusCallback *)

(* The call ends and Twilio posts its one status callback ("completed"     *)
(* event, with the final status).                                          *)
CallEnds(c) ==
  /\ call[c].state = "live"
  /\ \E outcome \in {"completed", "failed"} : call' = [call EXCEPT ![c].state = outcome]
  /\ hook' = [hook EXCEPT ![c] = [pc |-> "pending", todo |-> {}]]
  /\ UNCHANGED <<rows, disp, cache, history, faults>>

(* Mutant: Twilio's own status is stored. *)
ReportRaw(c) == call[c].state

(* Internal status of a final call status. *)
ReportOf(c) == IF call[c].state = "completed" THEN "sent" ELSE "failed"

(* The records are read once; a call no row knows is answered 204. *)
HookLookup(c) ==
  LET found == {a \in Attempts : row[a].sid = c} IN
  /\ hook[c].pc = "pending"
  /\ hook' = [hook EXCEPT ![c] =
                [pc |-> IF found = {} THEN "dropped" ELSE "attempt", todo |-> found]]
  /\ UNCHANGED <<rows, disp, cache, call, history, faults>>

(* The record the handler is at (ORDER BY id). *)
HookAt(c, a) == a \in hook[c].todo /\ \A b \in hook[c].todo : a <= b

HookNext(c, a) ==
  LET rest == hook[c].todo \ {a} IN
  hook' = [hook EXCEPT ![c] =
             [pc |-> IF rest = {} THEN "done" ELSE "attempt", todo |-> rest]]

HookAttempt(c) ==
  /\ hook[c].pc = "attempt"
  /\ \E a \in Attempts : HookAt(c, a) /\ UpdateVoiceCallback(a, ReportOf(c))
  /\ hook' = [hook EXCEPT ![c].pc = "user"]
  /\ UNCHANGED <<user, notif, disp, cache, call, history, faults>>

HookUser(c) ==
  /\ hook[c].pc = "user"
  /\ \E a \in Attempts :
       /\ HookAt(c, a)
       /\ user' = [user EXCEPT ![a] = ReportOf(c)]
       /\ IF a \in EventBacked
          THEN hook' = [hook EXCEPT ![c].pc = "notif"]
          ELSE HookNext(c, a)
  /\ UNCHANGED <<row, notif, disp, cache, call, history, faults>>

HookNotif(c) ==
  /\ hook[c].pc = "notif"
  /\ \E a \in Attempts :
       /\ HookAt(c, a)
       /\ UpdateNotification(a, ReportOf(c), ReportOf(c) = "sent")
       /\ HookNext(c, a)
  /\ UNCHANGED <<row, user, disp, cache, call, history, faults>>

(* A statement fails: the handler answers 500 and Twilio posts the         *)
(* callback again, or gives up.                                            *)
HookFails(c) ==
  /\ hook[c].pc \in {"pending", "attempt", "user", "notif"}
  /\ Fault
  /\ \E pc \in {"pending", "dropped"} : hook' = [hook EXCEPT ![c] = [pc |-> pc, todo |-> {}]]
  /\ UNCHANGED <<rows, disp, cache, call, history>>

(* Twilio posts a callback again that was already applied. *)
HookRepeats(c) ==
  /\ hook[c].pc = "done"
  /\ Fault
  /\ hook' = [hook EXCEPT ![c].pc = "pending"]
  /\ UNCHANGED <<rows, disp, cache, call, history>>

-----------------------------------------------------------------------------
Working(d) ==
  \/ ClaimUpdate(d) \/ ClaimSelect(d)
  \/ StartCall(d) \/ ReuseCall(d)
  \/ SendOk(d) \/ SendRetryable(d) \/ SendRefused(d)
  \/ MarkAttempt(d) \/ MarkUser(d) \/ MarkNotif(d)
  \/ RequeueAttempt(d) \/ RequeueNotif(d)
  \/ FailAttempt(d) \/ FailUser(d) \/ FailNotif(d)

Failing(d) == ClaimSelectFails(d) \/ LookupFails(d) \/ StatementFails(d) \/ Restart(d)

Handling(c) == HookLookup(c) \/ HookAttempt(c) \/ HookUser(c) \/ HookNotif(c)

Next ==
  \/ \E a \in Attempts : Create(a) \/ LeaseExpires(a) \/ RetryDue(a)
  \/ \E d \in Dispatchers : Working(d) \/ Failing(d)
  \/ \E c \in Sids : CallEnds(c) \/ Handling(c) \/ HookFails(c) \/ HookRepeats(c)

Spec == Init /\ [][Next]_vars

(* Runner.Run loops for ever and the container is restarted, so a          *)
(* dispatcher that can step does; time passes; Twilio ends a call and      *)
(* posts its callback, and net/http runs the handler.  A lease is only     *)
(* sure to expire once no dispatcher is working under it.                  *)
Fairness ==
  /\ \A d \in Dispatchers : WF_vars(Working(d))
  /\ \A a \in Attempts :
       /\ WF_vars(LeaseExpires(a) /\ UNCHANGED faults)
       /\ WF_vars(RetryDue(a))
  /\ \A c \in Sids : WF_vars(CallEnds(c)) /\ WF_vars(Handling(c))

FairSpec == Spec /\ Fairness
-----------------------------------------------------------------------------
(* Properties *)

TypeOK ==
  /\ row \in [Attempts -> Row]
  /\ user \in [Attempts -> {"queued"} \cup Outcome]
  /\ notif \in [Attempts -> Notification]
  /\ disp \in [Dispatchers -> Dispatcher]
  /\ cache \in [Dispatchers -> [Messages -> CachedOutcome]]
  /\ call \in [Sids -> CallRecord]
  /\ hook \in [Sids -> Hook]
  /\ late \in [Attempts -> Nat]
  /\ ambiguous \in [Attempts -> Nat]
  /\ faults \in 0..MaxFaults

(* As long as a row's lease has never run out, whoever will still write    *)
(* the row holds its lease, and the row is still dispatching: nothing but  *)
(* a lease running out lets two dispatchers work on one row, although no   *)
(* UPDATE of the dispatcher checks the lease token.                        *)
WorkedUnderLease ==
  \A d \in Dispatchers : \A a \in InHand(d) :
    late[a] = 0 => row[a].lease = d /\ row[a].status = "dispatching"

CallsFor(a) == {c \in Sids : call[c].attempt = a}

(* A recipient is called once, and once more at most for every lease of    *)
(* the row that ran out and every call whose answer asked for a retry:     *)
(* failed statements, restarts, requeues and callbacks in any order do not *)
(* by themselves cause a second call.                                      *)
CallAccounting ==
  \A a \in Attempts : Cardinality(CallsFor(a)) <= 1 + late[a] + ambiguous[a]

(* A row's provider_message_id is a call placed for that row, or, when     *)
(* calls are collapsed, for a row of the same message: no callback can be  *)
(* applied to the wrong recipient.                                         *)
RowNamesItsCall ==
  \A a \in Attempts : row[a].sid # None =>
    /\ call[row[a].sid].attempt \in Attempts
    /\ messageOf[call[row[a].sid].attempt] = messageOf[a]
    /\ ~Collapse => call[row[a].sid].attempt = a

(* A row or a notification reads delivered only if a call for its message  *)
(* was completed: handing the call to Twilio is not delivery.              *)
DeliveredMeansAnswered ==
  \A a \in Attempts : row[a].delivered \/ notif[a].delivered =>
    \E c \in Sids : /\ call[c].state = "completed"
                    /\ messageOf[call[c].attempt] = messageOf[a]

(* A finished row goes back to the queue only if its lease once ran out:   *)
(* only a dispatcher that outlived its lease requeues a finished row.      *)
ReopenedOnlyLate ==
  [][\A a \in Attempts :
       row[a].status \in Outcome /\ row'[a].status \notin Outcome => late[a] > 0]_vars

(* What the final callback wrote into a row stays, unless the lease of the *)
(* row once ran out: the dispatcher's own late answer cannot overwrite it. *)
ReportStands ==
  \A a \in Attempts :
    row[a].report # "none" /\ late[a] = 0 => row[a].status = row[a].report

(* Nobody is going to write the rows of attempt a. *)
Settled(a) ==
  /\ \A d \in Dispatchers : a \notin disp[d].todo /\ disp[d].cur # a
  /\ \A c \in Sids : a \notin hook[c].todo
StatusesAre(a, status) ==
  user[a] = status /\ (a \in EventBacked => notif[a].status = status)

(* Without a fault, a row that is sent, or that Twilio refused, ends with  *)
(* its users_messages and notifications rows in the same status: the three *)
(* UPDATEs diverge only through a fault or a failed call's callback.       *)
SettledRowsAgree ==
  \A a \in Attempts : faults = 0 /\ Settled(a) =>
    /\ row[a].status = "sent" => StatusesAre(a, "sent")
    /\ row[a].status = "failed" /\ row[a].sid = None => StatusesAre(a, "failed")

(* What the live test asserts of the persisted callback: users_messages    *)
(* and notifications have the status the callback gave the attempt.  Asked *)
(* here of fault-free runs only.                                           *)
CallbackStateConsistent ==
  \A a \in Attempts : faults = 0 /\ Settled(a) /\ row[a].report # "none" =>
    StatusesAre(a, row[a].report)

(* A claim shares its slots among the messages: no message gets two slots  *)
(* more than a message that has rows left waiting.                         *)
Slots(S, m) == Cardinality({a \in S : messageOf[a] = m})
FairShare ==
  [][\A d \in Dispatchers :
       disp[d].pc = "idle" /\ disp'[d].pc = "select" =>
         \A a \in disp'[d].todo :
           \A b \in {x \in Attempts : Claimable(x)} \ disp'[d].todo :
             Slots(disp'[d].todo, messageOf[a]) <= Slots(disp'[d].todo, messageOf[b]) + 1]_vars

CallsForMessage(m) == {c \in Sids : call[c].attempt # None /\ messageOf[call[c].attempt] = m}

(* Collapsing, one dispatcher: a message is called once, and at most once  *)
(* more per fault.                                                         *)
CollapsedCallsBounded ==
  \A m \in Messages : Cardinality(CallsForMessage(m)) <= 1 + faults

(* README.md:423: collapsing makes one real call per message.              *)
OneRealCallPerMessage ==
  \A m \in Messages : Cardinality(CallsForMessage(m)) <= 1

(* Every row the planner queues is, in the end and for good, sent or       *)
(* failed, whatever the faults: no row is stranded in the queue or under a *)
(* dead dispatcher's lease.                                                *)
SettlesForGood ==
  \A a \in Attempts : row[a].status # "absent" ~> [](row[a].status \in Outcome)
=============================================================================
