------------------------------ MODULE Planner ------------------------------
(***************************************************************************)
(* The worker processes: each takes a message from the stream, plans it    *)
(* for its recipients (ChannelDispatcher.Dispatch), marks it processed and *)
(* acknowledges it.                                                        *)
(*                                                                         *)
(* Planning writes users_messages, notifications and delivery_attempts     *)
(* with statements that no transaction joins, so every statement is a step *)
(* of its own; it can fail, or be the last before a crash, and then the    *)
(* entry stays pending and the message is planned again from the start.    *)
(* Several workers may plan messages of the same event, or the same        *)
(* message, at the same time.  The voice dispatchers claim attempts as     *)
(* soon as they are there, under leases that run out, requeue them or      *)
(* record an outcome with up to three UPDATEs, and the API applies Twilio's *)
(* callbacks to the same rows.  Left to VoiceDispatch are the order of the *)
(* claims (here the rows of a batch go on at their own pace), the calls    *)
(* themselves, delivered_at, and test overrides with their collapsed       *)
(* calls.                                                                  *)
(*                                                                         *)
(* Reads of rows that never change again (ids, first_message_id, contact   *)
(* methods, subscriptions) belong to the statement before them.            *)
(***************************************************************************)
EXTENDS Integers, FiniteSets

CONSTANTS
  Messages,    (* ids of the messages rows, all of them committed         *)
  Events,      (* ids of nws_events                                       *)
  Users,
  Channels,
  Voice,       (* the channel the dispatcher serves,                      *)
  Sms,         (* and the one whose contact method may stand in for it    *)
  eventOf,     (* messages.nws_event_id, None if NULL                     *)
  channelsOf,  (* the resolver's match: the channels on which a user is   *)
               (* to get a message, {} if there is no match               *)
  methodsOf,   (* the channels of a user's active contact methods         *)
  Workers,
  Dispatchers, (* the voice-dispatcher processes                          *)
  Handlers,    (* the API's handlers of Twilio's status callbacks         *)
  MaxFaults,   (* bound on crashes, failed statements, lost               *)
               (* acknowledgements, entries published or delivered twice, *)
               (* slow dispatchers, retryable answers, repeated callbacks *)
  None

ASSUME ConstantsAssumption ==
  /\ Messages \subseteq Nat
  /\ eventOf \in [Messages -> Events \cup {None}]
  /\ channelsOf \in [Messages -> [Users -> SUBSET Channels]]
  /\ methodsOf \in [Users -> SUBSET Channels]
  /\ Voice \in Channels /\ Sms \in Channels
  /\ MaxFaults \in Nat
  /\ None \notin Messages /\ None \notin Events
  /\ None \notin Users /\ None \notin Channels

(* The unique key (users_message_id, channel, attempt_number): the planner *)
(* only makes attempts of number 1.                                        *)
Keys == {k \in Messages \X Users \X Channels : k[3] \in channelsOf[k[1]][k[2]]}

(* What an attempt is for: a notification, or only its message. *)
slotOf == [k \in Keys |->
             IF eventOf[k[1]] = None THEN <<None, k[1], k[2], k[3]>>
             ELSE <<eventOf[k[1]], None, k[2], k[3]>>]

VARIABLES
  entry,         (* the stream entry of a message                         *)
  processed,     (* messages.status = 'processed'                         *)
  userMessage,   (* users_messages.status                                 *)
  notification,  (* notifications; first is None while there is no row    *)
  attempt,       (* delivery_attempts                                     *)
  worker,        (* where each worker is                                  *)
  caller,        (* how far a dispatcher is with an attempt               *)
  hook,          (* how far a callback handler is                         *)
  trail,         (* history of each attempt                               *)
  takes,         (* history: how often a message was taken up             *)
  faults

vars == <<entry, processed, userMessage, notification, attempt, worker,
          caller, hook, trail, takes, faults>>
rows == <<processed, userMessage, notification, attempt>>
dispatch == <<caller, hook, trail>>

Outcome == {"sent", "failed"}
Answer == Outcome \cup {"queued"}
EntryState == {"none", "ready", "pending", "acked"}
UserMessageStatus == {"absent", "queued", "suppressed", "sent", "failed",
                      "partial_failure", "skipped"}
AttemptStatus == {"absent", "queued", "dispatching"} \cup Outcome
(* call is the call provider_message_id names, with the final status       *)
(* Twilio reports of it.                                                   *)
Attempt == [status : AttemptStatus, destination : Channels \cup {None},
            leased : BOOLEAN, call : {"none", "live"} \cup Outcome]
Notification == [first : Messages \cup {None}, last : Messages \cup {None},
                 status : {"queued"} \cup Outcome]
PlanStatus == {"none", "suppressed", "queued", "dispatching"} \cup Outcome
WorkerPc == {"idle", "users", "existing", "channels", "touch", "list", "create",
             "destination", "failAttempt", "failNotification", "summary",
             "processed", "ack"}
Worker == [pc : WorkerPc, msg : Messages \cup {None}, users : SUBSET Users,
           user : Users \cup {None}, chans : SUBSET Channels,
           chan : Channels \cup {None}, plan : [Channels -> PlanStatus]]
CallerPc == {"none", "call", "attempt", "user", "notification"}
Caller == [pc : CallerPc, dialled : Channels \cup {None}, outcome : Answer \cup {None}]
HookPc == {"none", "attempt", "user", "notification"}
Hook == [pc : HookPc, key : Keys \cup {None}, outcome : Outcome \cup {None}]
(* How often it was claimed to be called, how often its lease ran out or   *)
(* it was requeued, what Twilio said of it, and whether a fault hit it or  *)
(* a callback came between a dispatcher's UPDATEs.                         *)
Trail == [calls : Nat, again : Nat, told : SUBSET Outcome, disturbed : BOOLEAN]

NoPlan == [c \in Channels |-> "none"]
Idle == [pc |-> "idle", msg |-> None, users |-> {}, user |-> None,
         chans |-> {}, chan |-> None, plan |-> NoPlan]
NoCall == [pc |-> "none", dialled |-> None, outcome |-> None]
NoHook == [pc |-> "none", key |-> None, outcome |-> None]
Row(status) == [status |-> status, destination |-> None, leased |-> FALSE, call |-> "none"]

Init ==
  /\ entry = [m \in Messages |-> "none"]
  /\ processed = [m \in Messages |-> FALSE]
  /\ userMessage = [p \in Messages \X Users |-> "absent"]
  /\ notification = [n \in Events \X Users \X Channels |->
                       [first |-> None, last |-> None, status |-> "queued"]]
  /\ attempt = [k \in Keys |-> Row("absent")]
  /\ worker = [w \in Workers |-> Idle]
  /\ caller = [d \in Dispatchers |-> [k \in Keys |-> NoCall]]
  /\ hook = [h \in Handlers |-> NoHook]
  /\ trail = [k \in Keys |-> [calls |-> 0, again |-> 0, told |-> {}, disturbed |-> FALSE]]
  /\ takes = [m \in Messages |-> 0]
  /\ faults = 0

Fault == faults < MaxFaults /\ faults' = faults + 1

(* It hits the attempts S. *)
Hit(S) ==
  trail' = [k \in Keys |-> [trail[k] EXCEPT !.disturbed = @ \/ k \in S]]

-----------------------------------------------------------------------------
(* What a worker has in hand. *)

Matched(m) == {u \in Users : channelsOf[m][u] # {}}
EventBacked(m) == eventOf[m] # None

KeyOf(w) == <<worker[w].msg, worker[w].user, worker[w].chan>>
RowOf(w) == <<worker[w].msg, worker[w].user>>
NotificationOf(w, c) == <<eventOf[worker[w].msg], worker[w].user, c>>

NoteOf(k) == <<eventOf[k[1]], k[2], k[3]>>

Exists(k) == attempt[k].status # "absent"

(* ListByNotificationID: at most one row as long as the unique keys hold,  *)
(* so that latestAttempt has nothing to choose from.                       *)
OfSlot(k) == {j \in Keys : Exists(j) /\ slotOf[j] = slotOf[k]}

(* Mutant: the unique key on notification_id is missing. *)
DuplicateOfRow(k) == Exists(k)

(* The two unique keys of delivery_attempts. *)
Duplicate(k) ==
  \/ Exists(k)
  \/ EventBacked(k[1]) /\ \E j \in Keys : Exists(j) /\ slotOf[j] = slotOf[k]

(* selectContactMethod: the channel's own method, or Sms in place of Voice. *)
SelectContactMethod(u, c) ==
  IF c \in methodsOf[u] THEN c
  ELSE IF c = Voice /\ Sms \in methodsOf[u] THEN Sms
  ELSE None

Newer(m, n) == IF m > n THEN m ELSE n    (* GREATEST *)

(* Repository.UpdateStatus: no condition on the lease or the old status. *)
UpdateStatus(k, status, call) ==
  attempt' = [attempt EXCEPT ![k] = [@ EXCEPT !.status = status, !.leased = FALSE,
                                              !.call = call]]

Goto(w, pc) == worker' = [worker EXCEPT ![w].pc = pc]

(* The channel in hand is settled: go on with the next one, or sum up. *)
ChannelDone(w, status) ==
  LET r == worker[w] IN
  worker' = [worker EXCEPT ![w] =
    [r EXCEPT !.pc = IF r.chans = {} THEN "summary" ELSE "channels",
              !.chan = None,
              !.plan = [r.plan EXCEPT ![r.chan] = status]]]

-----------------------------------------------------------------------------
(* The stream and Runner.processMessages *)

(* The outbox relay publishes a message for the first time. *)
Publish(m) ==
  /\ entry[m] = "none"
  /\ entry' = [entry EXCEPT ![m] = "ready"]
  /\ UNCHANGED <<rows, worker, dispatch, takes, faults>>

InWork(m) == \E w \in Workers : worker[w].msg = m

(* It publishes it again: its mark of the first time was lost. *)
Republish(m) ==
  /\ entry[m] = "acked"
  /\ ~InWork(m)
  /\ Fault
  /\ entry' = [entry EXCEPT ![m] = "ready"]
  /\ UNCHANGED <<rows, worker, dispatch, takes>>

(* ProcessMessage begins: no statement writes before the first recipient. *)
Begin(w, m) ==
  /\ worker[w].pc = "idle"
  /\ takes' = [takes EXCEPT ![m] = @ + 1]
  /\ worker' = [worker EXCEPT ![w] =
       [Idle EXCEPT !.pc = IF Matched(m) = {} THEN "processed" ELSE "users",
                    !.msg = m, !.users = Matched(m)]]

ReadGroup(w, m) ==
  /\ entry[m] = "ready"
  /\ entry' = [entry EXCEPT ![m] = "pending"]
  /\ Begin(w, m)
  /\ UNCHANGED <<rows, dispatch, faults>>

(* XAUTOCLAIM: the entry was idle too long.  Under a worker that still has *)
(* it in work that is a fault (the worker is slow).                        *)
AutoClaim(w, m) ==
  /\ entry[m] = "pending"
  /\ ~InWork(m)
  /\ Begin(w, m)
  /\ UNCHANGED <<entry, rows, dispatch, faults>>

AutoClaimInWork(w, m) ==
  /\ entry[m] = "pending"
  /\ InWork(m)
  /\ Fault
  /\ Begin(w, m)
  /\ UNCHANGED <<entry, rows, dispatch>>

(* Mutant: a failed message is acknowledged like a processed one. *)
AbandonAcking(w) ==
  /\ worker[w].pc # "idle"
  /\ Fault
  /\ worker' = [worker EXCEPT ![w] = Idle]
  /\ entry' = [entry EXCEPT ![worker[w].msg] = "acked"]
  /\ UNCHANGED <<rows, dispatch, takes>>

(* A statement fails, or the process dies: the entry is not acknowledged.  *)
Abandon(w) ==
  /\ worker[w].pc # "idle"
  /\ Fault
  /\ Hit({KeyOf(w)})
  /\ worker' = [worker EXCEPT ![w] = Idle]
  /\ UNCHANGED <<entry, rows, caller, hook, takes>>

MarkProcessed(w) ==
  /\ worker[w].pc = "processed"
  /\ processed' = [processed EXCEPT ![worker[w].msg] = TRUE]
  /\ Goto(w, "ack")
  /\ UNCHANGED <<entry, userMessage, notification, attempt, dispatch, takes, faults>>

(* ackBestEffort *)
Ack(w) ==
  /\ worker[w].pc = "ack"
  /\ entry' = [entry EXCEPT ![worker[w].msg] = "acked"]
  /\ worker' = [worker EXCEPT ![w] = Idle]
  /\ UNCHANGED <<rows, dispatch, takes, faults>>

-----------------------------------------------------------------------------
(* ChannelDispatcher.Dispatch *)

(* The next recipient (the matches come in any order, from a map):         *)
(* users_messages CreateOrGet.                                             *)
CreateUserMessage(w, u) ==
  LET r == worker[w] IN
  /\ r.pc = "users"
  /\ u \in r.users
  /\ userMessage' = [userMessage EXCEPT ![<<r.msg, u>>] = IF @ = "absent" THEN "queued" ELSE @]
  /\ worker' = [worker EXCEPT ![w] =
       [r EXCEPT !.pc = IF EventBacked(r.msg) THEN "channels" ELSE "existing",
                 !.users = @ \ {u}, !.user = u, !.chan = None,
                 !.chans = channelsOf[r.msg][u], !.plan = NoPlan]]
  /\ UNCHANGED <<entry, processed, notification, attempt, dispatch, takes, faults>>

(* Without an event: the attempts there are, read once before the loop; a  *)
(* channel whose attempt is past "queued" is left as it is.                *)
ListExisting(w) ==
  LET r == worker[w]
      Read(c) == IF c \in channelsOf[r.msg][r.user] /\ Exists(<<r.msg, r.user, c>>)
                 THEN attempt[<<r.msg, r.user, c>>].status ELSE "none"
      open == {c \in r.chans : Read(c) \in {"none", "queued"}}
  IN
  /\ r.pc = "existing"
  /\ worker' = [worker EXCEPT ![w] =
       [r EXCEPT !.pc = IF open = {} THEN "summary" ELSE "channels",
                 !.chans = open, !.plan = [c \in Channels |-> Read(c)]]]
  /\ UNCHANGED <<entry, rows, dispatch, takes, faults>>

(* The next channel.  With an event: notifications CreateOrGet. *)
EnsureNotification(w, c) ==
  LET r == worker[w]  n == NotificationOf(w, c) IN
  /\ r.pc = "channels"
  /\ c \in r.chans
  /\ EventBacked(r.msg)
  /\ notification' = [notification EXCEPT ![n] =
       IF @.first = None THEN [first |-> r.msg, last |-> r.msg, status |-> "queued"] ELSE @]
  /\ worker' = [worker EXCEPT ![w] =
       [r EXCEPT !.pc = IF notification[n].first = None THEN "list" ELSE "touch",
                 !.chans = @ \ {c}, !.chan = c]]
  /\ UNCHANGED <<entry, processed, userMessage, attempt, dispatch, takes, faults>>

(* Mutant: SET last_message_id = ?, without GREATEST. *)
TouchLastMessageBlindly(w) ==
  LET r == worker[w]  n == NotificationOf(w, r.chan) IN
  /\ r.pc = "touch"
  /\ notification' = [notification EXCEPT ![n].last = r.msg]
  /\ Goto(w, "list")
  /\ UNCHANGED <<entry, processed, userMessage, attempt, dispatch, takes, faults>>

TouchLastMessage(w) ==
  LET r == worker[w]  n == NotificationOf(w, r.chan) IN
  /\ r.pc = "touch"
  /\ notification' = [notification EXCEPT ![n].last = Newer(@, r.msg)]
  /\ Goto(w, "list")
  /\ UNCHANGED <<entry, processed, userMessage, attempt, dispatch, takes, faults>>

(* Mutant: a notification of another message is enough to suppress. *)
ListAttemptsSuppressingEarly(w) ==
  LET r == worker[w]  found == OfSlot(KeyOf(w)) IN
  /\ r.pc = "list"
  /\ IF notification[NotificationOf(w, r.chan)].first # r.msg
     THEN ChannelDone(w, "suppressed")
     ELSE IF found = {} THEN Goto(w, "create")
     ELSE \E j \in found : ChannelDone(w, attempt[j].status)
  /\ UNCHANGED <<entry, rows, dispatch, takes, faults>>

(* ListByNotificationID.  No attempt: make one.  One of a notification     *)
(* another message began: this message is suppressed here.  Otherwise the  *)
(* attempt counts as this message's own.                                   *)
ListAttempts(w) ==
  LET r == worker[w]  found == OfSlot(KeyOf(w)) IN
  /\ r.pc = "list"
  /\ \/ found = {} /\ Goto(w, "create")
     \/ /\ found # {}
        /\ notification[NotificationOf(w, r.chan)].first # r.msg
        /\ ChannelDone(w, "suppressed")
     \/ /\ notification[NotificationOf(w, r.chan)].first = r.msg
        /\ \E j \in found : ChannelDone(w, attempt[j].status)
  /\ UNCHANGED <<entry, rows, dispatch, takes, faults>>

(* ensureAttemptRecord inserts the attempt, queued, its destination blank. *)
Create(w) ==
  LET r == worker[w] IN
  /\ ~Duplicate(KeyOf(w))
  /\ attempt' = [attempt EXCEPT ![KeyOf(w)] = Row("queued")]
  /\ worker' = [worker EXCEPT ![w] =
       [r EXCEPT !.pc = IF SelectContactMethod(r.user, r.chan) = None
                        THEN "failAttempt" ELSE "destination"]]

(* Or a unique key is hit, and the attempt found then is left as it is:    *)
(* queueChannelForMatch returns before it sets a destination.  (What blocks *)
(* the INSERT stays, so the SELECT after it can belong to the same step.)  *)
CreateLoses(w) ==
  /\ Duplicate(KeyOf(w))
  /\ \E j \in OfSlot(KeyOf(w)) : ChannelDone(w, attempt[j].status)
  /\ UNCHANGED attempt

CreateAttempt(w) ==
  /\ worker[w].pc = "create"
  /\ Create(w) \/ CreateLoses(w)
  /\ UNCHANGED <<entry, processed, userMessage, notification, dispatch, takes, faults>>

(* Without an event the loop goes straight to the INSERT. *)
CreateWithoutEvent(w, c) ==
  LET r == worker[w] IN
  /\ r.pc = "channels"
  /\ c \in r.chans
  /\ ~EventBacked(r.msg)
  /\ worker' = [worker EXCEPT ![w] = [r EXCEPT !.pc = "create", !.chans = @ \ {c}, !.chan = c]]
  /\ UNCHANGED <<entry, rows, dispatch, takes, faults>>

(* Mutant: the destination is never stored. *)
ForgetDestination(w) ==
  /\ worker[w].pc = "destination"
  /\ ChannelDone(w, "queued")
  /\ UNCHANGED <<entry, rows, dispatch, takes, faults>>

UpdateDestination(w) ==
  LET r == worker[w] IN
  /\ r.pc = "destination"
  /\ attempt' = [attempt EXCEPT ![KeyOf(w)].destination = SelectContactMethod(r.user, r.chan)]
  /\ ChannelDone(w, "queued")
  /\ UNCHANGED <<entry, processed, userMessage, notification, dispatch, takes, faults>>

(* Mutant: the notification is not failed with its attempt. *)
FailAttemptOnly(w) ==
  /\ worker[w].pc = "failAttempt"
  /\ UpdateStatus(KeyOf(w), "failed", "none")
  /\ ChannelDone(w, "failed")
  /\ UNCHANGED <<entry, processed, userMessage, notification, dispatch, takes, faults>>

(* No contact method: the attempt fails, and then its notification. *)
FailAttempt(w) ==
  /\ worker[w].pc = "failAttempt"
  /\ UpdateStatus(KeyOf(w), "failed", "none")
  /\ IF EventBacked(worker[w].msg) THEN Goto(w, "failNotification") ELSE ChannelDone(w, "failed")
  /\ UNCHANGED <<entry, processed, userMessage, notification, dispatch, takes, faults>>

UpdateNotification(n, m, status) ==
  notification' = [notification EXCEPT ![n] =
    [first |-> @.first, last |-> Newer(@.last, m), status |-> status]]

FailNotification(w) ==
  LET r == worker[w] IN
  /\ r.pc = "failNotification"
  /\ UpdateNotification(NotificationOf(w, r.chan), r.msg, "failed")
  /\ ChannelDone(w, "failed")
  /\ UNCHANGED <<entry, processed, userMessage, attempt, dispatch, takes, faults>>

(* Mutant: what is still pending is not looked at. *)
SummarizeSettled(S, plan) ==
  LET sent == \E c \in S : plan[c] = "sent"
      failed == \E c \in S : plan[c] = "failed"
  IN  IF \A c \in S : plan[c] = "suppressed" THEN "suppressed"
      ELSE IF failed THEN (IF sent THEN "partial_failure" ELSE "failed")
      ELSE "sent"

(* Mutant: one suppressed channel is enough. *)
SummarizeAny(S, plan) ==
  IF \E c \in S : plan[c] = "suppressed" THEN "suppressed" ELSE SummarizeSettled(S, plan)

(* The status of the users_messages row: suppressed on every channel, or   *)
(* summarizeUserMessage, whose "skipped" no recipient with a channel gets.  *)
Summarize(S, plan) ==
  LET pending == \E c \in S : plan[c] \notin {"sent", "failed", "suppressed"}
      sent == \E c \in S : plan[c] = "sent"
      failed == \E c \in S : plan[c] = "failed"
  IN  IF \A c \in S : plan[c] = "suppressed" THEN "suppressed"
      ELSE IF pending THEN "queued"
      ELSE IF sent /\ failed THEN "partial_failure"
      ELSE IF sent THEN "sent"
      ELSE IF failed THEN "failed"
      ELSE "skipped"

Summary(w) ==
  LET r == worker[w] IN
  /\ r.pc = "summary"
  /\ userMessage' = [userMessage EXCEPT ![RowOf(w)] =
                       Summarize(channelsOf[r.msg][r.user], r.plan)]
  /\ worker' = [worker EXCEPT ![w] =
       [r EXCEPT !.pc = IF r.users = {} THEN "processed" ELSE "users",
                 !.user = None, !.plan = NoPlan]]
  /\ UNCHANGED <<entry, processed, notification, attempt, dispatch, takes, faults>>

-----------------------------------------------------------------------------
(* The voice dispatchers *)

(* Mutant: failed attempts are claimed too. *)
ClaimableFailedToo(k) ==
  k[3] = Voice /\ attempt[k].status \in {"queued", "dispatching", "failed"} /\ ~attempt[k].leased

Claimable(k) ==
  k[3] = Voice /\ attempt[k].status \in {"queued", "dispatching"} /\ ~attempt[k].leased

(* ClaimQueuedVoiceAttempts leases the row and reads it as it is. *)
Claim(d, k) ==
  /\ Claimable(k)
  /\ caller[d][k].pc = "none"
  /\ attempt' = [attempt EXCEPT ![k] = [@ EXCEPT !.status = "dispatching", !.leased = TRUE]]
  /\ caller' = [caller EXCEPT ![d][k] =
       [pc |-> "call", dialled |-> attempt[k].destination, outcome |-> None]]
  /\ trail' = [trail EXCEPT ![k].calls = @ + 1]
  /\ UNCHANGED <<entry, processed, userMessage, notification, worker, hook, takes, faults>>

(* SendVoice returns: the call is placed, it is refused (as one to nowhere *)
(* is), or the answer asks for a retry.                                    *)
Send(d, k) ==
  /\ caller[d][k].pc = "call"
  /\ \E answer \in Answer :
       /\ caller[d][k].dialled = None => answer # "sent"
       /\ IF answer = "queued" THEN Fault ELSE UNCHANGED faults
       /\ caller' = [caller EXCEPT ![d][k] = [@ EXCEPT !.pc = "attempt", !.outcome = answer]]
       /\ trail' = [trail EXCEPT ![k].told = @ \cup ({answer} \cap Outcome),
                                 ![k].disturbed = @ \/ answer = "queued"]
  /\ UNCHANGED <<entry, rows, worker, hook, takes>>

(* handleSendError, to be retried: Requeue keeps provider_message_id.      *)
(* (The retry is due at any later moment.)                                 *)
Requeue(d, k) ==
  /\ caller[d][k].pc = "attempt" /\ caller[d][k].outcome = "queued"
  /\ UpdateStatus(k, "queued", attempt[k].call)
  /\ trail' = [trail EXCEPT ![k].again = @ + 1]
  /\ caller' = [caller EXCEPT ![d][k] =
       IF EventBacked(k[1]) THEN [@ EXCEPT !.pc = "notification"] ELSE NoCall]
  /\ UNCHANGED <<entry, processed, userMessage, notification, worker, hook, takes, faults>>

(* Mutant: the provider's own status is stored. *)
RecordRaw(d, k) ==
  /\ caller[d][k].pc = "attempt" /\ caller[d][k].outcome \in Outcome
  /\ UpdateStatus(k, "completed", "live")
  /\ caller' = [caller EXCEPT ![d][k].pc = "user"]
  /\ UNCHANGED <<entry, processed, userMessage, notification, worker, hook, trail, takes, faults>>

(* Otherwise the outcome is recorded: on the attempt (a failure sets       *)
(* provider_message_id to NULL),                                           *)
RecordAttempt(d, k) ==
  /\ caller[d][k].pc = "attempt" /\ caller[d][k].outcome \in Outcome
  /\ UpdateStatus(k, caller[d][k].outcome,
                  IF caller[d][k].outcome = "sent" THEN "live" ELSE "none")
  /\ caller' = [caller EXCEPT ![d][k].pc = "user"]
  /\ UNCHANGED <<entry, processed, userMessage, notification, worker, hook, trail, takes, faults>>

(* then on the users_messages row,                                         *)
RecordUserMessage(d, k) ==
  /\ caller[d][k].pc = "user"
  /\ userMessage' = [userMessage EXCEPT ![<<k[1], k[2]>>] = caller[d][k].outcome]
  /\ caller' = [caller EXCEPT ![d][k] =
       IF EventBacked(k[1]) THEN [@ EXCEPT !.pc = "notification"] ELSE NoCall]
  /\ UNCHANGED <<entry, processed, notification, attempt, worker, hook, trail, takes, faults>>

(* and on the notification, which a retry sets back to queued.             *)
RecordNotification(d, k) ==
  /\ caller[d][k].pc = "notification"
  /\ UpdateNotification(NoteOf(k), k[1], caller[d][k].outcome)
  /\ caller' = [caller EXCEPT ![d][k] = NoCall]
  /\ UNCHANGED <<entry, processed, userMessage, attempt, worker, hook, trail, takes, faults>>

InHand(k) == \E d \in Dispatchers : caller[d][k].pc \in {"call", "attempt"}

(* lease_expires_at passes.  Under a dispatcher that has still to write    *)
(* the row that is a fault (the dispatcher is slow).                       *)
LeaseExpires(k) ==
  /\ attempt[k].status = "dispatching" /\ attempt[k].leased
  /\ IF InHand(k) THEN Fault ELSE UNCHANGED faults
  /\ attempt' = [attempt EXCEPT ![k].leased = FALSE]
  /\ trail' = [trail EXCEPT ![k].again = @ + 1, ![k].disturbed = TRUE]
  /\ UNCHANGED <<entry, processed, userMessage, notification, worker, caller, hook, takes>>

(* A statement fails and ProcessAttempt returns, for one attempt, or the   *)
(* process dies with all it has claimed.                                   *)
LetGo(d, S) ==
  /\ Fault
  /\ caller' = [caller EXCEPT ![d] = [k \in Keys |-> IF k \in S THEN NoCall ELSE @[k]]]
  /\ Hit(S)
  /\ UNCHANGED <<entry, rows, worker, hook, takes>>

Held(d) == {k \in Keys : caller[d][k].pc # "none"}

DispatcherFails(d) ==
  /\ Held(d) # {}
  /\ LetGo(d, Held(d)) \/ \E k \in Held(d) : LetGo(d, {k})

-----------------------------------------------------------------------------
(* handleTwilioVoiceStatusCallback *)

(* Twilio posts the final status of the call the attempt names, and the    *)
(* handler finds the attempt.  To post it again is a fault.  (A call no    *)
(* attempt names is answered 204.)                                         *)
HookLookup(h, k) ==
  /\ hook[h].pc = "none"
  /\ attempt[k].call # "none"
  /\ IF attempt[k].call = "live" THEN UNCHANGED faults ELSE Fault
  /\ \E outcome \in Outcome :
       /\ attempt[k].call \in {"live", outcome}
       /\ hook' = [hook EXCEPT ![h] = [pc |-> "attempt", key |-> k, outcome |-> outcome]]
       /\ attempt' = [attempt EXCEPT ![k].call = outcome]
       /\ trail' = [trail EXCEPT ![k].told = @ \cup {outcome}]
  /\ UNCHANGED <<entry, processed, userMessage, notification, worker, caller, takes>>

(* UpdateVoiceCallback: lease and provider_message_id are kept. *)
HookAttempt(h) ==
  LET k == hook[h].key IN
  /\ hook[h].pc = "attempt"
  /\ attempt' = [attempt EXCEPT ![k].status = hook[h].outcome]
  /\ trail' = [trail EXCEPT ![k].disturbed = @ \/ \E d \in Dispatchers : k \in Held(d)]
  /\ hook' = [hook EXCEPT ![h].pc = "user"]
  /\ UNCHANGED <<entry, processed, userMessage, notification, worker, caller, takes, faults>>

HookUserMessage(h) ==
  LET k == hook[h].key IN
  /\ hook[h].pc = "user"
  /\ userMessage' = [userMessage EXCEPT ![<<k[1], k[2]>>] = hook[h].outcome]
  /\ hook' = [hook EXCEPT ![h] =
       IF EventBacked(k[1]) THEN [@ EXCEPT !.pc = "notification"] ELSE NoHook]
  /\ UNCHANGED <<entry, processed, notification, attempt, worker, caller, trail, takes, faults>>

HookNotification(h) ==
  LET k == hook[h].key IN
  /\ hook[h].pc = "notification"
  /\ UpdateNotification(NoteOf(k), k[1], hook[h].outcome)
  /\ hook' = [hook EXCEPT ![h] = NoHook]
  /\ UNCHANGED <<entry, processed, userMessage, attempt, worker, caller, trail, takes, faults>>

(* A statement fails, and the handler answers 500. *)
HookFails(h) ==
  /\ hook[h].pc # "none"
  /\ Fault
  /\ Hit({hook[h].key})
  /\ hook' = [hook EXCEPT ![h] = NoHook]
  /\ UNCHANGED <<entry, rows, worker, caller, takes>>

-----------------------------------------------------------------------------
Step(w) ==
  \/ \E u \in Users : CreateUserMessage(w, u)
  \/ ListExisting(w)
  \/ \E c \in Channels : EnsureNotification(w, c) \/ CreateWithoutEvent(w, c)
  \/ TouchLastMessage(w) \/ ListAttempts(w) \/ CreateAttempt(w)
  \/ UpdateDestination(w) \/ FailAttempt(w) \/ FailNotification(w)
  \/ Summary(w) \/ MarkProcessed(w) \/ Ack(w)

Take(w) == \E m \in Messages : ReadGroup(w, m) \/ AutoClaim(w, m)

Call(d, k) ==
  \/ Claim(d, k) \/ Send(d, k) \/ Requeue(d, k)
  \/ RecordAttempt(d, k) \/ RecordUserMessage(d, k) \/ RecordNotification(d, k)

Handle(h) == HookAttempt(h) \/ HookUserMessage(h) \/ HookNotification(h)

Next ==
  \/ \E m \in Messages : Publish(m) \/ Republish(m)
  \/ \E w \in Workers : \/ Take(w) \/ Step(w) \/ Abandon(w)
                        \/ \E m \in Messages : AutoClaimInWork(w, m)
  \/ \E d \in Dispatchers : DispatcherFails(d) \/ \E k \in Keys : Call(d, k)
  \/ \E k \in Keys : LeaseExpires(k)
  \/ \E h \in Handlers : Handle(h) \/ HookFails(h) \/ \E k \in Keys : HookLookup(h, k)

Spec == Init /\ [][Next]_vars

(* Runner.Run never ends and the process is restarted when it does: a      *)
(* worker takes what there is and goes on with what it took; so does a     *)
(* dispatcher.  Time passes: the lease of a row nobody works on runs out.  *)
(* No fault is ever assumed to happen, and no callback to come.            *)
Fairness ==
  /\ \A w \in Workers : WF_vars(Take(w)) /\ WF_vars(Step(w))
  /\ \A d \in Dispatchers : \A k \in Keys : WF_vars(Call(d, k))
  /\ \A k \in Keys : WF_vars(LeaseExpires(k) /\ UNCHANGED faults)

FairSpec == Spec /\ Fairness

-----------------------------------------------------------------------------
TypeOK ==
  /\ entry \in [Messages -> EntryState]
  /\ processed \in [Messages -> BOOLEAN]
  /\ userMessage \in [Messages \X Users -> UserMessageStatus]
  /\ notification \in [Events \X Users \X Channels -> Notification]
  /\ attempt \in [Keys -> Attempt]
  /\ worker \in [Workers -> Worker]
  /\ caller \in [Dispatchers -> [Keys -> Caller]]
  /\ hook \in [Handlers -> Hook]
  /\ trail \in [Keys -> Trail]
  /\ takes \in [Messages -> Nat]
  /\ faults \in 0..MaxFaults

(* However many workers plan messages of an event at the same time, crash  *)
(* and start again: a recipient has one attempt for it on each channel     *)
(* (the check before the INSERT alone would not do, the unique keys and    *)
(* the handling of a duplicate do).                                        *)
OneAttemptPerEvent ==
  \A j, k \in Keys : Exists(j) /\ Exists(k) /\ slotOf[j] = slotOf[k] => j = k

(* A message marked processed has nothing left to plan: each matched       *)
(* recipient has an attempt on each channel, the message's own or one of   *)
(* another message of its event.                                           *)
ProcessedMeansPlanned == \A k \in Keys : processed[k[1]] => OfSlot(k) # {}

(* Attempts whose INSERT was the last thing their worker did: nobody will  *)
(* give them a destination, or fail them for want of one.                  *)
Orphans ==
  {k \in Keys :
     /\ Exists(k) /\ attempt[k].destination = None
     /\ SelectContactMethod(k[2], k[3]) # None \/ attempt[k].status = "queued"
     /\ \A w \in Workers :
          worker[w].pc \in {"destination", "failAttempt"} => KeyOf(w) # k}

(* A redelivered message does not complete them (queueChannelForMatch      *)
(* returns early on a row it did not make), but there are no more of them  *)
(* than there were faults: no race between workers makes one.              *)
OrphansAccounted == Cardinality(Orphans) <= faults

(* A recipient is suppressed for a message only when each channel has an   *)
(* attempt for the event, and unless the message was delivered before,     *)
(* when those attempts are all of other messages.                          *)
SuppressedByAnother ==
  \A p \in Messages \X Users : userMessage[p] = "suppressed" =>
    \A c \in channelsOf[p[1]][p[2]] :
      \E j \in OfSlot(<<p[1], p[2], c>>) : takes[p[1]] <= 1 => j[1] # p[1]

(* What is known of an attempt: what Twilio said (a call was placed or     *)
(* completed, it was refused or failed), or that there is no contact       *)
(* method.                                                                 *)
Told(k, outcome) ==
  \/ outcome \in trail[k].told
  \/ outcome = "failed" /\ SelectContactMethod(k[2], k[3]) = None

(* users_messages never claims a call that was not placed for the          *)
(* recipient, nor a failure that did not happen, although the planner's    *)
(* summary, the dispatchers, late ones too, and the callbacks all write it *)
(* without conditions.  (Which of several is the last is another question: *)
(* a callback may have flipped the attempt since.)                         *)
TruthfulOutcome ==
  \A p \in Messages \X Users :
    LET Some(outcome) == \E c \in channelsOf[p[1]][p[2]] :
                           \E j \in OfSlot(<<p[1], p[2], c>>) : Told(j, outcome)
    IN  /\ userMessage[p] \in {"sent", "partial_failure"} => Some("sent")
        /\ userMessage[p] \in {"failed", "partial_failure"} => Some("failed")

(* A notification spans the messages that were planned for it, in whatever *)
(* order workers touch it: last_message_id is not older than any processed *)
(* message of the event, nor is it older than first_message_id.            *)
SpanCoversProcessed ==
  \A k \in Keys : EventBacked(k[1]) =>
    LET n == notification[NoteOf(k)] IN
    /\ processed[k[1]] => n.first # None /\ n.last >= k[1]
    /\ n.first # None => n.last >= n.first

(* Somebody is about to write an outcome into the notification of k. *)
Recording(k) ==
  \/ \E d \in Dispatchers : caller[d][k].pc \in {"user", "notification"}
  \/ \E h \in Handlers : hook[h].key = k /\ hook[h].pc \in {"user", "notification"}
  \/ \E w \in Workers : worker[w].pc = "failNotification" /\ KeyOf(w) = k

(* Attempt and notification end the same, although planner, dispatchers    *)
(* and callbacks write both with statements of their own, unless a fault   *)
(* hit the attempt or a callback was applied while a dispatcher still had  *)
(* the attempt in work (which needs no fault).                             *)
PartedOnlyByDisturbance ==
  \A k \in Keys :
    /\ EventBacked(k[1])
    /\ attempt[k].status \in Outcome
    /\ ~Recording(k)
    /\ notification[NoteOf(k)].status # attempt[k].status
    => trail[k].disturbed

(* The abstract promise: planned once per event; called once, and once     *)
(* more for each lease that ran out and each answer that asked for a       *)
(* retry, but never because a message was planned again, by whomever.      *)
Promise == INSTANCE EventCalls WITH
  planned <- {k \in Keys : Exists(k)},
  calls <- [k \in Keys |-> trail[k].calls],
  again <- [k \in Keys |-> trail[k].again]
CalledOncePerEvent == Promise!Spec

(* A published message is processed whatever goes wrong on the way, and    *)
(* each recipient it is to call has been tried for its event.              *)
ServedVoice(m) ==
  \A k \in Keys : k[1] = m /\ k[3] = Voice =>
    \E j \in OfSlot(k) : attempt[j].status \in Outcome
EveryMessageServed ==
  \A m \in Messages : []<>(entry[m] # "none" => processed[m] /\ ServedVoice(m))

(* The pipeline test runs worker and dispatcher side by side and expects   *)
(* the call to go to the recipient's number                                *)
(* (pipeline_integration_test.go:230).                                     *)
DialsTheRecipient ==
  \A d \in Dispatchers : \A k \in Keys : caller[d][k].pc # "none" =>
    caller[d][k].dialled = SelectContactMethod(k[2], k[3])

(* The pipeline test expects users_messages to read sent once the message  *)
(* is processed and its call was placed (pipeline_integration_test.go:171).*)
(* Stated for a recipient with one channel, and, as in the test, before    *)
(* any callback.                                                           *)
SummaryStands ==
  \A k \in Keys :
    /\ channelsOf[k[1]][k[2]] = {Voice}
    /\ processed[k[1]] /\ \A d \in Dispatchers : k \notin Held(d)
    /\ attempt[k].status = "sent" /\ attempt[k].call = "live"
    => userMessage[<<k[1], k[2]>>] = "sent"
=============================================================================
