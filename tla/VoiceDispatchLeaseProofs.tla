---------------------- MODULE VoiceDispatchLeaseProofs ----------------------
(***************************************************************************)
(* What the lease protects: the inductive invariant behind                 *)
(* WorkedUnderLease, ReportStands and ReopenedOnlyLate.                    *)
(*                                                                         *)
(* None of the dispatcher's UPDATEs checks the lease, so the three hold    *)
(* only because they support each other: a row in hand is dispatching and  *)
(* leased, so it names no call and awaits no callback, so no callback has  *)
(* been applied to it that the dispatcher could overwrite; and a finished  *)
(* row is in nobody's hand, so nobody reopens it.                          *)
(***************************************************************************)
EXTENDS VoiceDispatchProofs

(* Where the dispatcher will still write the row it has taken up. *)
WritePcs == {"send", "markAttempt", "requeueAttempt", "failAttempt"}

(* A row taken up is no longer in the rest of the batch. *)
TakenOut ==
  \A d \in Dispatchers : disp[d].pc \in WritePcs => disp[d].cur \in Attempts \ disp[d].todo

(* The history variable counts every lease that ran out. *)
ExpiryCounted == \A a \in Attempts : row[a].expired => late[a] > 0

(* A callback can find, or has found, only rows that are finished. *)
CalledRowsFinished ==
  \A a \in Attempts :
    late[a] = 0 /\ (row[a].sid # None \/ \E c \in Sids : a \in hook[c].todo)
      => row[a].status \in Outcome

LeaseInv ==
  /\ TakenOut
  /\ ExpiryCounted
  /\ WorkedUnderLease
  /\ CalledRowsFinished
  /\ ReportStands

LEMMA InitLeaseInv == Init => LeaseInv
  BY DEF Init, LeaseInv, TakenOut, ExpiryCounted, WorkedUnderLease, CalledRowsFinished,
         ReportStands, InHand, Idle, WritePcs

-----------------------------------------------------------------------------
(* What a move of the loop does to the rows in hand. *)

LEMMA ContinueHand ==
  ASSUME TypeOK, TakenOut, NEW d \in Dispatchers, Continue(d)
  PROVE  /\ TakenOut'
         /\ InHand(d)' \subseteq disp[d].todo
         /\ \A e \in Dispatchers \ {d} : InHand(e)' = InHand(e)
  <1> DEFINE next == IF disp[d].todo = {} THEN Idle
                     ELSE [disp[d] EXCEPT !.pc = "loop", !.cur = None, !.sid = None,
                                          !.delivered = FALSE]
  <1>1. disp' = [disp EXCEPT ![d] = next]
    BY DEF Continue
  <1>2. next.todo = disp[d].todo /\ next.pc \in {"idle", "loop"}
    BY DEF Idle, TypeOK, Dispatcher
  <1> HIDE DEF next
  <1>3. disp'[d] = next /\ \A e \in Dispatchers \ {d} : disp'[e] = disp[e]
    BY <1>1 DEF TypeOK
  <1>4. TakenOut'
    BY <1>2, <1>3 DEF TakenOut, WritePcs
  <1> QED
    BY <1>2, <1>3, <1>4 DEF InHand

LEMMA GotoHand ==
  ASSUME TypeOK, TakenOut, NEW d \in Dispatchers, NEW pc, Goto(d, pc),
         pc \in WritePcs => disp[d].pc \in WritePcs
  PROVE  /\ TakenOut'
         /\ InHand(d)' = disp[d].todo \cup (IF pc \in WritePcs THEN {disp[d].cur} ELSE {})
         /\ \A e \in Dispatchers \ {d} : InHand(e)' = InHand(e)
  <1> DEFINE next == [disp[d] EXCEPT !.pc = pc]
  <1>1. disp' = [disp EXCEPT ![d] = next]
    BY DEF Goto
  <1>2. next.todo = disp[d].todo /\ next.pc = pc /\ next.cur = disp[d].cur
    BY DEF TypeOK, Dispatcher
  <1> HIDE DEF next
  <1>3. disp'[d] = next /\ \A e \in Dispatchers \ {d} : disp'[e] = disp[e]
    BY <1>1 DEF TypeOK
  <1>4. TakenOut'
    BY <1>2, <1>3 DEF TakenOut
  <1> QED
    BY <1>2, <1>3, <1>4 DEF InHand, WritePcs

(* A step that writes no row, and after which nobody has more in hand, and *)
(* no callback more rows to write, than before.                            *)
LEMMA NothingTaken ==
  ASSUME LeaseInv, UNCHANGED <<row, late>>, TakenOut',
         \A d \in Dispatchers : InHand(d)' \subseteq InHand(d),
         \A c \in Sids : hook'[c].todo \subseteq hook[c].todo
  PROVE  LeaseInv'
  <1>1. ExpiryCounted' /\ ReportStands'
    BY DEF LeaseInv, ExpiryCounted, ReportStands
  <1>2. WorkedUnderLease'
    BY DEF LeaseInv, WorkedUnderLease
  <1>3. CalledRowsFinished'
    BY DEF LeaseInv, CalledRowsFinished
  <1> QED
    BY <1>1, <1>2, <1>3 DEF LeaseInv

(* A row somebody has in hand, and whose lease never ran out, is in no     *)
(* other hand, names no call, awaits no callback and has had none.         *)
LEMMA InHandIsFresh ==
  ASSUME TypeOK, LeaseInv, NEW d \in Dispatchers, NEW a \in Attempts, a \in InHand(d),
         late[a] = 0
  PROVE  /\ \A e \in Dispatchers \ {d} : a \notin InHand(e)
         /\ row[a].status = "dispatching"
         /\ row[a].sid = None
         /\ \A c \in Sids : a \notin hook[c].todo
         /\ row[a].report = "none"
  <1>1. row[a].lease = d /\ row[a].status = "dispatching"
    BY DEF LeaseInv, WorkedUnderLease
  <1>2. \A e \in Dispatchers : a \in InHand(e) => row[a].lease = e
    BY DEF LeaseInv, WorkedUnderLease
  <1>3. row[a].report \in {"none", "sent", "failed"}
    BY DEF TypeOK, Row
  <1> QED
    BY <1>1, <1>2, <1>3 DEF LeaseInv, CalledRowsFinished, ReportStands, Outcome

(* The dispatcher writes the row it has in hand and lets go of it. *)
LEMMA RowWritten ==
  ASSUME TypeOK, LeaseInv, NEW d \in Dispatchers, disp[d].pc \in WritePcs,
         NEW w, row' = [row EXCEPT ![disp[d].cur] = w],
         w.expired = FALSE, w.report = row[disp[d].cur].report,
         w.status \in Outcome \/ w.sid = row[disp[d].cur].sid,
         UNCHANGED <<hook, late>>, TakenOut',
         InHand(d)' \subseteq disp[d].todo,
         \A e \in Dispatchers \ {d} : InHand(e)' = InHand(e)
  PROVE  LeaseInv'
  <1> DEFINE a == disp[d].cur
  <1>0. /\ a \in Attempts /\ a \in InHand(d) /\ a \notin disp[d].todo
        /\ disp[d].todo \subseteq InHand(d)
    BY DEF LeaseInv, TakenOut, InHand, WritePcs
  <1>1. row'[a] = w /\ \A b \in Attempts \ {a} : row'[b] = row[b]
    BY <1>0 DEF TypeOK
  <1> HIDE DEF a
  <1>2. late[a] = 0 => /\ \A e \in Dispatchers \ {d} : a \notin InHand(e)
                       /\ row[a].sid = None
                       /\ \A c \in Sids : a \notin hook[c].todo
                       /\ row[a].report = "none"
    BY <1>0, InHandIsFresh
  <1>3. ExpiryCounted'
    BY <1>0, <1>1 DEF LeaseInv, ExpiryCounted
  <1>4. WorkedUnderLease'
    <2> SUFFICES ASSUME NEW e \in Dispatchers, NEW b \in InHand(e)', late[b] = 0
                 PROVE  row'[b].lease = e /\ row'[b].status = "dispatching"
      BY DEF WorkedUnderLease
    <2>1. b \in InHand(e)
      BY <1>0
    <2>2. b # a
      BY <1>0, <1>2
    <2>3. b \in Attempts
      <3>1. InHand(e) \subseteq Attempts
        BY DEF InHand, LeaseInv, TakenOut, TypeOK, Dispatcher, WritePcs
      <3> QED
        BY <2>1, <3>1
    <2> QED
      BY <1>1, <2>1, <2>2, <2>3 DEF LeaseInv, WorkedUnderLease
  <1>5. CalledRowsFinished'
    <2> SUFFICES ASSUME NEW b \in Attempts, late[b] = 0,
                        row'[b].sid # None \/ \E c \in Sids : b \in hook[c].todo
                 PROVE  row'[b].status \in Outcome
      BY DEF CalledRowsFinished
    <2>1. CASE b = a
      BY <1>1, <1>2, <2>1 DEF a
    <2>2. CASE b # a
      BY <1>1, <2>2 DEF LeaseInv, CalledRowsFinished
    <2> QED
      BY <2>1, <2>2
  <1>6. ReportStands'
    <2> SUFFICES ASSUME NEW b \in Attempts, late[b] = 0, row'[b].report # "none"
                 PROVE  row'[b].status = row'[b].report
      BY DEF ReportStands
    <2>1. b # a
      BY <1>1, <1>2 DEF a
    <2> QED
      BY <1>1, <2>1 DEF LeaseInv, ReportStands
  <1> QED
    BY <1>3, <1>4, <1>5, <1>6 DEF LeaseInv

(* The rows in hand are rows. *)
LEMMA HandsType ==
  ASSUME TypeOK, TakenOut, NEW d \in Dispatchers
  PROVE  InHand(d) \subseteq Attempts
  BY DEF InHand, TakenOut, TypeOK, Dispatcher, WritePcs

-----------------------------------------------------------------------------
(* One lemma per group of actions. *)

LEMMA EnvironmentLeaseInv ==
  ASSUME TypeOK, LeaseInv, NEW a \in Attempts, Create(a) \/ LeaseExpires(a) \/ RetryDue(a)
  PROVE  LeaseInv'
  <1>0. UNCHANGED <<disp, hook>>
    BY DEF Create, LeaseExpires, RetryDue
  <1>1. TakenOut' /\ \A d \in Dispatchers : InHand(d)' = InHand(d) /\ InHand(d) \subseteq Attempts
    BY <1>0, HandsType DEF LeaseInv, TakenOut, InHand
  <1>2. CASE Create(a)
    <2>1. \A b \in Attempts : row'[b] = IF b = a THEN [row[a] EXCEPT !.status = "queued"] ELSE row[b]
      BY <1>2 DEF Create, TypeOK
    <2>2. /\ \A b \in Attempts : row'[b].sid = row[b].sid /\ row'[b].report = row[b].report
                                 /\ row'[b].expired = row[b].expired
                                 /\ row'[b].lease = row[b].lease
          /\ \A b \in Attempts : b # a => row'[b].status = row[b].status
      BY <2>1 DEF TypeOK, Row
    <2>3. row[a].status = "absent" /\ UNCHANGED late
      BY <1>2 DEF Create, history
    <2>4. row[a].status \notin Outcome /\ row[a].status # "dispatching"
      BY <2>3 DEF Outcome
    <2>5. row[a].report \in {"none", "sent", "failed"}
      BY DEF TypeOK, Row
    <2>6. ExpiryCounted'
      BY <2>2, <2>3 DEF LeaseInv, ExpiryCounted
    <2>7. WorkedUnderLease'
      BY <1>1, <2>2, <2>3, <2>4 DEF LeaseInv, WorkedUnderLease
    <2>8. CalledRowsFinished'
      BY <1>0, <2>2, <2>3, <2>4 DEF LeaseInv, CalledRowsFinished
    <2>9. ReportStands'
      BY <2>2, <2>3, <2>5 DEF LeaseInv, ReportStands
    <2> QED
      BY <1>1, <2>6, <2>7, <2>8, <2>9 DEF LeaseInv
  <1>3. CASE LeaseExpires(a)
    <2>1. /\ row' = [row EXCEPT ![a] = [row[a] EXCEPT !.expired = TRUE]]
          /\ late' = [late EXCEPT ![a] = late[a] + 1]
      BY <1>3 DEF LeaseExpires
    <2>2. /\ late'[a] > 0
          /\ \A b \in Attempts \ {a} : row'[b] = row[b] /\ late'[b] = late[b]
      BY <2>1 DEF TypeOK
    <2>3. ExpiryCounted'
      BY <2>2 DEF LeaseInv, ExpiryCounted
    <2>4. WorkedUnderLease'
      BY <1>1, <2>2 DEF LeaseInv, WorkedUnderLease
    <2>5. CalledRowsFinished'
      BY <1>0, <2>2 DEF LeaseInv, CalledRowsFinished
    <2>6. ReportStands'
      BY <2>2 DEF LeaseInv, ReportStands
    <2> QED
      BY <1>1, <2>3, <2>4, <2>5, <2>6 DEF LeaseInv
  <1>4. CASE RetryDue(a)
    <2>1. \A b \in Attempts : row'[b] = IF b = a THEN [row[a] EXCEPT !.due = TRUE] ELSE row[b]
      BY <1>4 DEF RetryDue, TypeOK
    <2>2. \A b \in Attempts : /\ row'[b].sid = row[b].sid /\ row'[b].report = row[b].report
                              /\ row'[b].expired = row[b].expired
                              /\ row'[b].lease = row[b].lease
                              /\ row'[b].status = row[b].status
      BY <2>1 DEF TypeOK, Row
    <2>3. UNCHANGED late
      BY <1>4 DEF RetryDue, history
    <2>4. ExpiryCounted' /\ ReportStands'
      BY <2>2, <2>3 DEF LeaseInv, ExpiryCounted, ReportStands
    <2>5. WorkedUnderLease'
      BY <1>1, <2>2, <2>3 DEF LeaseInv, WorkedUnderLease
    <2>6. CalledRowsFinished'
      BY <1>0, <2>2, <2>3 DEF LeaseInv, CalledRowsFinished
    <2> QED
      BY <1>1, <2>4, <2>5, <2>6 DEF LeaseInv
  <1> QED
    BY <1>2, <1>3, <1>4

(* The claim takes a row whose lease never ran out only from the queue,    *)
(* where it is in nobody's hand.                                           *)
LEMMA ClaimUpdateLeaseInv ==
  ASSUME TypeOK, LeaseInv, NEW d \in Dispatchers, ClaimUpdate(d)
  PROVE  LeaseInv'
  <1> DEFINE picked == FirstOf({a \in Attempts : Claimable(a)}, ClaimLimit)
             next == [Idle EXCEPT !.pc = "select", !.todo = picked]
  <1>1. /\ disp' = [disp EXCEPT ![d] = next]
        /\ row' = [a \in Attempts |->
                     IF a \in picked
                     THEN [row[a] EXCEPT !.status = "dispatching", !.lease = d, !.expired = FALSE]
                     ELSE row[a]]
        /\ UNCHANGED <<hook, late>>
    BY DEF ClaimUpdate, history
  <1>2. \A a \in picked : a \in Attempts /\ Claimable(a)
    BY DEF FirstOf
  <1> HIDE DEF picked
  <1>3. next.pc = "select" /\ next.todo = picked
    BY DEF Idle
  <1> HIDE DEF next
  <1>4. disp'[d] = next /\ \A e \in Dispatchers \ {d} : disp'[e] = disp[e]
    BY <1>1 DEF TypeOK
  <1>5. TakenOut'
    BY <1>3, <1>4 DEF LeaseInv, TakenOut, WritePcs
  <1>6. InHand(d)' = picked /\ \A e \in Dispatchers \ {d} : InHand(e)' = InHand(e)
    BY <1>3, <1>4 DEF InHand
  <1>7. \A a \in Attempts : IF a \in picked
                            THEN /\ row'[a].status = "dispatching" /\ row'[a].lease = d
                                 /\ row'[a].expired = FALSE /\ row'[a].sid = row[a].sid
                                 /\ row'[a].report = row[a].report
                            ELSE row'[a] = row[a]
    BY <1>1, ZenonT(40) DEF TypeOK, Row
  <1>8. \A a \in picked : late[a] = 0 => row[a].lease = None /\ row[a].status \notin Outcome
    BY <1>2 DEF Claimable, LeaseInv, ExpiryCounted, Outcome
  <1>9. ExpiryCounted'
    BY <1>1, <1>7 DEF LeaseInv, ExpiryCounted
  <1>10. WorkedUnderLease'
    <2> SUFFICES ASSUME NEW e \in Dispatchers, NEW a \in InHand(e)', late[a] = 0
                 PROVE  row'[a].lease = e /\ row'[a].status = "dispatching"
      BY <1>1 DEF WorkedUnderLease
    <2>1. CASE e = d
      BY <1>2, <1>6, <1>7, <2>1
    <2>2. CASE e # d
      <3>1. a \in InHand(e) /\ a \in Attempts
        BY <1>6, <2>2, HandsType DEF LeaseInv
      <3>2. row[a].lease = e /\ row[a].status = "dispatching"
        BY <3>1 DEF LeaseInv, WorkedUnderLease
      <3>3. a \notin picked
        BY <1>8, <3>2, ConstantsAssumption
      <3> QED
        BY <1>7, <3>1, <3>2, <3>3
    <2> QED
      BY <2>1, <2>2
  <1>11. CalledRowsFinished'
    <2> SUFFICES ASSUME NEW a \in Attempts, late[a] = 0,
                        row'[a].sid # None \/ \E c \in Sids : a \in hook[c].todo
                 PROVE  row'[a].status \in Outcome
      BY <1>1 DEF CalledRowsFinished
    <2>1. row'[a].sid = row[a].sid
      BY <1>7
    <2>2. row[a].status \in Outcome
      BY <2>1 DEF LeaseInv, CalledRowsFinished
    <2>3. a \notin picked
      BY <1>8, <2>2
    <2> QED
      BY <1>7, <2>2, <2>3
  <1>12. ReportStands'
    <2>1. \A a \in Attempts : row[a].report \in {"none", "sent", "failed"}
      BY DEF TypeOK, Row
    <2> QED
      BY <1>1, <1>7, <1>8, <2>1 DEF LeaseInv, ReportStands, Outcome
  <1> QED
    BY <1>5, <1>9, <1>10, <1>11, <1>12 DEF LeaseInv

(* Reading the batch back and taking up its rows gives nobody more.        *)
LEMMA LoopLeaseInv ==
  ASSUME TypeOK, LeaseInv, NEW d \in Dispatchers,
         \/ ClaimSelect(d) \/ ClaimSelectFails(d) \/ StartCall(d) \/ ReuseCall(d)
         \/ LookupFails(d)
  PROVE  LeaseInv'
  <1> DEFINE held == {a \in disp[d].todo : LeaseHeldBy(d, a)}
  <1>0. UNCHANGED <<row, late, hook>>
    BY DEF ClaimSelect, ClaimSelectFails, StartCall, ReuseCall, LookupFails, rows, history
  <1>1. PICK next : /\ disp' = [disp EXCEPT ![d] = next]
                    /\ next.todo \subseteq disp[d].todo
                    /\ next.pc \in WritePcs =>
                         next.cur \in disp[d].todo /\ next.cur \notin next.todo
    <2>1. CASE ClaimSelect(d)
      <3> DEFINE w == IF held = {} THEN Idle
                      ELSE [Idle EXCEPT !.pc = "loop", !.batch = held, !.todo = held]
      <3>1. disp' = [disp EXCEPT ![d] = w]
        BY <2>1 DEF ClaimSelect
      <3>2. w.todo \subseteq disp[d].todo /\ w.pc \notin WritePcs
        BY DEF Idle, WritePcs
      <3> QED
        BY <3>1, <3>2
    <2>2. CASE ClaimSelectFails(d)
      <3>1. disp' = [disp EXCEPT ![d] = Idle]
        BY <2>2 DEF ClaimSelectFails
      <3>2. Idle.todo = {} /\ Idle.pc \notin WritePcs
        BY DEF Idle, WritePcs
      <3> QED
        BY <3>1, <3>2
    <2>3. CASE StartCall(d) \/ ReuseCall(d)
      <3>0. PICK a \in disp[d].todo : \E pc, known : TakeUp(d, a, pc, known)
        BY <2>3 DEF StartCall, ReuseCall, IsNext
      <3>1. PICK pc, known : TakeUp(d, a, pc, known)
        BY <3>0
      <3> DEFINE w == [pc |-> pc, batch |-> disp[d].batch, todo |-> disp[d].todo \ {a},
                       cur |-> a, sid |-> known.sid, delivered |-> known.delivered]
      <3>2. disp' = [disp EXCEPT ![d] = w]
        BY <3>1 DEF TakeUp
      <3>3. w.todo \subseteq disp[d].todo /\ w.cur \in disp[d].todo /\ w.cur \notin w.todo
        OBVIOUS
      <3> QED
        BY <3>2, <3>3
    <2>4. CASE LookupFails(d)
      <3>1. PICK a \in Attempts :
              disp' = [disp EXCEPT ![d] = IF disp[d].todo \ {a} = {} THEN Idle
                                          ELSE [disp[d] EXCEPT !.todo = disp[d].todo \ {a}]]
        BY <2>4 DEF LookupFails
      <3> DEFINE w == IF disp[d].todo \ {a} = {} THEN Idle
                      ELSE [disp[d] EXCEPT !.todo = disp[d].todo \ {a}]
      <3>2. w.todo \subseteq disp[d].todo /\ w.pc \notin WritePcs
        BY <2>4 DEF Idle, WritePcs, LookupFails, TypeOK, Dispatcher
      <3> QED
        BY <3>1, <3>2
    <2> QED
      BY <2>1, <2>2, <2>3, <2>4
  <1>2. disp'[d] = next /\ \A e \in Dispatchers \ {d} : disp'[e] = disp[e]
    BY <1>1 DEF TypeOK
  <1>3. TakenOut'
    BY <1>1, <1>2 DEF LeaseInv, TakenOut, TypeOK, Dispatcher
  <1>4. \A e \in Dispatchers : InHand(e)' \subseteq InHand(e)
    BY <1>1, <1>2 DEF InHand, WritePcs
  <1> QED
    BY <1>0, <1>3, <1>4, NothingTaken

(* Asking Twilio changes where the loop is, not what it has in hand.       *)
LEMMA SendLeaseInv ==
  ASSUME TypeOK, LeaseInv, NEW d \in Dispatchers,
         SendOk(d) \/ SendRetryable(d) \/ SendRefused(d)
  PROVE  LeaseInv'
  <1>0. UNCHANGED <<row, late, hook>> /\ disp[d].pc = "send"
    BY DEF SendOk, SendRetryable, SendRefused, rows, history
  <1>1. PICK next : /\ disp' = [disp EXCEPT ![d] = next]
                    /\ next.todo = disp[d].todo /\ next.cur = disp[d].cur
                    /\ next.pc \in WritePcs
    <2>1. CASE SendOk(d)
      <3>1. PICK c \in Sids :
              disp' = [disp EXCEPT ![d] = [disp[d] EXCEPT !.pc = "markAttempt", !.sid = c]]
        BY <2>1 DEF SendOk
      <3> DEFINE w == [disp[d] EXCEPT !.pc = "markAttempt", !.sid = c]
      <3>2. w.todo = disp[d].todo /\ w.cur = disp[d].cur /\ w.pc \in WritePcs
        BY DEF TypeOK, Dispatcher, WritePcs
      <3> QED
        BY <3>1, <3>2
    <2>2. CASE SendRetryable(d) \/ SendRefused(d)
      <3>1. PICK pc \in WritePcs : disp' = [disp EXCEPT ![d] = [disp[d] EXCEPT !.pc = pc]]
        BY <2>2 DEF SendRetryable, SendRefused, Goto, WritePcs
      <3> DEFINE w == [disp[d] EXCEPT !.pc = pc]
      <3>2. w.todo = disp[d].todo /\ w.cur = disp[d].cur /\ w.pc \in WritePcs
        BY DEF TypeOK, Dispatcher
      <3> QED
        BY <3>1, <3>2
    <2> QED
      BY <2>1, <2>2
  <1>2. disp'[d] = next /\ \A e \in Dispatchers \ {d} : disp'[e] = disp[e]
    BY <1>1 DEF TypeOK
  <1>3. TakenOut'
    BY <1>0, <1>1, <1>2 DEF LeaseInv, TakenOut, WritePcs
  <1>4. \A e \in Dispatchers : InHand(e)' \subseteq InHand(e)
    BY <1>0, <1>1, <1>2 DEF InHand
  <1> QED
    BY <1>0, <1>3, <1>4, NothingTaken

-----------------------------------------------------------------------------
(* markSent, markDelivered and handleSendError. *)
LEMMA WriteLeaseInv ==
  ASSUME TypeOK, LeaseInv, NEW d \in Dispatchers,
         \/ MarkAttempt(d) \/ MarkUser(d) \/ MarkNotif(d)
         \/ RequeueAttempt(d) \/ RequeueNotif(d)
         \/ FailAttempt(d) \/ FailUser(d) \/ FailNotif(d)
         \/ StatementFails(d)
  PROVE  LeaseInv'
  <1> DEFINE a == disp[d].cur
  <1>0. UNCHANGED <<hook, late>> /\ TakenOut
    BY DEF MarkAttempt, MarkUser, MarkNotif, RequeueAttempt, RequeueNotif, FailAttempt,
           FailUser, FailNotif, StatementFails, history, rows, LeaseInv
  <1>a. disp[d].todo \subseteq InHand(d)
    BY DEF InHand
  <1>b. disp[d].pc \in WritePcs => row[a] \in Row /\ a \in Attempts
    BY <1>0 DEF TakenOut, TypeOK
  <1>1. CASE \/ MarkUser(d) \/ MarkNotif(d) \/ RequeueNotif(d) \/ FailUser(d)
             \/ FailNotif(d) \/ StatementFails(d)
    <2>1. UNCHANGED row
      BY <1>1 DEF MarkUser, MarkNotif, RequeueNotif, FailUser, FailNotif, StatementFails, rows
    <2>2. Continue(d) \/ Goto(d, "markNotif") \/ Goto(d, "failNotif")
      BY <1>1 DEF MarkUser, MarkNotif, RequeueNotif, FailUser, FailNotif, StatementFails
    <2>3. /\ TakenOut' /\ InHand(d)' \subseteq disp[d].todo
          /\ \A e \in Dispatchers \ {d} : InHand(e)' = InHand(e)
      BY <1>0, <2>2, ContinueHand, GotoHand DEF WritePcs
    <2> QED
      BY <1>0, <1>a, <2>1, <2>3, NothingTaken
  <1>2. CASE MarkAttempt(d)
    <2> DEFINE w == [row[a] EXCEPT !.status = "sent", !.sid = disp[d].sid, !.lease = None,
                                   !.expired = FALSE, !.delivered = disp[d].delivered]
    <2>1. row' = [row EXCEPT ![a] = w] /\ disp[d].pc \in WritePcs
      BY <1>2 DEF MarkAttempt, UpdateStatus, WritePcs
    <2>2. w.expired = FALSE /\ w.report = row[a].report /\ w.status \in Outcome
      BY <1>b, <2>1 DEF Row, Outcome
    <2>3. /\ TakenOut' /\ InHand(d)' \subseteq disp[d].todo
          /\ \A e \in Dispatchers \ {d} : InHand(e)' = InHand(e)
      BY <1>0, <1>2, GotoHand DEF WritePcs, MarkAttempt
    <2> HIDE DEF w
    <2> QED
      BY <1>0, <2>1, <2>2, <2>3, RowWritten
  <1>3. CASE FailAttempt(d)
    <2> DEFINE w == [row[a] EXCEPT !.status = "failed", !.sid = None, !.lease = None,
                                   !.expired = FALSE, !.delivered = FALSE]
    <2>1. row' = [row EXCEPT ![a] = w] /\ disp[d].pc \in WritePcs
      BY <1>3 DEF FailAttempt, UpdateStatus, WritePcs
    <2>2. w.expired = FALSE /\ w.report = row[a].report /\ w.status \in Outcome
      BY <1>b, <2>1 DEF Row, Outcome
    <2>3. /\ TakenOut' /\ InHand(d)' \subseteq disp[d].todo
          /\ \A e \in Dispatchers \ {d} : InHand(e)' = InHand(e)
      BY <1>0, <1>3, GotoHand DEF WritePcs, FailAttempt
    <2> HIDE DEF w
    <2> QED
      BY <1>0, <2>1, <2>2, <2>3, RowWritten
  <1>4. CASE RequeueAttempt(d)
    <2> DEFINE w == [row[a] EXCEPT !.status = "queued", !.due = FALSE,
                                   !.lease = None, !.expired = FALSE]
    <2>1. row' = [row EXCEPT ![a] = w] /\ disp[d].pc \in WritePcs
      BY <1>4 DEF RequeueAttempt, Requeue, WritePcs
    <2>2. w.expired = FALSE /\ w.report = row[a].report /\ w.sid = row[a].sid
      BY <1>b, <2>1 DEF Row
    <2>3. /\ TakenOut' /\ InHand(d)' \subseteq disp[d].todo
          /\ \A e \in Dispatchers \ {d} : InHand(e)' = InHand(e)
      BY <1>0, <1>4, GotoHand, ContinueHand DEF WritePcs, RequeueAttempt
    <2> HIDE DEF w
    <2> QED
      BY <1>0, <2>1, <2>2, <2>3, RowWritten
  <1> QED
    BY <1>1, <1>2, <1>3, <1>4

LEMMA RestartLeaseInv ==
  ASSUME TypeOK, LeaseInv, NEW d \in Dispatchers, Restart(d)
  PROVE  LeaseInv'
  <1>1. UNCHANGED <<row, late, hook>> /\ disp' = [disp EXCEPT ![d] = Idle]
    BY DEF Restart, rows, history
  <1>2. disp'[d] = Idle /\ \A e \in Dispatchers \ {d} : disp'[e] = disp[e]
    BY <1>1 DEF TypeOK
  <1>3. TakenOut' /\ \A e \in Dispatchers : InHand(e)' \subseteq InHand(e)
    BY <1>2 DEF LeaseInv, TakenOut, InHand, Idle, WritePcs
  <1> QED
    BY <1>1, <1>3, NothingTaken

-----------------------------------------------------------------------------
(* The callback handler writes only finished rows, which nobody has in     *)
(* hand, and only to finish them.                                          *)
LEMMA HookAttemptLeaseInv ==
  ASSUME TypeOK, LeaseInv, NEW c \in Sids, HookAttempt(c)
  PROVE  LeaseInv'
  <1>1. PICK a \in hook[c].todo : UpdateVoiceCallback(a, ReportOf(c))
    BY DEF HookAttempt, HookAt
  <1> DEFINE report == ReportOf(c)
             done == report = "sent"
             w == [row[a] EXCEPT !.status = report, !.delivered = done, !.report = report]
  <1>2. /\ row' = [row EXCEPT ![a] = w]
        /\ hook' = [hook EXCEPT ![c].pc = "user"]
        /\ UNCHANGED <<late, disp>>
    BY <1>1 DEF HookAttempt, UpdateVoiceCallback, history
  <1>3. a \in Attempts /\ row[a] \in Row
    BY DEF TypeOK, Hook
  <1>4. report \in Outcome
    BY DEF ReportOf, Outcome
  <1> HIDE DEF report
  <1> HIDE DEF done
  <1>5. /\ w.status = report /\ w.report = report /\ w.sid = row[a].sid
        /\ w.expired = row[a].expired
    BY <1>3 DEF Row
  <1> HIDE DEF w
  <1>6. row'[a] = w /\ \A b \in Attempts \ {a} : row'[b] = row[b]
    BY <1>2, <1>3 DEF TypeOK
  <1>7. \A s \in Sids : hook'[s].todo = hook[s].todo
    BY <1>2 DEF TypeOK, Hook
  <1>8. late[a] = 0 => \A d \in Dispatchers : a \notin InHand(d)
    BY <1>3, InHandIsFresh
  <1>9. TakenOut' /\ \A d \in Dispatchers : InHand(d)' = InHand(d) /\ InHand(d) \subseteq Attempts
    BY <1>2, HandsType DEF LeaseInv, TakenOut, InHand
  <1>10. ExpiryCounted'
    BY <1>2, <1>3, <1>5, <1>6 DEF LeaseInv, ExpiryCounted
  <1>11. WorkedUnderLease'
    BY <1>2, <1>6, <1>8, <1>9 DEF LeaseInv, WorkedUnderLease
  <1>12. CalledRowsFinished'
    BY <1>2, <1>4, <1>5, <1>6, <1>7 DEF LeaseInv, CalledRowsFinished
  <1>13. ReportStands'
    BY <1>2, <1>5, <1>6 DEF LeaseInv, ReportStands
  <1> QED
    BY <1>9, <1>10, <1>11, <1>12, <1>13 DEF LeaseInv

LEMMA HookLeaseInv ==
  ASSUME TypeOK, LeaseInv, NEW c \in Sids,
         CallEnds(c) \/ Handling(c) \/ HookFails(c) \/ HookRepeats(c)
  PROVE  LeaseInv'
  <1>1. CASE HookAttempt(c)
    BY <1>1, HookAttemptLeaseInv
  <1>2. CASE HookLookup(c)
    <2> DEFINE found == {a \in Attempts : row[a].sid = c}
               next == [pc |-> IF found = {} THEN "dropped" ELSE "attempt", todo |-> found]
    <2>1. hook' = [hook EXCEPT ![c] = next] /\ UNCHANGED <<row, disp, late>>
      BY <1>2 DEF HookLookup, rows, history
    <2>2. next.todo = found
      OBVIOUS
    <2> HIDE DEF next
    <2>3. hook'[c].todo = found /\ \A s \in Sids \ {c} : hook'[s] = hook[s]
      BY <2>1, <2>2 DEF TypeOK
    <2>4. \A a \in found : row[a].sid # None
      BY ConstantsAssumption
    <2>5. CalledRowsFinished'
      BY <2>1, <2>3, <2>4 DEF LeaseInv, CalledRowsFinished
    <2>6. TakenOut' /\ ExpiryCounted' /\ WorkedUnderLease' /\ ReportStands'
      BY <2>1 DEF LeaseInv, TakenOut, ExpiryCounted, WorkedUnderLease, ReportStands, InHand
    <2> QED
      BY <2>5, <2>6 DEF LeaseInv
  <1>3. CASE CallEnds(c) \/ HookUser(c) \/ HookNotif(c) \/ HookFails(c) \/ HookRepeats(c)
    <2>1. UNCHANGED <<row, disp, late>>
      BY <1>3 DEF CallEnds, HookUser, HookNotif, HookFails, HookRepeats, rows, history
    <2>2. PICK next : hook' = [hook EXCEPT ![c] = next] /\ next.todo \subseteq hook[c].todo
      <3>1. CASE CallEnds(c) \/ HookFails(c)
        BY <3>1 DEF CallEnds, HookFails
      <3>2. CASE HookUser(c) \/ HookNotif(c) \/ HookRepeats(c)
        <4>1. \/ \E pc \in HookPc : hook' = [hook EXCEPT ![c] = [hook[c] EXCEPT !.pc = pc]]
              \/ \E a \in Attempts : HookNext(c, a)
          BY <3>2 DEF HookUser, HookNotif, HookRepeats, HookPc
        <4>2. ASSUME NEW pc \in HookPc PROVE [hook[c] EXCEPT !.pc = pc].todo = hook[c].todo
          BY DEF TypeOK, Hook
        <4>3. ASSUME NEW a \in Attempts, HookNext(c, a)
              PROVE  \E next : hook' = [hook EXCEPT ![c] = next] /\ next.todo \subseteq hook[c].todo
          <5> DEFINE rest == hook[c].todo \ {a}
                     w == [pc |-> IF rest = {} THEN "done" ELSE "attempt", todo |-> rest]
          <5>1. hook' = [hook EXCEPT ![c] = w] /\ w.todo \subseteq hook[c].todo
            BY <4>3 DEF HookNext
          <5> QED
            BY <5>1
        <4> QED
          BY <4>1, <4>2, <4>3
      <3> QED
        BY <1>3, <3>1, <3>2
    <2>3. \A s \in Sids : hook'[s].todo \subseteq hook[s].todo
      BY <2>2 DEF TypeOK
    <2>4. TakenOut' /\ \A d \in Dispatchers : InHand(d)' = InHand(d)
      BY <2>1 DEF LeaseInv, TakenOut, InHand
    <2> QED
      BY <2>1, <2>3, <2>4, NothingTaken
  <1> QED
    BY <1>1, <1>2, <1>3 DEF Handling

-----------------------------------------------------------------------------
LEMMA NextLeaseInv == TypeOK /\ LeaseInv /\ [Next]_vars => LeaseInv'
  <1> SUFFICES ASSUME TypeOK, LeaseInv, [Next]_vars PROVE LeaseInv'
    OBVIOUS
  <1>1. ASSUME NEW a \in Attempts, Create(a) \/ LeaseExpires(a) \/ RetryDue(a) PROVE LeaseInv'
    BY <1>1, EnvironmentLeaseInv
  <1>2. ASSUME NEW d \in Dispatchers, Working(d) \/ Failing(d) PROVE LeaseInv'
    BY <1>2, ClaimUpdateLeaseInv, LoopLeaseInv, SendLeaseInv, WriteLeaseInv, RestartLeaseInv
       DEF Working, Failing
  <1>3. ASSUME NEW c \in Sids, CallEnds(c) \/ Handling(c) \/ HookFails(c) \/ HookRepeats(c)
        PROVE  LeaseInv'
    BY <1>3, HookLeaseInv
  <1>4. CASE UNCHANGED vars
    BY <1>4 DEF vars, LeaseInv, TakenOut, ExpiryCounted, WorkedUnderLease, CalledRowsFinished,
                ReportStands, InHand
  <1> QED
    BY <1>1, <1>2, <1>3, <1>4 DEF Next

THEOREM LeaseInvariant == Spec => []LeaseInv
  <1>1. Init => LeaseInv
    BY InitLeaseInv
  <1>2. TypeOK /\ LeaseInv /\ [Next]_vars => LeaseInv'
    BY NextLeaseInv
  <1> QED
    BY <1>1, <1>2, TypeCorrect, PTL DEF Spec

(* As long as a row's lease has never run out, whoever will still write it *)
(* holds its lease: for any number of dispatchers, rows and faults.        *)
THEOREM LeaseProtects == Spec => []WorkedUnderLease
  <1>1. LeaseInv => WorkedUnderLease
    BY DEF LeaseInv
  <1> QED
    BY <1>1, LeaseInvariant, PTL

(* No dispatcher overwrites what the final callback wrote, unless the row  *)
(* was worked on past its lease.                                           *)
THEOREM ReportsStand == Spec => []ReportStands
  <1>1. LeaseInv => ReportStands
    BY DEF LeaseInv
  <1> QED
    BY <1>1, LeaseInvariant, PTL

(* No step reopens a finished row whose lease never ran out: a claim takes *)
(* no finished row, and the one statement that requeues is issued by a     *)
(* dispatcher with the row in hand.                                        *)
LEMMA ReopenedOnlyLateStep ==
  TypeOK /\ LeaseInv /\ [Next]_vars =>
    [\A a \in Attempts :
       row[a].status \in Outcome /\ row'[a].status \notin Outcome => late[a] > 0]_vars
  <1> SUFFICES ASSUME TypeOK, LeaseInv, Next, NEW a \in Attempts,
                      row[a].status \in Outcome, row'[a].status \notin Outcome
               PROVE  late[a] > 0
    BY DEF vars
  <1>0. row[a] \in Row /\ late[a] \in Nat
    BY DEF TypeOK
  <1>1. ASSUME NEW b \in Attempts, Create(b) PROVE late[a] > 0
    <2>1. row[b].status = "absent" /\ row' = [row EXCEPT ![b].status = "queued"]
      BY <1>1 DEF Create
    <2>2. a # b
      BY <2>1 DEF Outcome
    <2> QED
      BY <2>1, <2>2 DEF TypeOK
  <1>2. ASSUME NEW b \in Attempts, LeaseExpires(b) \/ RetryDue(b) PROVE late[a] > 0
    <2>1. PICK w : row' = [row EXCEPT ![b] = w] /\ (row[b] \in Row => w.status = row[b].status)
      <3>1. /\ row[b] \in Row => [row[b] EXCEPT !.expired = TRUE].status = row[b].status
            /\ row[b] \in Row => [row[b] EXCEPT !.due = TRUE].status = row[b].status
        BY DEF Row
      <3>2. \/ row' = [row EXCEPT ![b] = [row[b] EXCEPT !.expired = TRUE]]
            \/ row' = [row EXCEPT ![b] = [row[b] EXCEPT !.due = TRUE]]
        BY <1>2 DEF LeaseExpires, RetryDue
      <3> QED
        BY <3>1, <3>2
    <2>2. row'[a].status = row[a].status
      BY <1>0, <2>1 DEF TypeOK
    <2> QED
      BY <2>2
  <1>3. ASSUME NEW d \in Dispatchers, ClaimUpdate(d) PROVE late[a] > 0
    <2> DEFINE picked == FirstOf({b \in Attempts : Claimable(b)}, ClaimLimit)
    <2>1. row' = [b \in Attempts |->
                    IF b \in picked
                    THEN [row[b] EXCEPT !.status = "dispatching", !.lease = d, !.expired = FALSE]
                    ELSE row[b]]
      BY <1>3 DEF ClaimUpdate
    <2>2. a \notin picked
      BY DEF FirstOf, Claimable, Outcome
    <2> QED
      BY <2>1, <2>2
  <1>4. ASSUME NEW d \in Dispatchers, MarkAttempt(d) \/ FailAttempt(d) PROVE late[a] > 0
    <2> DEFINE b == disp[d].cur
               sent == [row[b] EXCEPT !.status = "sent", !.sid = disp[d].sid, !.lease = None,
                                      !.expired = FALSE, !.delivered = disp[d].delivered]
               failed == [row[b] EXCEPT !.status = "failed", !.sid = None, !.lease = None,
                                        !.expired = FALSE, !.delivered = FALSE]
    <2>1. row[b] \in Row => sent.status = "sent" /\ failed.status = "failed"
      BY DEF Row
    <2>2. row' = [row EXCEPT ![b] = sent] \/ row' = [row EXCEPT ![b] = failed]
      BY <1>4 DEF MarkAttempt, FailAttempt, UpdateStatus
    <2> HIDE DEF sent, failed
    <2>3. row'[a].status = row[a].status \/ row'[a].status \in {"sent", "failed"}
      BY <1>0, <2>1, <2>2 DEF TypeOK
    <2> QED
      BY <2>3 DEF Outcome
  <1>5. ASSUME NEW d \in Dispatchers, RequeueAttempt(d) PROVE late[a] > 0
    <2>1. PICK w : row' = [row EXCEPT ![disp[d].cur] = w]
      BY <1>5 DEF RequeueAttempt, Requeue
    <2>2. a = disp[d].cur
      BY <2>1 DEF TypeOK
    <2>3. a \in InHand(d)
      BY <1>5, <2>2 DEF InHand, RequeueAttempt
    <2>4. row[a].status # "dispatching"
      BY DEF Outcome
    <2> QED
      BY <1>0, <2>3, <2>4 DEF LeaseInv, WorkedUnderLease
  <1>6. ASSUME NEW c \in Sids, HookAttempt(c) PROVE late[a] > 0
    <2>1. PICK b \in Attempts : UpdateVoiceCallback(b, ReportOf(c))
      BY <1>6 DEF HookAttempt
    <2>2. ReportOf(c) \in Outcome
      BY DEF ReportOf, Outcome
    <2> DEFINE report == ReportOf(c)
               done == report = "sent"
    <2>3. row' = [row EXCEPT ![b] = [row[b] EXCEPT !.status = report, !.delivered = done,
                                                   !.report = report]]
      BY <2>1 DEF UpdateVoiceCallback
    <2> HIDE DEF report, done
    <2> DEFINE w == [row[b] EXCEPT !.status = report, !.delivered = done, !.report = report]
    <2>4. row[b] \in Row => w.status = report
      BY DEF Row
    <2>5. row' = [row EXCEPT ![b] = w]
      BY <2>3
    <2> HIDE DEF w
    <2>6. row'[a].status = row[a].status \/ row'[a].status = report
      BY <1>0, <2>4, <2>5 DEF TypeOK
    <2> QED
      BY <2>2, <2>6 DEF report
  <1>7. CASE UNCHANGED row
    BY <1>7
  <1>8. ASSUME NEW d \in Dispatchers, Working(d) \/ Failing(d) PROVE late[a] > 0
    BY <1>3, <1>4, <1>5, <1>7, <1>8
       DEF Working, Failing, ClaimSelect, ClaimSelectFails, StartCall, ReuseCall, LookupFails,
           SendOk, SendRetryable, SendRefused, MarkUser, MarkNotif, RequeueNotif, FailUser,
           FailNotif, StatementFails, Restart, rows
  <1>9. ASSUME NEW c \in Sids, CallEnds(c) \/ Handling(c) \/ HookFails(c) \/ HookRepeats(c)
        PROVE  late[a] > 0
    BY <1>6, <1>7, <1>9
       DEF CallEnds, Handling, HookLookup, HookUser, HookNotif, HookFails, HookRepeats, rows
  <1> QED
    BY <1>1, <1>2, <1>8, <1>9 DEF Next

(* A finished row is requeued only by a dispatcher that outlived its lease. *)
THEOREM FinishedStaysFinished == Spec => ReopenedOnlyLate
  BY ReopenedOnlyLateStep, LeaseInvariant, TypeCorrect, PTL DEF Spec, ReopenedOnlyLate
=============================================================================
