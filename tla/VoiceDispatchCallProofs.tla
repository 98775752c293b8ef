---------------------- MODULE VoiceDispatchCallProofs ----------------------
(***************************************************************************)
(* What the dispatchers' calls come to: how many there are of a row        *)
(* (CallAccounting), that rows, caches and callbacks name the calls they   *)
(* belong to (RowNamesItsCall, DeliveredMeansAnswered), that the tables    *)
(* agree in the end (SettledRowsAgree), how many calls collapsing leaves   *)
(* (CollapsedCallsBounded), and how a claim is shared (FairShare).         *)
(***************************************************************************)
EXTENDS VoiceDispatchLeaseProofs, FiniteSetTheorems, WellFoundedInduction

-----------------------------------------------------------------------------
(* CallAccounting.  A call is placed by a dispatcher that holds the right  *)
(* to place it, and a right goes from hand to hand: a row that a claim     *)
(* would find has one, and a dispatcher that has the row before it, or is  *)
(* about to requeue it.  Only a lease that runs out and an answer that     *)
(* asks for a retry of a call that was placed make rights from nothing,    *)
(* and both are counted.                                                   *)

Open(a) ==
  \/ row[a].status \in {"absent", "queued"}
  \/ row[a].status = "dispatching" /\ (row[a].lease = None \/ row[a].expired)

Holds(d, a) ==
  \/ a \in disp[d].todo
  \/ disp[d].pc \in {"send", "requeueAttempt"} /\ disp[d].cur = a

Holders(a) == {d \in Dispatchers : Holds(d, a)}

Balanced(a) ==
  /\ IsFiniteSet(CallsFor(a)) /\ IsFiniteSet(Holders(a))
  /\ Cardinality(CallsFor(a)) + Cardinality(Holders(a)) + (IF Open(a) THEN 1 ELSE 0)
       <= 1 + late[a] + ambiguous[a]

CallInv == \A a \in Attempts : Balanced(a)

-----------------------------------------------------------------------------
(* Names.  What a dispatcher, its cache, a row or a callback has of a call *)
(* is of a call placed for the row's message.                              *)

Placed(c) == call[c].attempt \in Attempts
PlacedFor(c, m) == c \in Sids /\ Placed(c) /\ messageOf[call[c].attempt] = m
Names(c, a) == PlacedFor(c, messageOf[a]) /\ (~Collapse => call[c].attempt = a)
Answered(m) == \E c \in Sids : call[c].state = "completed" /\ PlacedFor(c, m)

MarkPcs == {"markAttempt", "markUser", "markNotif"}

CallsPlaced ==
  \A c \in Sids : IF call[c].state = "none" THEN ~Placed(c) ELSE Placed(c)

DispatchersName ==
  \A d \in Dispatchers :
    /\ disp[d].pc \in MarkPcs =>
         /\ disp[d].cur \in Attempts
         /\ Names(disp[d].sid, disp[d].cur)
         /\ disp[d].delivered => Answered(messageOf[disp[d].cur])
    /\ disp[d].pc = "send" => ~disp[d].delivered

CachesName ==
  \A d \in Dispatchers, m \in Messages :
    /\ cache[d][m].sid # None => Collapse /\ PlacedFor(cache[d][m].sid, m)
    /\ cache[d][m].delivered => Answered(m)

HooksName ==
  \A c \in Sids :
    /\ hook[c].pc # "none" => call[c].state \in {"completed", "failed"}
    /\ \A a \in hook[c].todo : PlacedFor(c, messageOf[a])

RowsName == \A a \in Attempts : row[a].sid # None => Names(row[a].sid, a)

RowsAnswered ==
  \A a \in Attempts : row[a].delivered \/ notif[a].delivered => Answered(messageOf[a])

NameInv ==
  /\ CallsPlaced
  /\ DispatchersName
  /\ CachesName
  /\ HooksName
  /\ RowsName
  /\ RowsAnswered

-----------------------------------------------------------------------------
(* Counting. *)

LEMMA CountKept ==
  ASSUME NEW S, NEW T, IsFiniteSet(S), T \subseteq S
  PROVE  /\ IsFiniteSet(T) /\ Cardinality(T) <= Cardinality(S)
         /\ Cardinality(S) \in Nat /\ Cardinality(T) \in Nat
  BY FS_Subset, FS_CardinalityType

LEMMA CountAdded ==
  ASSUME NEW S, NEW T, NEW x, IsFiniteSet(S), T \subseteq S \cup {x}
  PROVE  /\ IsFiniteSet(T) /\ Cardinality(T) <= Cardinality(S) + 1
         /\ Cardinality(S) \in Nat /\ Cardinality(T) \in Nat
  <1>1. /\ IsFiniteSet(S \cup {x}) /\ Cardinality(S \cup {x}) <= Cardinality(S) + 1
        /\ Cardinality(S) \in Nat
    BY FS_AddElement, FS_CardinalityType
  <1>2. /\ IsFiniteSet(T) /\ Cardinality(T) <= Cardinality(S \cup {x})
        /\ Cardinality(T) \in Nat /\ Cardinality(S \cup {x}) \in Nat
    BY <1>1, CountKept
  <1> QED
    BY <1>1, <1>2

LEMMA CountRemoved ==
  ASSUME NEW S, NEW T, NEW x, IsFiniteSet(S), x \in S, T \subseteq S \ {x}
  PROVE  /\ IsFiniteSet(T) /\ Cardinality(T) + 1 <= Cardinality(S)
         /\ Cardinality(S) \in Nat /\ Cardinality(T) \in Nat
  <1>1. /\ IsFiniteSet(S \ {x}) /\ Cardinality(S \ {x}) = Cardinality(S) - 1
        /\ Cardinality(S) \in Nat
    BY FS_RemoveElement, FS_CardinalityType
  <1>2. /\ IsFiniteSet(T) /\ Cardinality(T) <= Cardinality(S \ {x})
        /\ Cardinality(T) \in Nat /\ Cardinality(S \ {x}) \in Nat
    BY <1>1, CountKept
  <1> QED
    BY <1>1, <1>2

-----------------------------------------------------------------------------
(* The ways a step may leave the balance of a row. *)

(* Nobody gains: rights and calls stay or go. *)
LEMMA BalanceKept ==
  ASSUME TypeOK, NEW a \in Attempts, Balanced(a),
         CallsFor(a)' \subseteq CallsFor(a), Holders(a)' \subseteq Holders(a),
         Open(a)' => Open(a), late'[a] = late[a], ambiguous'[a] = ambiguous[a]
  PROVE  Balanced(a)'
  <1>1. late[a] \in Nat /\ ambiguous[a] \in Nat
    BY DEF TypeOK
  <1>2. IsFiniteSet(CallsFor(a)) /\ IsFiniteSet(Holders(a))
    BY DEF Balanced
  <1>3. /\ IsFiniteSet(CallsFor(a)') /\ Cardinality(CallsFor(a)') <= Cardinality(CallsFor(a))
        /\ Cardinality(CallsFor(a)) \in Nat /\ Cardinality(CallsFor(a)') \in Nat
    BY <1>2, CountKept
  <1>4. /\ IsFiniteSet(Holders(a)') /\ Cardinality(Holders(a)') <= Cardinality(Holders(a))
        /\ Cardinality(Holders(a)) \in Nat /\ Cardinality(Holders(a)') \in Nat
    BY <1>2, CountKept
  <1> QED
    BY <1>1, <1>3, <1>4 DEF Balanced

(* The row's right goes to a dispatcher. *)
LEMMA BalanceClaimed ==
  ASSUME TypeOK, NEW a \in Attempts, Balanced(a), NEW d,
         CallsFor(a)' \subseteq CallsFor(a), Holders(a)' \subseteq Holders(a) \cup {d},
         Open(a), ~Open(a)', late'[a] = late[a], ambiguous'[a] = ambiguous[a]
  PROVE  Balanced(a)'
  <1>1. late[a] \in Nat /\ ambiguous[a] \in Nat
    BY DEF TypeOK
  <1>2. IsFiniteSet(CallsFor(a)) /\ IsFiniteSet(Holders(a))
    BY DEF Balanced
  <1>3. /\ IsFiniteSet(CallsFor(a)') /\ Cardinality(CallsFor(a)') <= Cardinality(CallsFor(a))
        /\ Cardinality(CallsFor(a)) \in Nat /\ Cardinality(CallsFor(a)') \in Nat
    BY <1>2, CountKept
  <1>4. /\ IsFiniteSet(Holders(a)') /\ Cardinality(Holders(a)') <= Cardinality(Holders(a)) + 1
        /\ Cardinality(Holders(a)) \in Nat /\ Cardinality(Holders(a)') \in Nat
    BY <1>2, CountAdded
  <1> QED
    BY <1>1, <1>3, <1>4 DEF Balanced

(* A dispatcher uses its right for a call. *)
LEMMA BalancePlaced ==
  ASSUME TypeOK, NEW a \in Attempts, Balanced(a), NEW d \in Holders(a), NEW c,
         CallsFor(a)' \subseteq CallsFor(a) \cup {c}, Holders(a)' \subseteq Holders(a) \ {d},
         Open(a)' => Open(a), late'[a] = late[a], ambiguous'[a] = ambiguous[a]
  PROVE  Balanced(a)'
  <1>1. late[a] \in Nat /\ ambiguous[a] \in Nat
    BY DEF TypeOK
  <1>2. IsFiniteSet(CallsFor(a)) /\ IsFiniteSet(Holders(a))
    BY DEF Balanced
  <1>3. /\ IsFiniteSet(CallsFor(a)') /\ Cardinality(CallsFor(a)') <= Cardinality(CallsFor(a)) + 1
        /\ Cardinality(CallsFor(a)) \in Nat /\ Cardinality(CallsFor(a)') \in Nat
    BY <1>2, CountAdded
  <1>4. /\ IsFiniteSet(Holders(a)') /\ Cardinality(Holders(a)') + 1 <= Cardinality(Holders(a))
        /\ Cardinality(Holders(a)) \in Nat /\ Cardinality(Holders(a)') \in Nat
    BY <1>2, CountRemoved
  <1> QED
    BY <1>1, <1>3, <1>4 DEF Balanced

(* It keeps the right beside the call, which is counted as ambiguous. *)
LEMMA BalanceAmbiguous ==
  ASSUME TypeOK, NEW a \in Attempts, Balanced(a), NEW c,
         CallsFor(a)' \subseteq CallsFor(a) \cup {c}, Holders(a)' \subseteq Holders(a),
         Open(a)' => Open(a), late'[a] = late[a], ambiguous'[a] = ambiguous[a] + 1
  PROVE  Balanced(a)'
  <1>1. late[a] \in Nat /\ ambiguous[a] \in Nat
    BY DEF TypeOK
  <1>2. IsFiniteSet(CallsFor(a)) /\ IsFiniteSet(Holders(a))
    BY DEF Balanced
  <1>3. /\ IsFiniteSet(CallsFor(a)') /\ Cardinality(CallsFor(a)') <= Cardinality(CallsFor(a)) + 1
        /\ Cardinality(CallsFor(a)) \in Nat /\ Cardinality(CallsFor(a)') \in Nat
    BY <1>2, CountAdded
  <1>4. /\ IsFiniteSet(Holders(a)') /\ Cardinality(Holders(a)') <= Cardinality(Holders(a))
        /\ Cardinality(Holders(a)) \in Nat /\ Cardinality(Holders(a)') \in Nat
    BY <1>2, CountKept
  <1> QED
    BY <1>1, <1>3, <1>4 DEF Balanced

(* It gives the right back to the row. *)
LEMMA BalanceRequeued ==
  ASSUME TypeOK, NEW a \in Attempts, Balanced(a), NEW d \in Holders(a),
         CallsFor(a)' \subseteq CallsFor(a), Holders(a)' \subseteq Holders(a) \ {d},
         late'[a] = late[a], ambiguous'[a] = ambiguous[a]
  PROVE  Balanced(a)'
  <1>1. late[a] \in Nat /\ ambiguous[a] \in Nat
    BY DEF TypeOK
  <1>2. IsFiniteSet(CallsFor(a)) /\ IsFiniteSet(Holders(a))
    BY DEF Balanced
  <1>3. /\ IsFiniteSet(CallsFor(a)') /\ Cardinality(CallsFor(a)') <= Cardinality(CallsFor(a))
        /\ Cardinality(CallsFor(a)) \in Nat /\ Cardinality(CallsFor(a)') \in Nat
    BY <1>2, CountKept
  <1>4. /\ IsFiniteSet(Holders(a)') /\ Cardinality(Holders(a)') + 1 <= Cardinality(Holders(a))
        /\ Cardinality(Holders(a)) \in Nat /\ Cardinality(Holders(a)') \in Nat
    BY <1>2, CountRemoved
  <1> QED
    BY <1>1, <1>3, <1>4 DEF Balanced

(* The lease runs out: the row has a right again, and that is counted. *)
LEMMA BalanceExpired ==
  ASSUME TypeOK, NEW a \in Attempts, Balanced(a),
         CallsFor(a)' \subseteq CallsFor(a), Holders(a)' \subseteq Holders(a),
         late'[a] = late[a] + 1, ambiguous'[a] = ambiguous[a]
  PROVE  Balanced(a)'
  <1>1. late[a] \in Nat /\ ambiguous[a] \in Nat
    BY DEF TypeOK
  <1>2. IsFiniteSet(CallsFor(a)) /\ IsFiniteSet(Holders(a))
    BY DEF Balanced
  <1>3. /\ IsFiniteSet(CallsFor(a)') /\ Cardinality(CallsFor(a)') <= Cardinality(CallsFor(a))
        /\ Cardinality(CallsFor(a)) \in Nat /\ Cardinality(CallsFor(a)') \in Nat
    BY <1>2, CountKept
  <1>4. /\ IsFiniteSet(Holders(a)') /\ Cardinality(Holders(a)') <= Cardinality(Holders(a))
        /\ Cardinality(Holders(a)) \in Nat /\ Cardinality(Holders(a)') \in Nat
    BY <1>2, CountKept
  <1> QED
    BY <1>1, <1>3, <1>4 DEF Balanced

-----------------------------------------------------------------------------
(* Who holds a row after a dispatcher moved, and which calls there are.    *)

LEMMA HoldersAfter ==
  ASSUME TypeOK, NEW d \in Dispatchers, NEW next, disp' = [disp EXCEPT ![d] = next], NEW a
  PROVE  /\ Holders(a)' \subseteq Holders(a) \cup {d}
         /\ (a \in next.todo \/ (next.pc \in {"send", "requeueAttempt"} /\ next.cur = a)
               => Holds(d, a))
              => Holders(a)' \subseteq Holders(a)
         /\ ~(a \in next.todo \/ (next.pc \in {"send", "requeueAttempt"} /\ next.cur = a))
              => Holders(a)' \subseteq Holders(a) \ {d}
  <1>1. disp'[d] = next /\ \A e \in Dispatchers \ {d} : disp'[e] = disp[e]
    BY DEF TypeOK
  <1>2. \A e \in Dispatchers \ {d} : Holds(e, a)' <=> Holds(e, a)
    BY <1>1 DEF Holds
  <1>3. Holds(d, a)' <=> (a \in next.todo \/ (next.pc \in {"send", "requeueAttempt"} /\ next.cur = a))
    BY <1>1 DEF Holds
  <1> QED
    BY <1>2, <1>3 DEF Holders

(* After the move the dispatcher has no right to the row. *)
LEMMA HolderLeaves ==
  ASSUME TypeOK, NEW d \in Dispatchers, NEW next, disp' = [disp EXCEPT ![d] = next], NEW a,
         a \notin next.todo, next.pc \notin {"send", "requeueAttempt"} \/ next.cur # a
  PROVE  Holders(a)' \subseteq Holders(a) \ {d}
  BY HoldersAfter

LEMMA CallsAfter ==
  ASSUME TypeOK, NEW c \in Sids, NEW a, Place(c, a), NEW b
  PROVE  /\ CallsFor(b)' \subseteq CallsFor(b) \cup {c}
         /\ b # a => CallsFor(b)' \subseteq CallsFor(b)
  <1>1. call' = [call EXCEPT ![c] = [attempt |-> a, state |-> "live"]]
    BY DEF Place
  <1>2. call'[c].attempt = a /\ \A s \in Sids \ {c} : call'[s] = call[s]
    BY <1>1 DEF TypeOK
  <1> QED
    BY <1>2 DEF CallsFor

(* Rows closed by a finished status stay closed; the others are untouched. *)
LEMMA OpenAfter ==
  ASSUME TypeOK, NEW b \in Attempts, NEW w, row' = [row EXCEPT ![b] = w],
         w.status \in Outcome \/ (Open(b) /\ (w.status = row[b].status \/ w.status = "queued"))
           \/ (w.status = row[b].status /\ w.lease = row[b].lease /\ w.expired = row[b].expired),
         NEW a \in Attempts
  PROVE  Open(a)' => Open(a)
  <1>1. row'[b] = w /\ \A x \in Attempts \ {b} : row'[x] = row[x]
    BY DEF TypeOK
  <1>2. CASE a # b
    BY <1>1, <1>2 DEF Open
  <1>3. CASE a = b
    BY <1>1, <1>3 DEF Open, Outcome
  <1> QED
    BY <1>2, <1>3

-----------------------------------------------------------------------------
(* Init, and one lemma per group of actions. *)

LEMMA InitCallInv == Init => CallInv
  <1> SUFFICES ASSUME Init, NEW a \in Attempts PROVE Balanced(a)
    BY DEF CallInv
  <1>1. CallsFor(a) = {} /\ Holders(a) = {}
    BY ConstantsAssumption DEF Init, CallsFor, Holders, Holds, Idle
  <1>2. late[a] = 0 /\ ambiguous[a] = 0
    BY DEF Init
  <1> QED
    BY <1>1, <1>2, FS_EmptySet DEF Balanced

LEMMA AllKept ==
  ASSUME TypeOK, CallInv, UNCHANGED <<late, ambiguous>>,
         \A a \in Attempts : /\ CallsFor(a)' \subseteq CallsFor(a)
                             /\ Holders(a)' \subseteq Holders(a)
                             /\ Open(a)' => Open(a)
  PROVE  CallInv'
  BY BalanceKept DEF CallInv

LEMMA SameHolders == ASSUME UNCHANGED disp PROVE \A a : Holders(a)' = Holders(a)
  BY DEF Holders, Holds

LEMMA SameCalls == ASSUME UNCHANGED call PROVE \A a : CallsFor(a)' = CallsFor(a)
  BY DEF CallsFor

LEMMA SameOpen == ASSUME UNCHANGED row PROVE \A a : Open(a)' <=> Open(a)
  BY DEF Open

LEMMA EnvironmentCallInv ==
  ASSUME TypeOK, CallInv, NEW a \in Attempts, Create(a) \/ LeaseExpires(a) \/ RetryDue(a)
  PROVE  CallInv'
  <1>0. UNCHANGED <<disp, call, ambiguous>>
    BY DEF Create, LeaseExpires, RetryDue, history
  <1>1. \A b \in Attempts : CallsFor(b)' = CallsFor(b) /\ Holders(b)' = Holders(b)
    BY <1>0, SameHolders, SameCalls
  <1>2. CASE Create(a)
    <2> DEFINE w == [row[a] EXCEPT !.status = "queued"]
    <2>1. /\ row' = [row EXCEPT ![a] = w] /\ UNCHANGED late
          /\ w.status = "queued" /\ Open(a)
      BY <1>2 DEF Create, history, TypeOK, Row, Open
    <2> HIDE DEF w
    <2>2. \A b \in Attempts : Open(b)' => Open(b)
      BY <2>1, OpenAfter
    <2> QED
      BY <1>0, <1>1, <2>1, <2>2, AllKept
  <1>3. CASE RetryDue(a)
    <2> DEFINE w == [row[a] EXCEPT !.due = TRUE]
    <2>1. /\ row' = [row EXCEPT ![a] = w] /\ UNCHANGED late
          /\ w.status = row[a].status /\ w.lease = row[a].lease /\ w.expired = row[a].expired
      BY <1>3 DEF RetryDue, history, TypeOK, Row
    <2> HIDE DEF w
    <2>2. \A b \in Attempts : Open(b)' => Open(b)
      BY <2>1, OpenAfter
    <2> QED
      BY <1>0, <1>1, <2>1, <2>2, AllKept
  <1>4. CASE LeaseExpires(a)
    <2>1. /\ row' = [row EXCEPT ![a] = [row[a] EXCEPT !.expired = TRUE]]
          /\ late' = [late EXCEPT ![a] = late[a] + 1]
      BY <1>4 DEF LeaseExpires
    <2>2. /\ late'[a] = late[a] + 1
          /\ \A b \in Attempts \ {a} : row'[b] = row[b] /\ late'[b] = late[b]
      BY <2>1 DEF TypeOK
    <2>3. Balanced(a)'
      BY <1>0, <1>1, <2>2, BalanceExpired DEF CallInv
    <2>4. ASSUME NEW b \in Attempts, b # a PROVE Balanced(b)'
      <3>1. Open(b)' <=> Open(b)
        BY <2>2, <2>4 DEF Open
      <3> QED
        BY <1>0, <1>1, <2>2, <2>4, <3>1, BalanceKept DEF CallInv
    <2> QED
      BY <2>3, <2>4 DEF CallInv
  <1> QED
    BY <1>2, <1>3, <1>4

(* The claim takes the right of every row it picks. *)
LEMMA ClaimUpdateCallInv ==
  ASSUME TypeOK, CallInv, NEW d \in Dispatchers, ClaimUpdate(d)
  PROVE  CallInv'
  <1> DEFINE picked == FirstOf({a \in Attempts : Claimable(a)}, ClaimLimit)
             next == [Idle EXCEPT !.pc = "select", !.todo = picked]
  <1>1. /\ disp' = [disp EXCEPT ![d] = next]
        /\ row' = [a \in Attempts |->
                     IF a \in picked
                     THEN [row[a] EXCEPT !.status = "dispatching", !.lease = d, !.expired = FALSE]
                     ELSE row[a]]
        /\ UNCHANGED <<call, late, ambiguous>>
    BY DEF ClaimUpdate, history
  <1>2. \A a \in picked : Claimable(a)
    BY DEF FirstOf
  <1> HIDE DEF picked
  <1>3. next.pc = "select" /\ next.todo = picked
    BY DEF Idle
  <1> HIDE DEF next
  <1>4. ASSUME NEW a \in Attempts, a \in picked PROVE Balanced(a)'
    <2>1. Open(a)
      BY <1>2, <1>4 DEF Claimable, Open
    <2>2. row'[a].status = "dispatching" /\ row'[a].lease = d /\ row'[a].expired = FALSE
      BY <1>1, <1>4 DEF TypeOK, Row
    <2>3. ~Open(a)'
      BY <2>2, ConstantsAssumption DEF Open
    <2>4. Holders(a)' \subseteq Holders(a) \cup {d} /\ CallsFor(a)' = CallsFor(a)
      BY <1>1, HoldersAfter, SameCalls
    <2> QED
      BY <1>1, <2>1, <2>3, <2>4, BalanceClaimed DEF CallInv
  <1>5. ASSUME NEW a \in Attempts, a \notin picked PROVE Balanced(a)'
    <2>1. Open(a)' <=> Open(a)
      BY <1>1, <1>5 DEF Open
    <2>2. Holders(a)' \subseteq Holders(a) /\ CallsFor(a)' = CallsFor(a)
      <3>1. Holders(a)' \subseteq Holders(a) \ {d}
        BY <1>1, <1>3, <1>5, HoldersAfter
      <3> QED
        BY <1>1, <3>1, SameCalls
    <2> QED
      BY <1>1, <2>1, <2>2, BalanceKept DEF CallInv
  <1> QED
    BY <1>4, <1>5 DEF CallInv

(* A dispatcher that moves on with no more rows than it had. *)
LEMMA MoveKept ==
  ASSUME TypeOK, CallInv, NEW d \in Dispatchers, NEW next, disp' = [disp EXCEPT ![d] = next],
         next.todo \subseteq disp[d].todo,
         next.pc \in {"send", "requeueAttempt"} => Holds(d, next.cur),
         UNCHANGED <<call, late, ambiguous>>,
         \A a \in Attempts : Open(a)' => Open(a)
  PROVE  CallInv'
  <1>0. \A a : a \in next.todo \/ (next.pc \in {"send", "requeueAttempt"} /\ next.cur = a)
                 => Holds(d, a)
    BY DEF Holds
  <1>1. \A a \in Attempts : Holders(a)' \subseteq Holders(a)
    BY <1>0, HoldersAfter
  <1> QED
    BY <1>1, AllKept, SameCalls

LEMMA LoopCallInv ==
  ASSUME TypeOK, CallInv, NEW d \in Dispatchers,
         \/ ClaimSelect(d) \/ ClaimSelectFails(d) \/ StartCall(d) \/ ReuseCall(d)
         \/ LookupFails(d) \/ Restart(d)
  PROVE  CallInv'
  <1> DEFINE held == {a \in disp[d].todo : LeaseHeldBy(d, a)}
  <1>0. UNCHANGED <<row, call, late, ambiguous>>
    BY DEF ClaimSelect, ClaimSelectFails, StartCall, ReuseCall, LookupFails, Restart, rows, history
  <1>1. PICK next : /\ disp' = [disp EXCEPT ![d] = next]
                    /\ next.todo \subseteq disp[d].todo
                    /\ next.pc \in {"send", "requeueAttempt"} => next.cur \in disp[d].todo
    <2>1. CASE ClaimSelect(d)
      <3> DEFINE w == IF held = {} THEN Idle
                      ELSE [Idle EXCEPT !.pc = "loop", !.batch = held, !.todo = held]
      <3>1. disp' = [disp EXCEPT ![d] = w]
        BY <2>1 DEF ClaimSelect
      <3>2. w.todo \subseteq disp[d].todo /\ w.pc \notin {"send", "requeueAttempt"}
        BY DEF Idle
      <3> QED
        BY <3>1, <3>2
    <2>2. CASE ClaimSelectFails(d) \/ Restart(d)
      <3>1. disp' = [disp EXCEPT ![d] = Idle]
        BY <2>2 DEF ClaimSelectFails, Restart
      <3>2. Idle.todo = {} /\ Idle.pc = "idle"
        BY DEF Idle
      <3> QED
        BY <3>1, <3>2
    <2>3. CASE StartCall(d) \/ ReuseCall(d)
      <3>0. PICK a \in disp[d].todo : \E pc, known : TakeUp(d, a, pc, known)
        BY <2>3 DEF StartCall, ReuseCall, IsNext
      <3>1. PICK pc, known : TakeUp(d, a, pc, known)
        BY <3>0
      <3> DEFINE w == [pc |-> pc, batch |-> disp[d].batch, todo |-> disp[d].todo \ {a},
                       cur |-> a, sid |-> known.sid, delivered |-> known.delivered]
      <3>2. disp' = [disp EXCEPT ![d] = w]
        BY <3>1 DEF TakeUp
      <3>3. w.todo \subseteq disp[d].todo /\ w.cur \in disp[d].todo
        OBVIOUS
      <3> QED
        BY <3>2, <3>3
    <2>4. CASE LookupFails(d)
      <3>1. PICK a \in Attempts :
              disp' = [disp EXCEPT ![d] = IF disp[d].todo \ {a} = {} THEN Idle
                                          ELSE [disp[d] EXCEPT !.todo = disp[d].todo \ {a}]]
        BY <2>4 DEF LookupFails
      <3> DEFINE w == IF disp[d].todo \ {a} = {} THEN Idle
                      ELSE [disp[d] EXCEPT !.todo = disp[d].todo \ {a}]
      <3>2. w.todo \subseteq disp[d].todo /\ w.pc \notin {"send", "requeueAttempt"}
        BY <2>4 DEF Idle, LookupFails, TypeOK, Dispatcher
      <3> QED
        BY <3>1, <3>2
    <2> QED
      BY <2>1, <2>2, <2>3, <2>4
  <1> QED
    BY <1>0, <1>1, MoveKept, SameOpen DEF Holds

-----------------------------------------------------------------------------
(* SendVoice: the dispatcher that places the call is done with its right,  *)
(* unless Twilio's answer tells it to try again.                           *)

LEMMA SendOkCallInv ==
  ASSUME TypeOK, TakenOut, CallInv, NEW d \in Dispatchers, SendOk(d)
  PROVE  CallInv'
  <1>0. PICK a \in Attempts : a = disp[d].cur /\ a \notin disp[d].todo /\ d \in Holders(a)
    BY DEF SendOk, TakenOut, WritePcs, Holders, Holds
  <1>1. PICK c \in Sids : Place(c, a) /\ disp' = [disp EXCEPT ![d] =
                             [disp[d] EXCEPT !.pc = "markAttempt", !.sid = c]]
    BY <1>0 DEF SendOk
  <1> DEFINE w == [disp[d] EXCEPT !.pc = "markAttempt", !.sid = c]
  <1>2. w.todo = disp[d].todo /\ w.pc = "markAttempt"
    BY DEF TypeOK, Dispatcher
  <1>3. disp' = [disp EXCEPT ![d] = w] /\ UNCHANGED <<row, late, ambiguous>>
    BY <1>1 DEF SendOk, rows, history
  <1> HIDE DEF w
  <1>4. Balanced(a)'
    <2>0. a \notin w.todo /\ w.pc \notin {"send", "requeueAttempt"}
      BY <1>0, <1>2
    <2>1. Holders(a)' \subseteq Holders(a) \ {d}
      BY <1>0, <1>2, <1>3, <2>0, HolderLeaves
    <2>2. CallsFor(a)' \subseteq CallsFor(a) \cup {c}
      BY <1>1, CallsAfter
    <2> QED
      BY <1>0, <1>3, <2>1, <2>2, BalancePlaced, SameOpen DEF CallInv
  <1>5. ASSUME NEW b \in Attempts, b # a PROVE Balanced(b)'
    <2>1. b \in w.todo \/ (w.pc \in {"send", "requeueAttempt"} /\ w.cur = b) => Holds(d, b)
      BY <1>2 DEF Holds
    <2>2. Holders(b)' \subseteq Holders(b)
      BY <1>3, <2>1, HoldersAfter
    <2>3. CallsFor(b)' \subseteq CallsFor(b)
      BY <1>1, <1>5, CallsAfter
    <2> QED
      BY <1>3, <2>2, <2>3, BalanceKept, SameOpen DEF CallInv
  <1> QED
    BY <1>4, <1>5 DEF CallInv

LEMMA SendRefusedCallInv ==
  ASSUME TypeOK, TakenOut, CallInv, NEW d \in Dispatchers, SendRefused(d)
  PROVE  CallInv'
  <1> DEFINE w == [disp[d] EXCEPT !.pc = "failAttempt"]
  <1>0. PICK a \in Attempts : a = disp[d].cur /\ a \notin disp[d].todo /\ d \in Holders(a)
    BY DEF SendRefused, TakenOut, WritePcs, Holders, Holds
  <1>1. UNCHANGED call \/ \E c \in Sids : Place(c, a)
    BY <1>0 DEF SendRefused
  <1>2. w.todo = disp[d].todo /\ w.pc = "failAttempt"
    BY DEF TypeOK, Dispatcher
  <1>3. disp' = [disp EXCEPT ![d] = w] /\ UNCHANGED <<row, late, ambiguous>>
    BY DEF SendRefused, Goto, rows, history
  <1> HIDE DEF w
  <1>4. CASE UNCHANGED call
    BY <1>2, <1>3, <1>4, MoveKept, SameOpen
  <1>5. ASSUME NEW c \in Sids, Place(c, a) PROVE CallInv'
    <2>1. Balanced(a)'
      <3>0. a \notin w.todo /\ w.pc \notin {"send", "requeueAttempt"}
        BY <1>0, <1>2
      <3>1. Holders(a)' \subseteq Holders(a) \ {d}
        BY <1>0, <1>2, <1>3, <3>0, HolderLeaves
      <3>2. CallsFor(a)' \subseteq CallsFor(a) \cup {c}
        BY <1>5, CallsAfter
      <3> QED
        BY <1>0, <1>3, <3>1, <3>2, BalancePlaced, SameOpen DEF CallInv
    <2>2. ASSUME NEW b \in Attempts, b # a PROVE Balanced(b)'
      <3>1. b \in w.todo \/ (w.pc \in {"send", "requeueAttempt"} /\ w.cur = b) => Holds(d, b)
        BY <1>2 DEF Holds
      <3>2. Holders(b)' \subseteq Holders(b)
        BY <1>3, <3>1, HoldersAfter
      <3>3. CallsFor(b)' \subseteq CallsFor(b)
        BY <1>5, <2>2, CallsAfter
      <3> QED
        BY <1>3, <3>2, <3>3, BalanceKept, SameOpen DEF CallInv
    <2> QED
      BY <2>1, <2>2 DEF CallInv
  <1> QED
    BY <1>1, <1>4, <1>5

LEMMA SendRetryableCallInv ==
  ASSUME TypeOK, TakenOut, CallInv, NEW d \in Dispatchers, SendRetryable(d)
  PROVE  CallInv'
  <1> DEFINE w == [disp[d] EXCEPT !.pc = "requeueAttempt"]
  <1>0. PICK a \in Attempts : a = disp[d].cur /\ Holds(d, a)
    BY DEF SendRetryable, TakenOut, WritePcs, Holds
  <1>1. \/ UNCHANGED <<call, ambiguous>>
        \/ /\ \E c \in Sids : Place(c, a)
           /\ ambiguous' = [ambiguous EXCEPT ![a] = ambiguous[a] + 1]
    BY <1>0 DEF SendRetryable
  <1>2. w.todo = disp[d].todo /\ w.pc = "requeueAttempt" /\ w.cur = a
    BY <1>0 DEF TypeOK, Dispatcher
  <1>3. disp' = [disp EXCEPT ![d] = w] /\ UNCHANGED <<row, late>>
    BY DEF SendRetryable, Goto, rows
  <1> HIDE DEF w
  <1>4. CASE UNCHANGED <<call, ambiguous>>
    BY <1>0, <1>2, <1>3, <1>4, MoveKept, SameOpen
  <1>5. ASSUME NEW c \in Sids, Place(c, a),
               ambiguous' = [ambiguous EXCEPT ![a] = ambiguous[a] + 1]
        PROVE  CallInv'
    <2>0. ASSUME NEW b \in Attempts PROVE Holders(b)' \subseteq Holders(b)
      <3>1. b \in w.todo \/ (w.pc \in {"send", "requeueAttempt"} /\ w.cur = b) => Holds(d, b)
        BY <1>0, <1>2 DEF Holds
      <3> QED
        BY <1>3, <3>1, HoldersAfter
    <2>1. ambiguous'[a] = ambiguous[a] + 1 /\ \A b \in Attempts \ {a} : ambiguous'[b] = ambiguous[b]
      BY <1>0, <1>5 DEF TypeOK
    <2>2. Balanced(a)'
      <3>1. CallsFor(a)' \subseteq CallsFor(a) \cup {c}
        BY <1>5, CallsAfter
      <3> QED
        BY <1>0, <1>3, <2>0, <2>1, <3>1, BalanceAmbiguous, SameOpen DEF CallInv
    <2>3. ASSUME NEW b \in Attempts, b # a PROVE Balanced(b)'
      <3>1. CallsFor(b)' \subseteq CallsFor(b)
        BY <1>5, <2>3, CallsAfter
      <3> QED
        BY <1>3, <2>0, <2>1, <2>3, <3>1, BalanceKept, SameOpen DEF CallInv
    <2> QED
      BY <2>2, <2>3 DEF CallInv
  <1> QED
    BY <1>1, <1>4, <1>5

-----------------------------------------------------------------------------
(* markSent, markDelivered and handleSendError: only the requeue gives a   *)
(* row its right back, and the dispatcher had it.                          *)

LEMMA ContinueMove ==
  ASSUME TypeOK, NEW d \in Dispatchers, Continue(d)
  PROVE  \E next : /\ disp' = [disp EXCEPT ![d] = next]
                   /\ next.todo \subseteq disp[d].todo
                   /\ next.pc \in {"idle", "loop"}
  <1> DEFINE w == IF disp[d].todo = {} THEN Idle
                  ELSE [disp[d] EXCEPT !.pc = "loop", !.cur = None, !.sid = None,
                                       !.delivered = FALSE]
  <1>1. disp' = [disp EXCEPT ![d] = w]
    BY DEF Continue
  <1>2. w.todo \subseteq disp[d].todo /\ w.pc \in {"idle", "loop"}
    BY DEF Idle, TypeOK, Dispatcher
  <1> QED
    BY <1>1, <1>2

LEMMA GotoMove ==
  ASSUME TypeOK, NEW d \in Dispatchers, NEW pc, Goto(d, pc)
  PROVE  \E next : /\ disp' = [disp EXCEPT ![d] = next]
                   /\ next.todo \subseteq disp[d].todo
                   /\ next.pc = pc
  <1> DEFINE w == [disp[d] EXCEPT !.pc = pc]
  <1>1. disp' = [disp EXCEPT ![d] = w]
    BY DEF Goto
  <1>2. w.todo \subseteq disp[d].todo /\ w.pc = pc
    BY DEF TypeOK, Dispatcher
  <1> QED
    BY <1>1, <1>2

LEMMA WriteCallInv ==
  ASSUME TypeOK, TakenOut, CallInv, NEW d \in Dispatchers,
         \/ MarkAttempt(d) \/ MarkUser(d) \/ MarkNotif(d) \/ RequeueNotif(d)
         \/ FailAttempt(d) \/ FailUser(d) \/ FailNotif(d) \/ StatementFails(d)
  PROVE  CallInv'
  <1> DEFINE a == disp[d].cur
  <1>1. UNCHANGED <<call, late, ambiguous>>
    BY DEF MarkAttempt, MarkUser, MarkNotif, RequeueNotif, FailAttempt,
           FailUser, FailNotif, StatementFails, history
  <1>2. \/ Continue(d)
        \/ \E pc \in {"markUser", "markNotif", "failUser", "failNotif"} : Goto(d, pc)
    BY DEF MarkAttempt, MarkUser, MarkNotif, RequeueNotif, FailAttempt,
           FailUser, FailNotif, StatementFails
  <1>3. PICK next : /\ disp' = [disp EXCEPT ![d] = next]
                    /\ next.todo \subseteq disp[d].todo
                    /\ next.pc \notin {"send", "requeueAttempt"}
    <2>1. CASE Continue(d)
      BY <2>1, ContinueMove
    <2>2. ASSUME NEW pc \in {"markUser", "markNotif", "failUser", "failNotif"}, Goto(d, pc)
          PROVE  \E next : /\ disp' = [disp EXCEPT ![d] = next]
                           /\ next.todo \subseteq disp[d].todo
                           /\ next.pc \notin {"send", "requeueAttempt"}
      BY <2>2, GotoMove
    <2> QED
      BY <1>2, <2>1, <2>2
  <1>4. \A b \in Attempts : Open(b)' => Open(b)
    <2>1. CASE UNCHANGED row
      BY <2>1, SameOpen
    <2>2. CASE MarkAttempt(d) \/ FailAttempt(d)
      <3>1. a \in Attempts /\ row[a] \in Row
        BY <2>2 DEF MarkAttempt, FailAttempt, TakenOut, WritePcs, TypeOK
      <3>2. PICK status \in Outcome, sid \in Sids \cup {None}, delivered \in BOOLEAN :
              UpdateStatus(a, status, sid, delivered)
        BY <2>2 DEF MarkAttempt, FailAttempt, Outcome, TypeOK, Dispatcher
      <3> DEFINE w == [row[a] EXCEPT !.status = status, !.sid = sid, !.lease = None,
                                     !.expired = FALSE, !.delivered = delivered]
      <3>3. row' = [row EXCEPT ![a] = w] /\ w.status \in Outcome
        BY <3>1, <3>2 DEF UpdateStatus, Row
      <3> HIDE DEF w, a
      <3> QED
        BY <3>1, <3>3, OpenAfter
    <2> QED
      BY <2>1, <2>2 DEF MarkUser, MarkNotif, RequeueNotif, FailUser, FailNotif, StatementFails, rows
  <1> QED
    BY <1>1, <1>3, <1>4, MoveKept

LEMMA RequeueCallInv ==
  ASSUME TypeOK, TakenOut, CallInv, NEW d \in Dispatchers, RequeueAttempt(d)
  PROVE  CallInv'
  <1>0. PICK a \in Attempts : a = disp[d].cur /\ a \notin disp[d].todo /\ d \in Holders(a)
    BY DEF RequeueAttempt, TakenOut, WritePcs, Holders, Holds
  <1>1. UNCHANGED <<call, late, ambiguous>> /\ \A b \in Attempts \ {a} : row'[b] = row[b]
    BY <1>0 DEF RequeueAttempt, Requeue, history, TypeOK
  <1>2. PICK next : /\ disp' = [disp EXCEPT ![d] = next]
                    /\ next.todo \subseteq disp[d].todo
                    /\ next.pc \notin {"send", "requeueAttempt"}
    <2>1. Continue(d) \/ Goto(d, "requeueNotif")
      BY DEF RequeueAttempt
    <2>2. CASE Continue(d)
      BY <2>2, ContinueMove
    <2>3. CASE Goto(d, "requeueNotif")
      BY <2>3, GotoMove
    <2> QED
      BY <2>1, <2>2, <2>3
  <1>3. Balanced(a)'
    <2>0. a \notin next.todo /\ next.pc \notin {"send", "requeueAttempt"}
      BY <1>0, <1>2
    <2>1. Holders(a)' \subseteq Holders(a) \ {d}
      BY <1>0, <1>2, <2>0, HolderLeaves
    <2> QED
      BY <1>0, <1>1, <2>1, BalanceRequeued, SameCalls DEF CallInv
  <1>4. ASSUME NEW b \in Attempts, b # a PROVE Balanced(b)'
    <2>1. b \in next.todo \/ (next.pc \in {"send", "requeueAttempt"} /\ next.cur = b) => Holds(d, b)
      BY <1>2 DEF Holds
    <2>2. Holders(b)' \subseteq Holders(b)
      BY <1>2, <2>1, HoldersAfter
    <2>3. Open(b)' <=> Open(b)
      BY <1>1, <1>4 DEF Open
    <2> QED
      BY <1>1, <2>2, <2>3, BalanceKept, SameCalls DEF CallInv
  <1> QED
    BY <1>3, <1>4 DEF CallInv

-----------------------------------------------------------------------------
(* Twilio's callback finishes rows and places no call. *)
LEMMA HookCallInv ==
  ASSUME TypeOK, CallInv, NEW c \in Sids,
         CallEnds(c) \/ Handling(c) \/ HookFails(c) \/ HookRepeats(c)
  PROVE  CallInv'
  <1>0. UNCHANGED <<disp, late, ambiguous>>
    BY DEF CallEnds, Handling, HookLookup, HookAttempt, HookUser, HookNotif, HookFails,
           HookRepeats, history
  <1>1. \A a \in Attempts : CallsFor(a)' \subseteq CallsFor(a)
    <2>1. CASE CallEnds(c)
      <3>1. PICK outcome : call' = [call EXCEPT ![c].state = outcome]
        BY <2>1 DEF CallEnds
      <3>2. \A s \in Sids : call'[s].attempt = call[s].attempt
        BY <3>1 DEF TypeOK, CallRecord
      <3> QED
        BY <3>2 DEF CallsFor
    <2>2. CASE UNCHANGED call
      BY <2>2, SameCalls
    <2> QED
      BY <2>1, <2>2 DEF Handling, HookLookup, HookAttempt, HookUser, HookNotif, HookFails, HookRepeats
  <1>2. \A a \in Attempts : Open(a)' => Open(a)
    <2>1. CASE HookAttempt(c)
      <3>1. PICK a \in Attempts : UpdateVoiceCallback(a, ReportOf(c))
        BY <2>1 DEF HookAttempt
      <3> DEFINE report == ReportOf(c)
                 done == report = "sent"
                 w == [row[a] EXCEPT !.status = report, !.delivered = done, !.report = report]
      <3>2. row' = [row EXCEPT ![a] = w] /\ report \in Outcome
        BY <3>1 DEF UpdateVoiceCallback, ReportOf, Outcome
      <3> HIDE DEF report, done
      <3>3. w.status \in Outcome
        BY <3>2 DEF TypeOK, Row
      <3> HIDE DEF w
      <3> QED
        BY <3>2, <3>3, OpenAfter
    <2>2. CASE UNCHANGED row
      BY <2>2, SameOpen
    <2> QED
      BY <2>1, <2>2
         DEF CallEnds, Handling, HookLookup, HookUser, HookNotif, HookFails, HookRepeats, rows
  <1> QED
    BY <1>0, <1>1, <1>2, AllKept, SameHolders

-----------------------------------------------------------------------------
LEMMA NextCallInv == TypeOK /\ LeaseInv /\ CallInv /\ [Next]_vars => CallInv'
  <1> SUFFICES ASSUME TypeOK, LeaseInv, CallInv, [Next]_vars PROVE CallInv'
    OBVIOUS
  <1>0. TakenOut
    BY DEF LeaseInv
  <1>1. ASSUME NEW a \in Attempts, Create(a) \/ LeaseExpires(a) \/ RetryDue(a) PROVE CallInv'
    BY <1>1, EnvironmentCallInv
  <1>2. ASSUME NEW d \in Dispatchers, Working(d) \/ Failing(d) PROVE CallInv'
    BY <1>0, <1>2, ClaimUpdateCallInv, LoopCallInv, SendOkCallInv, SendRetryableCallInv,
       SendRefusedCallInv, WriteCallInv, RequeueCallInv
       DEF Working, Failing
  <1>3. ASSUME NEW c \in Sids, CallEnds(c) \/ Handling(c) \/ HookFails(c) \/ HookRepeats(c)
        PROVE  CallInv'
    BY <1>3, HookCallInv
  <1>4. CASE UNCHANGED vars
    BY <1>4, AllKept, SameHolders, SameCalls, SameOpen DEF vars
  <1> QED
    BY <1>1, <1>2, <1>3, <1>4 DEF Next

LEMMA CallInvariant == Spec => []CallInv
  BY InitCallInv, NextCallInv, TypeCorrect, LeaseInvariant, PTL DEF Spec

(* A recipient is called once, and once more at most for every lease that  *)
(* ran out and every placed call whose answer asked for a retry: a right   *)
(* to call is passed between the row and the dispatchers, never copied.    *)
THEOREM CallsAccounted == Spec => []CallAccounting
  <1>1. TypeOK /\ CallInv => CallAccounting
    <2> SUFFICES ASSUME TypeOK, CallInv, NEW a \in Attempts
                 PROVE  Cardinality(CallsFor(a)) <= 1 + late[a] + ambiguous[a]
      BY DEF CallAccounting
    <2>1. Balanced(a) /\ late[a] \in Nat /\ ambiguous[a] \in Nat
      BY DEF CallInv, TypeOK
    <2>2. Cardinality(CallsFor(a)) \in Nat /\ Cardinality(Holders(a)) \in Nat
      BY <2>1, FS_CardinalityType DEF Balanced
    <2> QED
      BY <2>1, <2>2 DEF Balanced
  <1> QED
    BY <1>1, CallInvariant, TypeCorrect, PTL

-----------------------------------------------------------------------------
(* Names.  A call, once placed, stays the call of its row, and an outcome  *)
(* stays its outcome; so what names it goes on naming it.                  *)

CallsStay ==
  \A c \in Sids :
    /\ Placed(c) => call'[c].attempt = call[c].attempt
    /\ call[c].state \in {"completed", "failed"} => call'[c].state = call[c].state

LEMMA StillNamed ==
  ASSUME CallsStay
  PROVE  /\ \A c, m : PlacedFor(c, m) => PlacedFor(c, m)'
         /\ \A c, a : Names(c, a) => Names(c, a)'
         /\ \A m : Answered(m) => Answered(m)'
  BY DEF CallsStay, PlacedFor, Placed, Names, Answered

LEMMA InitNameInv == Init => NameInv
  <1> SUFFICES ASSUME Init PROVE NameInv
    OBVIOUS
  <1>1. CallsPlaced
    BY ConstantsAssumption DEF Init, CallsPlaced, Placed
  <1>2. DispatchersName
    BY DEF Init, DispatchersName, Idle, MarkPcs
  <1>3. CachesName
    BY DEF Init, CachesName, EmptyCache, NoOutcome
  <1>4. HooksName
    BY DEF Init, HooksName
  <1>5. RowsName /\ RowsAnswered
    BY DEF Init, RowsName, RowsAnswered
  <1> QED
    BY <1>1, <1>2, <1>3, <1>4, <1>5 DEF NameInv

LEMMA CallsUnchanged ==
  ASSUME CallsPlaced, UNCHANGED call
  PROVE  CallsPlaced' /\ CallsStay
  BY DEF CallsPlaced, CallsStay, Placed

LEMMA PlaceStays ==
  ASSUME TypeOK, CallsPlaced, NEW c \in Sids, NEW a \in Attempts, Place(c, a)
  PROVE  CallsPlaced' /\ CallsStay /\ Names(c, a)'
  <1>1. /\ call' = [call EXCEPT ![c] = [attempt |-> a, state |-> "live"]]
        /\ call[c].state = "none"
    BY DEF Place
  <1>2. /\ call'[c].attempt = a /\ call'[c].state = "live"
        /\ \A s \in Sids \ {c} : call'[s] = call[s]
    BY <1>1 DEF TypeOK
  <1> QED
    BY <1>1, <1>2 DEF CallsPlaced, CallsStay, Placed, Names, PlacedFor

(* Parts of the invariant that a step leaves alone. *)
LEMMA CachesKept == ASSUME CachesName, CallsStay, UNCHANGED cache PROVE CachesName'
  BY StillNamed DEF CachesName

LEMMA HooksKept == ASSUME HooksName, CallsStay, UNCHANGED hook PROVE HooksName'
  BY StillNamed DEF HooksName, CallsStay

LEMMA DispatchersKept ==
  ASSUME DispatchersName, CallsStay, UNCHANGED disp PROVE DispatchersName'
  BY StillNamed DEF DispatchersName

(* A statement that names a call of the row, or forgets the call it named. *)
LEMMA RowsNameAfter ==
  ASSUME TypeOK, RowsName, CallsStay, NEW a \in Attempts, NEW w,
         row' = [row EXCEPT ![a] = w],
         w.sid \in {row[a].sid, None} \/ Names(w.sid, a)'
  PROVE  RowsName'
  <1>1. row'[a] = w /\ \A b \in Attempts \ {a} : row'[b] = row[b]
    BY DEF TypeOK
  <1>2. ASSUME NEW b \in Attempts, NEW s, s = row'[b].sid, s # None PROVE Names(s, b)'
    <2>1. CASE s = row[b].sid
      BY <1>2, <2>1, StillNamed DEF RowsName
    <2>2. CASE s # row[b].sid
      BY <1>1, <1>2, <2>2
    <2> QED
      BY <2>1, <2>2
  <1> QED
    BY <1>2 DEF RowsName

LEMMA RowsNameKept ==
  ASSUME RowsName, CallsStay, \A a \in Attempts : row'[a].sid = row[a].sid
  PROVE  RowsName'
  <1>1. ASSUME NEW a \in Attempts, NEW s, s = row'[a].sid, s # None PROVE Names(s, a)'
    BY <1>1, StillNamed DEF RowsName
  <1> QED
    BY <1>1 DEF RowsName

LEMMA RowsAnsweredAfter ==
  ASSUME RowsAnswered, CallsStay,
         \A a \in Attempts : \/ row'[a].delivered => row[a].delivered
                             \/ Answered(messageOf[a])',
         \A a \in Attempts : \/ notif'[a].delivered => notif[a].delivered
                             \/ Answered(messageOf[a])'
  PROVE  RowsAnswered'
  BY StillNamed DEF RowsAnswered

(* A dispatcher that moves on knows what it marks the next row with. *)
LEMMA DispatchersMoved ==
  ASSUME TypeOK, DispatchersName, CallsStay, NEW d \in Dispatchers, NEW next,
         disp' = [disp EXCEPT ![d] = next],
         next.pc \in MarkPcs => /\ next.cur \in Attempts
                                /\ Names(next.sid, next.cur)'
                                /\ next.delivered => Answered(messageOf[next.cur])',
         next.pc = "send" => ~next.delivered
  PROVE  DispatchersName'
  <1>1. disp'[d] = next /\ \A e \in Dispatchers \ {d} : disp'[e] = disp[e]
    BY DEF TypeOK
  <1> QED
    BY <1>1, StillNamed DEF DispatchersName

LEMMA ContinueNames ==
  ASSUME TypeOK, DispatchersName, CallsStay, NEW d \in Dispatchers, Continue(d)
  PROVE  DispatchersName'
  BY ContinueMove, DispatchersMoved DEF MarkPcs

LEMMA GotoNames ==
  ASSUME TypeOK, DispatchersName, CallsStay, NEW d \in Dispatchers, NEW pc, Goto(d, pc),
         pc \in MarkPcs => disp[d].pc \in MarkPcs, pc # "send"
  PROVE  DispatchersName'
  <1> DEFINE w == [disp[d] EXCEPT !.pc = pc]
  <1>1. disp' = [disp EXCEPT ![d] = w]
    BY DEF Goto
  <1>2. /\ w.pc = pc /\ w.cur = disp[d].cur /\ w.sid = disp[d].sid
        /\ w.delivered = disp[d].delivered
    BY DEF TypeOK, Dispatcher
  <1> HIDE DEF w
  <1>3. w.pc \in MarkPcs => /\ w.cur \in Attempts
                            /\ Names(w.sid, w.cur)
                            /\ w.delivered => Answered(messageOf[w.cur])
    BY <1>2 DEF DispatchersName
  <1>4. PICK next : next = w
    OBVIOUS
  <1> QED
    BY <1>1, <1>2, <1>3, <1>4, StillNamed, DispatchersMoved

-----------------------------------------------------------------------------
LEMMA EnvironmentNameInv ==
  ASSUME TypeOK, NameInv, NEW a \in Attempts, Create(a) \/ LeaseExpires(a) \/ RetryDue(a)
  PROVE  NameInv'
  <1>1. UNCHANGED <<notif, disp, cache, call, hook>>
    BY DEF Create, LeaseExpires, RetryDue
  <1>2. CallsPlaced' /\ CallsStay
    BY <1>1, CallsUnchanged DEF NameInv
  <1>3. PICK w : /\ row' = [row EXCEPT ![a] = w]
                 /\ w.sid = row[a].sid /\ w.delivered = row[a].delivered
    <2> DEFINE queued == [row[a] EXCEPT !.status = "queued"]
               expired == [row[a] EXCEPT !.expired = TRUE]
               due == [row[a] EXCEPT !.due = TRUE]
    <2>1. \E w \in {queued, expired, due} : row' = [row EXCEPT ![a] = w]
      BY DEF Create, LeaseExpires, RetryDue
    <2>2. \A w \in {queued, expired, due} : w.sid = row[a].sid /\ w.delivered = row[a].delivered
      BY DEF TypeOK, Row
    <2> QED
      BY <2>1, <2>2
  <1>4. \A b \in Attempts : row'[b].sid = row[b].sid /\ row'[b].delivered = row[b].delivered
    BY <1>3 DEF TypeOK
  <1>5. RowsName' /\ RowsAnswered'
    BY <1>1, <1>2, <1>4, RowsNameKept, RowsAnsweredAfter DEF NameInv
  <1> QED
    BY <1>1, <1>2, <1>5, CachesKept, HooksKept, DispatchersKept DEF NameInv

LEMMA ClaimUpdateNameInv ==
  ASSUME TypeOK, NameInv, NEW d \in Dispatchers, ClaimUpdate(d)
  PROVE  NameInv'
  <1> DEFINE picked == FirstOf({a \in Attempts : Claimable(a)}, ClaimLimit)
  <1>1. /\ disp' = [disp EXCEPT ![d] = [Idle EXCEPT !.pc = "select", !.todo = picked]]
        /\ row' = [a \in Attempts |->
                     IF a \in picked
                     THEN [row[a] EXCEPT !.status = "dispatching", !.lease = d, !.expired = FALSE]
                     ELSE row[a]]
        /\ UNCHANGED <<notif, cache, call, hook>>
    BY DEF ClaimUpdate
  <1> HIDE DEF picked
  <1>2. CallsPlaced' /\ CallsStay
    BY <1>1, CallsUnchanged DEF NameInv
  <1>3. \A b \in Attempts : row'[b].sid = row[b].sid /\ row'[b].delivered = row[b].delivered
    <2> SUFFICES ASSUME NEW b \in Attempts
                 PROVE  row'[b].sid = row[b].sid /\ row'[b].delivered = row[b].delivered
      OBVIOUS
    <2>1. row[b] \in Row
      BY DEF TypeOK
    <2>2. row'[b] = IF b \in picked
                    THEN [row[b] EXCEPT !.status = "dispatching", !.lease = d, !.expired = FALSE]
                    ELSE row[b]
      BY <1>1
    <2>3. CASE b \in picked
      <3>1. row'[b] = [row[b] EXCEPT !.status = "dispatching", !.lease = d, !.expired = FALSE]
        BY <2>2, <2>3
      <3> QED
        BY <2>1, <2>3, <3>1 DEF Row
    <2>4. CASE b \notin picked
      BY <2>2, <2>4
    <2> QED
      BY <2>3, <2>4
  <1>4. RowsName' /\ RowsAnswered'
    BY <1>1, <1>2, <1>3, RowsNameKept, RowsAnsweredAfter DEF NameInv
  <1>5. DispatchersName'
    <2>1. PICK next : disp' = [disp EXCEPT ![d] = next] /\ next.pc = "select"
      <3>1. [Idle EXCEPT !.pc = "select", !.todo = picked].pc = "select"
        BY DEF Idle
      <3> QED
        BY <1>1, <3>1
    <2> QED
      BY <1>2, <2>1, DispatchersMoved DEF NameInv, MarkPcs
  <1> QED
    BY <1>1, <1>2, <1>4, <1>5, CachesKept, HooksKept DEF NameInv

(* What is already known of a message is of a call placed for it. *)
LEMMA LookupsName ==
  ASSUME TypeOK, NameInv, NEW d \in Dispatchers, NEW m \in Messages, NEW known \in Lookups(d, m)
  PROVE  /\ known.sid # None => PlacedFor(known.sid, m)
         /\ known.delivered => Answered(m)
  <1>1. CASE known = cache[d][m]
    BY <1>1 DEF NameInv, CachesName
  <1>2. CASE known = NoOutcome
    BY <1>2 DEF NoOutcome
  <1>3. ASSUME NEW b \in SentRows(m),
               known = [sid |-> row[b].sid, delivered |-> row[b].delivered]
        PROVE  /\ known.sid # None => PlacedFor(known.sid, m)
               /\ known.delivered => Answered(m)
    <2>1. b \in Attempts /\ messageOf[b] = m
      BY DEF SentRows
    <2>2. known.sid = row[b].sid /\ known.delivered = row[b].delivered
      BY <1>3
    <2> QED
      BY <2>1, <2>2 DEF NameInv, RowsName, Names, RowsAnswered
  <1> QED
    BY <1>1, <1>2, <1>3 DEF Lookups

LEMMA LoopNameInv ==
  ASSUME TypeOK, NameInv, NEW d \in Dispatchers,
         \/ ClaimSelect(d) \/ ClaimSelectFails(d) \/ StartCall(d) \/ LookupFails(d)
  PROVE  NameInv'
  <1> DEFINE held == {a \in disp[d].todo : LeaseHeldBy(d, a)}
  <1>0. UNCHANGED <<row, notif, cache, call, hook>>
    BY DEF ClaimSelect, ClaimSelectFails, StartCall, LookupFails, rows
  <1>1. PICK next : /\ disp' = [disp EXCEPT ![d] = next]
                    /\ next.pc \notin MarkPcs
                    /\ next.pc = "send" => ~next.delivered
    <2>1. CASE ClaimSelect(d)
      <3> DEFINE w == IF held = {} THEN Idle
                      ELSE [Idle EXCEPT !.pc = "loop", !.batch = held, !.todo = held]
      <3>1. disp' = [disp EXCEPT ![d] = w] /\ w.pc \in {"idle", "loop"}
        BY <2>1 DEF ClaimSelect, Idle
      <3> QED
        BY <3>1 DEF MarkPcs
    <2>2. CASE ClaimSelectFails(d)
      <3>1. disp' = [disp EXCEPT ![d] = Idle] /\ Idle.pc = "idle"
        BY <2>2 DEF ClaimSelectFails, Idle
      <3> QED
        BY <3>1 DEF MarkPcs
    <2>3. CASE StartCall(d)
      <3>1. PICK a : TakeUp(d, a, "send", NoOutcome)
        BY <2>3 DEF StartCall
      <3> DEFINE w == [pc |-> "send", batch |-> disp[d].batch, todo |-> disp[d].todo \ {a},
                       cur |-> a, sid |-> NoOutcome.sid, delivered |-> NoOutcome.delivered]
      <3>2. disp' = [disp EXCEPT ![d] = w] /\ w.pc = "send" /\ ~w.delivered
        BY <3>1 DEF TakeUp, NoOutcome
      <3> QED
        BY <3>2 DEF MarkPcs
    <2>4. CASE LookupFails(d)
      <3>1. PICK a \in Attempts :
              disp' = [disp EXCEPT ![d] = IF disp[d].todo \ {a} = {} THEN Idle
                                          ELSE [disp[d] EXCEPT !.todo = disp[d].todo \ {a}]]
        BY <2>4 DEF LookupFails
      <3> DEFINE w == IF disp[d].todo \ {a} = {} THEN Idle
                      ELSE [disp[d] EXCEPT !.todo = disp[d].todo \ {a}]
      <3>2. w.pc \in {"idle", "loop"}
        BY <2>4 DEF Idle, LookupFails, TypeOK, Dispatcher
      <3> QED
        BY <3>1, <3>2 DEF MarkPcs
    <2> QED
      BY <2>1, <2>2, <2>3, <2>4
  <1>2. CallsPlaced' /\ CallsStay
    BY <1>0, CallsUnchanged DEF NameInv
  <1>3. RowsName' /\ RowsAnswered'
    BY <1>0, <1>2, RowsNameKept, RowsAnsweredAfter DEF NameInv
  <1>4. DispatchersName'
    BY <1>1, <1>2, DispatchersMoved DEF NameInv
  <1> QED
    BY <1>0, <1>2, <1>3, <1>4, CachesKept, HooksKept DEF NameInv

LEMMA ReuseNameInv ==
  ASSUME TypeOK, NameInv, NEW d \in Dispatchers, ReuseCall(d)
  PROVE  NameInv'
  <1>0. UNCHANGED <<row, notif, call, hook>> /\ Collapse
    BY DEF ReuseCall, rows
  <1>a. PICK a \in Attempts : \E known \in Lookups(d, messageOf[a]) :
          /\ known.sid # None
          /\ cache' = [cache EXCEPT ![d][messageOf[a]] = known]
          /\ TakeUp(d, a, "markAttempt", known)
    BY DEF ReuseCall
  <1>1. PICK known \in Lookups(d, messageOf[a]) :
          /\ known.sid # None
          /\ cache' = [cache EXCEPT ![d][messageOf[a]] = known]
          /\ TakeUp(d, a, "markAttempt", known)
    BY <1>a
  <1>2. CallsPlaced' /\ CallsStay
    BY <1>0, CallsUnchanged DEF NameInv
  <1>3. messageOf[a] \in Messages
    BY ConstantsAssumption
  <1>4. PlacedFor(known.sid, messageOf[a])' /\ (known.delivered => Answered(messageOf[a])')
    BY <1>1, <1>2, <1>3, LookupsName, StillNamed
  <1>5. DispatchersName'
    <2> DEFINE w == [pc |-> "markAttempt", batch |-> disp[d].batch, todo |-> disp[d].todo \ {a},
                     cur |-> a, sid |-> known.sid, delivered |-> known.delivered]
    <2>1. PICK next : /\ disp' = [disp EXCEPT ![d] = next]
                      /\ next.pc = "markAttempt" /\ next.cur = a /\ next.sid = known.sid
                      /\ next.delivered = known.delivered
      <3>1. disp' = [disp EXCEPT ![d] = w]
        BY <1>1 DEF TakeUp
      <3>2. /\ w.pc = "markAttempt" /\ w.cur = a /\ w.sid = known.sid
            /\ w.delivered = known.delivered
        OBVIOUS
      <3> HIDE DEF w
      <3> QED
        BY <3>1, <3>2
    <2>2. Names(next.sid, next.cur)'
      BY <1>0, <1>4, <2>1 DEF Names
    <2> QED
      BY <1>2, <1>4, <2>1, <2>2, DispatchersMoved DEF NameInv
  <1>6. CachesName'
    <2> SUFFICES ASSUME NEW e \in Dispatchers, NEW m \in Messages
                 PROVE  /\ cache'[e][m].sid # None => Collapse /\ PlacedFor(cache[e][m].sid, m)'
                        /\ cache'[e][m].delivered => Answered(m)'
      BY DEF CachesName
    <2>1. CASE e = d /\ m = messageOf[a]
      <3>1. cache'[e][m] = known
        BY <1>1, <2>1 DEF TypeOK
      <3> QED
        BY <1>0, <1>4, <2>1, <3>1 DEF PlacedFor, Placed
    <2>2. CASE ~(e = d /\ m = messageOf[a])
      <3>1. cache'[e][m] = cache[e][m]
        BY <1>1, <2>2 DEF TypeOK
      <3>2. PICK s : s = cache[e][m].sid
        OBVIOUS
      <3>3. s # None => Collapse /\ PlacedFor(s, m)'
        BY <1>2, <3>2, StillNamed DEF NameInv, CachesName
      <3>4. cache[e][m].delivered => Answered(m)'
        BY <1>2, StillNamed DEF NameInv, CachesName
      <3> QED
        BY <3>1, <3>2, <3>3, <3>4
    <2> QED
      BY <2>1, <2>2
  <1>7. RowsName' /\ RowsAnswered'
    BY <1>0, <1>2, RowsNameKept, RowsAnsweredAfter DEF NameInv
  <1> QED
    BY <1>0, <1>2, <1>5, <1>6, <1>7, HooksKept DEF NameInv

LEMMA SendNameInv ==
  ASSUME TypeOK, TakenOut, NameInv, NEW d \in Dispatchers,
         SendOk(d) \/ SendRetryable(d) \/ SendRefused(d)
  PROVE  NameInv'
  <1>0. UNCHANGED <<row, notif, cache, hook>> /\ disp[d].pc = "send"
    BY DEF SendOk, SendRetryable, SendRefused, rows
  <1>1. PICK a \in Attempts : a = disp[d].cur
    BY <1>0 DEF TakenOut, WritePcs
  <1>2. CallsPlaced' /\ CallsStay
    <2>1. UNCHANGED call \/ \E c \in Sids : Place(c, a)
      BY <1>1 DEF SendOk, SendRetryable, SendRefused
    <2> QED
      BY <2>1, CallsUnchanged, PlaceStays DEF NameInv
  <1>3. DispatchersName'
    <2>1. CASE SendOk(d)
      <3>1. PICK c \in Sids : Place(c, a) /\ disp' = [disp EXCEPT ![d] =
                                 [disp[d] EXCEPT !.pc = "markAttempt", !.sid = c]]
        BY <1>1, <2>1 DEF SendOk
      <3>2. PICK next : /\ disp' = [disp EXCEPT ![d] = next]
                        /\ next.pc = "markAttempt" /\ next.cur = a /\ next.sid = c
                        /\ ~next.delivered
        <4> DEFINE w == [disp[d] EXCEPT !.pc = "markAttempt", !.sid = c]
        <4>1. /\ w.pc = "markAttempt" /\ w.cur = a /\ w.sid = c
              /\ w.delivered = disp[d].delivered
          BY <1>1 DEF TypeOK, Dispatcher
        <4>2. ~disp[d].delivered
          BY <1>0 DEF NameInv, DispatchersName
        <4> QED
          BY <3>1, <4>1, <4>2
      <3>3. Names(c, a)'
        BY <3>1, PlaceStays DEF NameInv
      <3>4. Names(next.sid, next.cur)'
        BY <3>2, <3>3
      <3> QED
        BY <1>2, <3>2, <3>4, DispatchersMoved DEF NameInv
    <2>2. CASE SendRetryable(d) \/ SendRefused(d)
      <3>1. Goto(d, "requeueAttempt") \/ Goto(d, "failAttempt")
        BY <2>2 DEF SendRetryable, SendRefused
      <3> QED
        BY <1>2, <3>1, GotoNames DEF NameInv, MarkPcs
    <2> QED
      BY <2>1, <2>2
  <1>4. RowsName' /\ RowsAnswered'
    BY <1>0, <1>2, RowsNameKept, RowsAnsweredAfter DEF NameInv
  <1> QED
    BY <1>0, <1>2, <1>3, <1>4, CachesKept, HooksKept DEF NameInv

-----------------------------------------------------------------------------
(* The UPDATE and the cache write of what a dispatcher knows of the call.  *)

LEMMA CacheCollapsedNames ==
  ASSUME TypeOK, NameInv, CallsStay, NEW d \in Dispatchers, disp[d].pc \in MarkPcs,
         CacheCollapsed(d)
  PROVE  CachesName'
  <1>0. PICK a \in Attempts, c \in Sids, delivered \in BOOLEAN :
          /\ a = disp[d].cur /\ c = disp[d].sid /\ delivered = disp[d].delivered
          /\ Names(c, a) /\ (delivered => Answered(messageOf[a]))
    BY DEF NameInv, DispatchersName, Names, PlacedFor, TypeOK, Dispatcher
  <1>1. messageOf[a] \in Messages
    BY ConstantsAssumption
  <1> DEFINE known == [sid |-> c, delivered |-> delivered]
  <1>2. known.sid = c /\ known.delivered = delivered
    OBVIOUS
  <1>3. \/ UNCHANGED cache
        \/ Collapse /\ cache' = [cache EXCEPT ![d][messageOf[a]] = known]
    BY <1>0 DEF CacheCollapsed
  <1> HIDE DEF known
  <1>4. PlacedFor(c, messageOf[a])' /\ (delivered => Answered(messageOf[a])')
    BY <1>0, StillNamed DEF Names
  <1>5. CASE UNCHANGED cache
    BY <1>5, CachesKept DEF NameInv
  <1>6. CASE Collapse /\ cache' = [cache EXCEPT ![d][messageOf[a]] = known]
    <2> SUFFICES ASSUME NEW e \in Dispatchers, NEW m \in Messages, NEW s, s = cache'[e][m].sid
                 PROVE  /\ s # None => Collapse /\ PlacedFor(s, m)'
                        /\ cache'[e][m].delivered => Answered(m)'
      BY DEF CachesName
    <2>1. CASE e = d /\ m = messageOf[a]
      <3>1. cache'[e][m] = known
        BY <1>1, <1>6, <2>1 DEF TypeOK
      <3> QED
        BY <1>2, <1>4, <1>6, <2>1, <3>1
    <2>2. CASE ~(e = d /\ m = messageOf[a])
      <3>1. cache'[e][m] = cache[e][m]
        BY <1>6, <2>2 DEF TypeOK
      <3> QED
        BY <3>1, StillNamed DEF NameInv, CachesName
    <2> QED
      BY <2>1, <2>2
  <1> QED
    BY <1>3, <1>5, <1>6

LEMMA MarkAttemptNameInv ==
  ASSUME TypeOK, NameInv, NEW d \in Dispatchers, MarkAttempt(d)
  PROVE  NameInv'
  <1>0. UNCHANGED <<notif, cache, call, hook>> /\ disp[d].pc \in MarkPcs
    BY DEF MarkAttempt, MarkPcs
  <1>1. CallsPlaced' /\ CallsStay
    BY <1>0, CallsUnchanged DEF NameInv
  <1>2. PICK a \in Attempts, c \in Sids, delivered \in BOOLEAN :
          /\ a = disp[d].cur /\ c = disp[d].sid /\ delivered = disp[d].delivered
          /\ Names(c, a) /\ (delivered => Answered(messageOf[a]))
    BY <1>0 DEF NameInv, DispatchersName, Names, PlacedFor, TypeOK, Dispatcher
  <1>3. PICK w : row' = [row EXCEPT ![a] = w] /\ w.sid = c /\ w.delivered = delivered
    <2> DEFINE w == [row[a] EXCEPT !.status = "sent", !.sid = c, !.lease = None,
                                   !.expired = FALSE, !.delivered = delivered]
    <2>1. row' = [row EXCEPT ![a] = w]
      BY <1>2 DEF MarkAttempt, UpdateStatus
    <2>2. w.sid = c /\ w.delivered = delivered
      BY DEF TypeOK, Row
    <2> QED
      BY <2>1, <2>2
  <1>4. Names(c, a)' /\ (delivered => Answered(messageOf[a])')
    BY <1>1, <1>2, StillNamed
  <1>5. RowsName'
    <2>1. PICK s : s = w.sid /\ Names(s, a)'
      BY <1>3, <1>4
    <2>2. Names(w.sid, a)'
      BY <2>1
    <2> QED
      BY <1>1, <1>3, <2>2, RowsNameAfter DEF NameInv
  <1>6. RowsAnswered'
    <2>1. row'[a] = w /\ \A b \in Attempts \ {a} : row'[b] = row[b]
      BY <1>3 DEF TypeOK
    <2> QED
      BY <1>0, <1>1, <1>3, <1>4, <2>1, RowsAnsweredAfter DEF NameInv
  <1>7. DispatchersName'
    BY <1>1, GotoNames DEF NameInv, MarkAttempt, MarkPcs
  <1> QED
    BY <1>0, <1>1, <1>5, <1>6, <1>7, CachesKept, HooksKept DEF NameInv

(* delivered_at is never set back, and only with a call that was answered. *)
LEMMA NotificationAnswered ==
  ASSUME TypeOK, RowsAnswered, CallsStay, UNCHANGED row, NEW a \in Attempts, NEW status,
         NEW delivered, UpdateNotification(a, status, delivered),
         delivered => Answered(messageOf[a])'
  PROVE  RowsAnswered'
  <1> DEFINE w == [status |-> status, delivered |-> notif[a].delivered \/ delivered]
  <1>1. notif' = [notif EXCEPT ![a] = w]
    BY DEF UpdateNotification
  <1>2. w.delivered <=> notif[a].delivered \/ delivered
    OBVIOUS
  <1> HIDE DEF w
  <1>3. notif'[a] = w /\ \A b \in Attempts \ {a} : notif'[b] = notif[b]
    BY <1>1 DEF TypeOK
  <1> QED
    BY <1>2, <1>3, RowsAnsweredAfter

LEMMA MarkNameInv ==
  ASSUME TypeOK, NameInv, NEW d \in Dispatchers, MarkUser(d) \/ MarkNotif(d)
  PROVE  NameInv'
  <1>0. UNCHANGED <<row, call, hook>> /\ disp[d].pc \in MarkPcs
    BY DEF MarkUser, MarkNotif, MarkPcs
  <1>1. CallsPlaced' /\ CallsStay
    BY <1>0, CallsUnchanged DEF NameInv
  <1>2. CachesName'
    <2>1. UNCHANGED cache \/ CacheCollapsed(d)
      BY DEF MarkUser, MarkNotif
    <2> QED
      BY <1>0, <1>1, <2>1, CachesKept, CacheCollapsedNames DEF NameInv
  <1>3. DispatchersName'
    <2>1. Continue(d) \/ Goto(d, "markNotif")
      BY DEF MarkUser, MarkNotif
    <2> QED
      BY <1>0, <1>1, <2>1, ContinueNames, GotoNames DEF NameInv
  <1>4. RowsName'
    BY <1>0, <1>1, RowsNameKept DEF NameInv
  <1>5. RowsAnswered'
    <2>1. CASE MarkUser(d)
      BY <1>0, <1>1, <2>1, RowsAnsweredAfter DEF NameInv, MarkUser
    <2>2. CASE MarkNotif(d)
      <3>1. PICK a \in Attempts, delivered \in BOOLEAN :
              /\ a = disp[d].cur /\ delivered = disp[d].delivered
              /\ (delivered => Answered(messageOf[a]))
        BY <1>0 DEF NameInv, DispatchersName, Names, PlacedFor, TypeOK, Dispatcher
      <3>2. UpdateNotification(a, "sent", delivered)
        BY <2>2, <3>1 DEF MarkNotif
      <3>3. delivered => Answered(messageOf[a])'
        BY <1>1, <3>1, StillNamed
      <3> QED
        BY <1>0, <1>1, <3>2, <3>3, NotificationAnswered DEF NameInv
    <2> QED
      BY <2>1, <2>2
  <1> QED
    BY <1>0, <1>1, <1>2, <1>3, <1>4, <1>5, HooksKept DEF NameInv

(* Requeueing keeps the name of the last call; failing forgets it. *)
LEMMA SetbackNameInv ==
  ASSUME TypeOK, TakenOut, NameInv, NEW d \in Dispatchers, RequeueAttempt(d) \/ FailAttempt(d)
  PROVE  NameInv'
  <1>0. UNCHANGED <<notif, cache, call, hook>>
    BY DEF RequeueAttempt, FailAttempt
  <1>1. CallsPlaced' /\ CallsStay
    BY <1>0, CallsUnchanged DEF NameInv
  <1>2. PICK a \in Attempts : a = disp[d].cur
    BY DEF RequeueAttempt, FailAttempt, TakenOut, WritePcs
  <1>3. PICK w : /\ row' = [row EXCEPT ![a] = w]
                 /\ w.sid \in {row[a].sid, None}
                 /\ w.delivered => row[a].delivered
    <2> DEFINE requeued == [row[a] EXCEPT !.status = "queued", !.due = FALSE, !.lease = None,
                                          !.expired = FALSE]
               failed == [row[a] EXCEPT !.status = "failed", !.sid = None, !.lease = None,
                                        !.expired = FALSE, !.delivered = FALSE]
    <2>1. \E w \in {requeued, failed} : row' = [row EXCEPT ![a] = w]
      BY <1>2 DEF RequeueAttempt, Requeue, FailAttempt, UpdateStatus
    <2>2. /\ requeued.sid = row[a].sid /\ requeued.delivered = row[a].delivered
          /\ failed.sid = None /\ ~failed.delivered
      BY DEF TypeOK, Row
    <2> QED
      BY <2>1, <2>2
  <1>4. RowsName'
    BY <1>1, <1>3, RowsNameAfter DEF NameInv
  <1>5. RowsAnswered'
    <2>1. row'[a] = w /\ \A b \in Attempts \ {a} : row'[b] = row[b]
      BY <1>3 DEF TypeOK
    <2> QED
      BY <1>0, <1>1, <1>3, <2>1, RowsAnsweredAfter DEF NameInv
  <1>6. DispatchersName'
    <2>1. Continue(d) \/ Goto(d, "requeueNotif") \/ Goto(d, "failUser")
      BY DEF RequeueAttempt, FailAttempt
    <2> QED
      BY <1>1, <2>1, ContinueNames, GotoNames DEF NameInv, MarkPcs
  <1> QED
    BY <1>0, <1>1, <1>4, <1>5, <1>6, CachesKept, HooksKept DEF NameInv

LEMMA AfterSetbackNameInv ==
  ASSUME TypeOK, NameInv, NEW d \in Dispatchers,
         RequeueNotif(d) \/ FailUser(d) \/ FailNotif(d) \/ StatementFails(d)
  PROVE  NameInv'
  <1>0. UNCHANGED <<row, cache, call, hook>>
    BY DEF RequeueNotif, FailUser, FailNotif, StatementFails, rows
  <1>1. CallsPlaced' /\ CallsStay
    BY <1>0, CallsUnchanged DEF NameInv
  <1>2. RowsName'
    BY <1>0, <1>1, RowsNameKept DEF NameInv
  <1>3. DispatchersName'
    <2>1. Continue(d) \/ Goto(d, "failNotif")
      BY DEF RequeueNotif, FailUser, FailNotif, StatementFails
    <2> QED
      BY <1>1, <2>1, ContinueNames, GotoNames DEF NameInv, MarkPcs
  <1>4. RowsAnswered'
    <2>1. PICK a : \/ UNCHANGED notif
                   \/ \E status : UpdateNotification(a, status, FALSE)
      BY DEF RequeueNotif, FailUser, FailNotif, StatementFails, rows
    <2>2. \A b \in Attempts : notif'[b].delivered => notif[b].delivered
      <3>1. CASE UNCHANGED notif
        BY <3>1
      <3>2. ASSUME NEW status, UpdateNotification(a, status, FALSE)
            PROVE  \A b \in Attempts : notif'[b].delivered => notif[b].delivered
        <4>1. notif' = [notif EXCEPT ![a] =
                          [status |-> status, delivered |-> notif[a].delivered \/ FALSE]]
          BY <3>2 DEF UpdateNotification
        <4> QED
          BY <4>1 DEF TypeOK
      <3> QED
        BY <2>1, <3>1, <3>2
    <2> QED
      BY <1>0, <1>1, <2>2, RowsAnsweredAfter DEF NameInv
  <1> QED
    BY <1>0, <1>1, <1>2, <1>3, <1>4, CachesKept, HooksKept DEF NameInv

LEMMA RestartNameInv ==
  ASSUME TypeOK, NameInv, NEW d \in Dispatchers, Restart(d)
  PROVE  NameInv'
  <1>0. /\ UNCHANGED <<row, notif, call, hook>>
        /\ disp' = [disp EXCEPT ![d] = Idle]
        /\ cache' = [cache EXCEPT ![d] = EmptyCache]
    BY DEF Restart, rows
  <1>1. CallsPlaced' /\ CallsStay
    BY <1>0, CallsUnchanged DEF NameInv
  <1>2. DispatchersName'
    BY <1>0, <1>1, DispatchersMoved DEF NameInv, Idle, MarkPcs
  <1>3. CachesName'
    <2>1. \A e \in Dispatchers, m \in Messages : cache'[e][m] \in {cache[e][m], NoOutcome}
      BY <1>0 DEF TypeOK, EmptyCache
    <2> SUFFICES ASSUME NEW e \in Dispatchers, NEW m \in Messages, NEW s, s = cache'[e][m].sid
                 PROVE  /\ s # None => Collapse /\ PlacedFor(s, m)'
                        /\ cache'[e][m].delivered => Answered(m)'
      BY DEF CachesName
    <2> QED
      BY <1>1, <2>1, StillNamed DEF NameInv, CachesName, NoOutcome
  <1>4. RowsName' /\ RowsAnswered'
    BY <1>0, <1>1, RowsNameKept, RowsAnsweredAfter DEF NameInv
  <1> QED
    BY <1>0, <1>1, <1>2, <1>3, <1>4, HooksKept DEF NameInv

-----------------------------------------------------------------------------
(* The callback of a call is applied to rows that name the call. *)

LEMMA CallEndsNameInv ==
  ASSUME TypeOK, NameInv, NEW c \in Sids, CallEnds(c)
  PROVE  NameInv'
  <1>0. UNCHANGED <<row, notif, disp, cache>>
    BY DEF CallEnds, rows
  <1>1. PICK outcome \in {"completed", "failed"} : call' = [call EXCEPT ![c].state = outcome]
    BY DEF CallEnds
  <1>2. /\ call[c].state = "live" /\ call'[c].state = outcome
        /\ \A s \in Sids \ {c} : call'[s] = call[s]
        /\ \A s \in Sids : call'[s].attempt = call[s].attempt
    BY <1>1 DEF CallEnds, TypeOK, CallRecord
  <1>3. CallsPlaced' /\ CallsStay
    BY <1>2 DEF NameInv, CallsPlaced, CallsStay, Placed
  <1>4. HooksName'
    <2> DEFINE w == [pc |-> "pending", todo |-> {}]
    <2>1. hook' = [hook EXCEPT ![c] = w] /\ w.todo = {}
      BY DEF CallEnds
    <2> HIDE DEF w
    <2>2. hook'[c].todo = {} /\ \A s \in Sids \ {c} : hook'[s] = hook[s]
      BY <2>1 DEF TypeOK
    <2> QED
      BY <1>2, <1>3, <2>2, StillNamed DEF NameInv, HooksName
  <1>5. RowsName' /\ RowsAnswered'
    BY <1>0, <1>3, RowsNameKept, RowsAnsweredAfter DEF NameInv
  <1> QED
    BY <1>0, <1>3, <1>4, <1>5, CachesKept, DispatchersKept DEF NameInv

(* The handler moves on, with no more rows than it had or with the rows    *)
(* that name the call.                                                     *)
LEMMA HookMoved ==
  ASSUME TypeOK, NameInv, CallsStay, NEW c \in Sids, NEW next, hook' = [hook EXCEPT ![c] = next],
         hook[c].pc # "none",
         \A a \in next.todo : a \in hook[c].todo \/ (a \in Attempts /\ row[a].sid = c)
  PROVE  HooksName'
  <1>1. hook'[c] = next /\ \A s \in Sids \ {c} : hook'[s] = hook[s]
    BY DEF TypeOK
  <1>2. call'[c].state \in {"completed", "failed"}
    BY DEF NameInv, HooksName, CallsStay
  <1>3. \A a \in next.todo : PlacedFor(c, messageOf[a])
    <2>1. \A a \in hook[c].todo : PlacedFor(c, messageOf[a])
      BY DEF NameInv, HooksName
    <2>2. \A a \in Attempts : row[a].sid = c => PlacedFor(c, messageOf[a])
      BY ConstantsAssumption DEF NameInv, RowsName, Names
    <2> QED
      BY <2>1, <2>2
  <1>4. \A s \in Sids \ {c} : hook[s].pc # "none" => call'[s].state \in {"completed", "failed"}
    BY DEF NameInv, HooksName, CallsStay
  <1>5. \A s \in Sids \ {c} : \A a \in hook[s].todo : PlacedFor(s, messageOf[a])
    BY DEF NameInv, HooksName
  <1> QED
    BY <1>1, <1>2, <1>3, <1>4, <1>5, StillNamed DEF HooksName

LEMMA HookNextMoves ==
  ASSUME NEW c \in Sids, NEW a, HookNext(c, a)
  PROVE  \E next : hook' = [hook EXCEPT ![c] = next] /\ next.todo \subseteq hook[c].todo
  <1> DEFINE rest == hook[c].todo \ {a}
             w == [pc |-> IF rest = {} THEN "done" ELSE "attempt", todo |-> rest]
  <1>1. hook' = [hook EXCEPT ![c] = w] /\ w.todo \subseteq hook[c].todo
    BY DEF HookNext
  <1> QED
    BY <1>1

LEMMA HookPcMoves ==
  ASSUME TypeOK, NEW c \in Sids, NEW pc, hook' = [hook EXCEPT ![c].pc = pc]
  PROVE  \E next : hook' = [hook EXCEPT ![c] = next] /\ next.todo \subseteq hook[c].todo
  <1> DEFINE w == [hook[c] EXCEPT !.pc = pc]
  <1>1. hook' = [hook EXCEPT ![c] = w] /\ w.todo \subseteq hook[c].todo
    BY DEF TypeOK, Hook
  <1> QED
    BY <1>1

LEMMA HandlingHooksName ==
  ASSUME TypeOK, NameInv, NEW c \in Sids, Handling(c) \/ HookFails(c) \/ HookRepeats(c)
  PROVE  CallsPlaced' /\ CallsStay /\ HooksName'
  <1>1. UNCHANGED call /\ hook[c].pc # "none"
    BY DEF Handling, HookLookup, HookAttempt, HookUser, HookNotif, HookFails, HookRepeats
  <1>2. CallsPlaced' /\ CallsStay
    BY <1>1, CallsUnchanged DEF NameInv
  <1>3. PICK next : /\ hook' = [hook EXCEPT ![c] = next]
                    /\ \A a \in next.todo : a \in hook[c].todo \/ (a \in Attempts /\ row[a].sid = c)
    <2>1. CASE HookLookup(c)
      <3> DEFINE found == {a \in Attempts : row[a].sid = c}
                 w == [pc |-> IF found = {} THEN "dropped" ELSE "attempt", todo |-> found]
      <3>1. hook' = [hook EXCEPT ![c] = w] /\ w.todo = found
        BY <2>1 DEF HookLookup
      <3> QED
        BY <3>1
    <2>2. CASE HookAttempt(c) \/ HookRepeats(c)
      <3>1. \E pc : hook' = [hook EXCEPT ![c].pc = pc]
        BY <2>2 DEF HookAttempt, HookRepeats
      <3> QED
        BY <3>1, HookPcMoves
    <2>3. CASE HookUser(c) \/ HookNotif(c)
      <3>1. hook' = [hook EXCEPT ![c].pc = "notif"] \/ \E a : HookNext(c, a)
        BY <2>3 DEF HookUser, HookNotif
      <3> QED
        BY <3>1, HookNextMoves, HookPcMoves
    <2>4. CASE HookFails(c)
      <3>1. PICK pc : hook' = [hook EXCEPT ![c] = [pc |-> pc, todo |-> {}]]
        BY <2>4 DEF HookFails
      <3> DEFINE w == [pc |-> pc, todo |-> {}]
      <3>2. hook' = [hook EXCEPT ![c] = w] /\ w.todo = {}
        BY <3>1
      <3> HIDE DEF w
      <3> QED
        BY <3>2
    <2> QED
      BY <2>1, <2>2, <2>3, <2>4 DEF Handling
  <1> QED
    BY <1>1, <1>2, <1>3, HookMoved

LEMMA HookNameInv ==
  ASSUME TypeOK, NameInv, NEW c \in Sids, Handling(c) \/ HookFails(c) \/ HookRepeats(c)
  PROVE  NameInv'
  <1>0. UNCHANGED <<disp, cache>>
    BY DEF Handling, HookLookup, HookAttempt, HookUser, HookNotif, HookFails, HookRepeats
  <1>1. CallsPlaced' /\ CallsStay /\ HooksName'
    BY HandlingHooksName
  (* A row is delivered by the callback of a completed call. *)
  <1>2. ASSUME NEW a \in hook[c].todo, hook[c].pc # "none", ReportOf(c) = "sent"
        PROVE  Answered(messageOf[a])'
    <2>1. call[c].state = "completed" /\ PlacedFor(c, messageOf[a])
      BY <1>2 DEF NameInv, HooksName, ReportOf
    <2> QED
      BY <1>1, <2>1, StillNamed DEF Answered
  <1>3. RowsName' /\ RowsAnswered'
    <2>1. CASE UNCHANGED <<row, notif>>
      BY <1>1, <2>1, RowsNameKept, RowsAnsweredAfter DEF NameInv
    <2>2. CASE HookAttempt(c)
      <3>1. PICK a \in hook[c].todo : UpdateVoiceCallback(a, ReportOf(c))
        BY <2>2 DEF HookAttempt, HookAt
      <3>2. PICK report : report = ReportOf(c)
        OBVIOUS
      <3> DEFINE done == report = "sent"
                 w == [row[a] EXCEPT !.status = report, !.delivered = done, !.report = report]
      <3>3. row' = [row EXCEPT ![a] = w] /\ a \in Attempts
        BY <3>1, <3>2 DEF UpdateVoiceCallback, TypeOK, Hook
      <3> HIDE DEF done
      <3>4. w.sid = row[a].sid /\ w.delivered = done
        BY <3>3 DEF TypeOK, Row
      <3> HIDE DEF w
      <3>5. row'[a] = w /\ \A b \in Attempts \ {a} : row'[b] = row[b]
        BY <3>3 DEF TypeOK
      <3>6. RowsName'
        BY <1>1, <3>4, <3>5, RowsNameKept DEF NameInv
      <3>7. done => Answered(messageOf[a])'
        BY <1>2, <2>2, <3>2 DEF done, HookAttempt
      <3>8. UNCHANGED notif
        BY <2>2 DEF HookAttempt
      <3> QED
        BY <1>1, <3>4, <3>5, <3>6, <3>7, <3>8, RowsAnsweredAfter DEF NameInv
    <2>3. CASE HookNotif(c)
      <3>1. PICK a \in hook[c].todo : UpdateNotification(a, ReportOf(c), ReportOf(c) = "sent")
        BY <2>3 DEF HookNotif, HookAt
      <3>2. PICK report, done : report = ReportOf(c) /\ done = (ReportOf(c) = "sent")
        OBVIOUS
      <3>3. a \in Attempts /\ UpdateNotification(a, report, done)
        BY <3>1, <3>2 DEF TypeOK, Hook
      <3>4. done => Answered(messageOf[a])'
        BY <1>2, <2>3, <3>2 DEF HookNotif
      <3>5. UNCHANGED row
        BY <2>3 DEF HookNotif
      <3> QED
        BY <1>1, <3>3, <3>4, <3>5, RowsNameKept, NotificationAnswered DEF NameInv
    <2> QED
      BY <2>1, <2>2, <2>3 DEF Handling, HookLookup, HookUser, HookFails, HookRepeats, rows
  <1> QED
    BY <1>0, <1>1, <1>3, CachesKept, DispatchersKept DEF NameInv

-----------------------------------------------------------------------------
LEMMA NextNameInv == TypeOK /\ LeaseInv /\ NameInv /\ [Next]_vars => NameInv'
  <1> SUFFICES ASSUME TypeOK, LeaseInv, NameInv, [Next]_vars PROVE NameInv'
    OBVIOUS
  <1>0. TakenOut
    BY DEF LeaseInv
  <1>1. ASSUME NEW a \in Attempts, Create(a) \/ LeaseExpires(a) \/ RetryDue(a) PROVE NameInv'
    BY <1>1, EnvironmentNameInv
  <1>2. ASSUME NEW d \in Dispatchers, Working(d) \/ Failing(d) PROVE NameInv'
    BY <1>0, <1>2, ClaimUpdateNameInv, LoopNameInv, ReuseNameInv, SendNameInv, MarkAttemptNameInv,
       MarkNameInv, SetbackNameInv, AfterSetbackNameInv, RestartNameInv
       DEF Working, Failing
  <1>3. ASSUME NEW c \in Sids, CallEnds(c) \/ Handling(c) \/ HookFails(c) \/ HookRepeats(c)
        PROVE  NameInv'
    BY <1>3, CallEndsNameInv, HookNameInv
  <1>4. CASE UNCHANGED vars
    <2>1. UNCHANGED <<row, notif, disp, cache, call, hook>>
      BY <1>4 DEF vars
    <2>2. CallsPlaced' /\ CallsStay
      BY <2>1, CallsUnchanged DEF NameInv
    <2> QED
      BY <2>1, <2>2, RowsNameKept, RowsAnsweredAfter, CachesKept, HooksKept, DispatchersKept
         DEF NameInv
  <1> QED
    BY <1>1, <1>2, <1>3, <1>4 DEF Next

LEMMA NameInvariant == Spec => []NameInv
  BY InitNameInv, NextNameInv, TypeCorrect, LeaseInvariant, PTL DEF Spec

(* The provider_message_id of a row is a call placed for the row, or, when *)
(* calls are collapsed, for a row of its message: in no order of claims,   *)
(* collapsed lookups, retries and restarts is a callback applied to the    *)
(* wrong recipient.                                                        *)
THEOREM RowsNameTheirCalls == Spec => []RowNamesItsCall
  <1>1. NameInv => RowNamesItsCall
    BY DEF NameInv, RowsName, RowNamesItsCall, Names, PlacedFor, Placed
  <1> QED
    BY <1>1, NameInvariant, PTL

(* A row or a notification reads delivered only if a call placed for its   *)
(* message was completed.                                                  *)
THEOREM DeliveredWasAnswered == Spec => []DeliveredMeansAnswered
  <1>1. NameInv => DeliveredMeansAnswered
    BY DEF NameInv, RowsAnswered, DeliveredMeansAnswered, Answered, PlacedFor
  <1> QED
    BY <1>1, NameInvariant, PTL

-----------------------------------------------------------------------------
(* SettledRowsAgree.  Without a fault no lease runs out and nothing is     *)
(* requeued, so a row is finished once; whoever is yet to write its other  *)
(* rows knows with what, and a callback writes what it wrote into the row. *)

NothingLost ==
  \A a \in Attempts :
    /\ late[a] = 0
    /\ row[a].status = "dispatching" => \E d \in Dispatchers : a \in InHand(d)

IdleEmpty == \A d \in Dispatchers : disp[d].pc = "idle" => disp[d].todo = {}

WritersKnow ==
  \A d \in Dispatchers :
    /\ disp[d].pc \notin {"requeueAttempt", "requeueNotif"}
    /\ disp[d].pc \in {"markUser", "markNotif", "failUser", "failNotif"} => disp[d].cur \in Attempts
    /\ disp[d].pc \in {"markUser", "markNotif"} =>
         row[disp[d].cur].status \in Outcome /\ row[disp[d].cur].sid # None
    /\ disp[d].pc \in {"failUser", "failNotif"} =>
         row[disp[d].cur].status = "failed" /\ row[disp[d].cur].sid = None

CallbacksKnow ==
  \A c \in Sids : \A a \in hook[c].todo :
    /\ row[a].sid = c
    /\ hook[c].pc \in {"user", "notif"} /\ HookAt(c, a) => row[a].report = ReportOf(c)

Reported(a, c) ==
  row[a].sid = c /\ call[c].state \in {"completed", "failed"} /\ row[a].report = ReportOf(c)

ReportsKnow ==
  \A a \in Attempts :
    /\ row[a].report # "none" => \E c \in Sids : Reported(a, c)
    /\ row[a].status = "failed" /\ row[a].sid # None => row[a].report = "failed"

At(a, pcs) == \E d \in Dispatchers : disp[d].pc \in pcs /\ disp[d].cur = a

StatusesFollow ==
  \A a \in Attempts :
    /\ row[a].status = "sent" =>
         /\ user[a] = "sent" \/ At(a, {"markUser"})
         /\ a \in EventBacked => notif[a].status = "sent" \/ At(a, {"markUser", "markNotif"})
    /\ row[a].status = "failed" /\ row[a].sid = None =>
         /\ user[a] = "failed" \/ At(a, {"failUser"})
         /\ a \in EventBacked => notif[a].status = "failed" \/ At(a, {"failUser", "failNotif"})

Agreed ==
  /\ NothingLost
  /\ IdleEmpty
  /\ WritersKnow
  /\ CallbacksKnow
  /\ ReportsKnow
  /\ StatusesFollow

AgreeInv == faults = 0 => Agreed

LEMMA InitAgreeInv == Init => AgreeInv
  <1> SUFFICES ASSUME Init PROVE Agreed
    BY DEF AgreeInv
  <1>1. NothingLost /\ StatusesFollow /\ ReportsKnow
    BY DEF Init, NothingLost, StatusesFollow, ReportsKnow
  <1>2. IdleEmpty /\ WritersKnow /\ CallbacksKnow
    BY DEF Init, IdleEmpty, WritersKnow, CallbacksKnow, Idle
  <1> QED
    BY <1>1, <1>2 DEF Agreed

LEMMA FaultAgrees == ASSUME TypeOK, Fault PROVE AgreeInv'
  BY ConstantsAssumption DEF TypeOK, Fault, AgreeInv

(* A final status is not reported differently later. *)
LEMMA ReportsStay ==
  ASSUME TypeOK, CallsStay, NEW c \in Sids, call[c].state \in {"completed", "failed"}
  PROVE  call'[c].state \in {"completed", "failed"} /\ ReportOf(c)' = ReportOf(c)
  BY DEF CallsStay, ReportOf

LEMMA NoneLost ==
  ASSUME NothingLost, UNCHANGED late,
         \A a \in Attempts : row'[a].status = "dispatching" =>
            \/ row[a].status = "dispatching" /\ \A d \in Dispatchers : a \in InHand(d) => a \in InHand(d)'
            \/ \E d \in Dispatchers : a \in InHand(d)'
  PROVE  NothingLost'
  BY DEF NothingLost

LEMMA IdleKept ==
  ASSUME TypeOK, IdleEmpty, NEW d \in Dispatchers, NEW next, disp' = [disp EXCEPT ![d] = next],
         next.pc = "idle" => next.todo = {}
  PROVE  IdleEmpty'
  BY DEF TypeOK, IdleEmpty

(* A step before any row is finished, or between two: no row is finished   *)
(* by it, nobody is at a further UPDATE, and a callback at most finds the  *)
(* rows that name its call.                                                *)
WritingPcs == {"markUser", "markNotif", "failUser", "failNotif", "requeueAttempt", "requeueNotif"}

LEMMA BetweenWrites ==
  ASSUME TypeOK, NameInv, CallsStay, Agreed, UNCHANGED <<user, notif>>,
         \A a \in Attempts :
           /\ row'[a].sid = row[a].sid /\ row'[a].report = row[a].report
           /\ \/ row'[a].status = row[a].status
              \/ row[a].status \notin Outcome /\ row'[a].status \notin Outcome,
         \A d \in Dispatchers :
           \/ disp'[d] = disp[d]
           \/ disp[d].pc \notin WritingPcs /\ disp'[d].pc \notin WritingPcs,
         \A c \in Sids :
           \/ hook'[c] = hook[c]
           \/ /\ hook'[c].pc \notin {"user", "notif"}
              /\ \A a \in hook'[c].todo : row'[a].sid = c
  PROVE  WritersKnow' /\ CallbacksKnow' /\ ReportsKnow' /\ StatusesFollow'
  <1>1. WritersKnow'
    BY DEF Agreed, WritersKnow, WritingPcs, Outcome
  <1>2. \A a \in Attempts, pcs \in SUBSET WritingPcs : At(a, pcs) => At(a, pcs)'
    BY DEF At, WritingPcs
  <1>3. StatusesFollow'
    <2>1. \A a \in Attempts : /\ At(a, {"markUser"}) => At(a, {"markUser"})'
                              /\ At(a, {"markUser", "markNotif"}) => At(a, {"markUser", "markNotif"})'
                              /\ At(a, {"failUser"}) => At(a, {"failUser"})'
                              /\ At(a, {"failUser", "failNotif"}) => At(a, {"failUser", "failNotif"})'
      BY <1>2 DEF WritingPcs
    <2> QED
      BY <2>1 DEF Agreed, StatusesFollow, Outcome
  <1>4. ReportsKnow'
    <2>1. \A a \in Attempts, c \in Sids : Reported(a, c) => Reported(a, c)'
      BY ReportsStay DEF Reported
    <2> QED
      BY <2>1 DEF Agreed, ReportsKnow, Outcome
  <1>5. CallbacksKnow'
    <2> SUFFICES ASSUME NEW c \in Sids, NEW a \in hook'[c].todo, hook'[c] = hook[c]
                 PROVE  /\ row'[a].sid = c
                        /\ hook'[c].pc \in {"user", "notif"} /\ HookAt(c, a)' =>
                             row'[a].report = ReportOf(c)'
      BY DEF CallbacksKnow
    <2>1. a \in Attempts
      BY DEF TypeOK, Hook
    <2>2. hook[c].pc \in {"user", "notif"} => ReportOf(c)' = ReportOf(c)
      BY ReportsStay DEF NameInv, HooksName
    <2> QED
      BY <2>1, <2>2 DEF Agreed, CallbacksKnow, HookAt
  <1> QED
    BY <1>1, <1>3, <1>4, <1>5

LEMMA CreateAgrees ==
  ASSUME TypeOK, NameInv, Agreed, NEW a \in Attempts, Create(a) \/ RetryDue(a)
  PROVE  Agreed'
  <1>0. UNCHANGED <<user, notif, disp, call, hook, late>>
    BY DEF Create, RetryDue, history
  <1>1. CallsStay
    BY <1>0, CallsUnchanged DEF NameInv
  <1>2. PICK w : /\ row' = [row EXCEPT ![a] = w] /\ w.status = "queued"
                 /\ w.sid = row[a].sid /\ w.report = row[a].report
    <2> DEFINE created == [row[a] EXCEPT !.status = "queued"]
               due == [row[a] EXCEPT !.due = TRUE]
    <2>1. row' = [row EXCEPT ![a] = created] \/ (row[a].status = "queued" /\ row' = [row EXCEPT ![a] = due])
      BY DEF Create, RetryDue
    <2>2. /\ created.status = "queued" /\ due.status = row[a].status
          /\ created.sid = row[a].sid /\ due.sid = row[a].sid
          /\ created.report = row[a].report /\ due.report = row[a].report
      BY DEF TypeOK, Row
    <2> QED
      BY <2>1, <2>2
  <1>3. row'[a] = w /\ \A b \in Attempts \ {a} : row'[b] = row[b]
    BY <1>2 DEF TypeOK
  <1>4. row[a].status \in {"absent", "queued"}
    BY DEF Create, RetryDue
  <1>5. NothingLost'
    BY <1>0, <1>2, <1>3, NoneLost DEF Agreed, InHand
  <1>a. IdleEmpty'
    BY <1>0 DEF Agreed, IdleEmpty
  <1>6. WritersKnow' /\ CallbacksKnow' /\ ReportsKnow' /\ StatusesFollow'
    BY <1>0, <1>1, <1>2, <1>3, <1>4, BetweenWrites DEF Outcome
  <1> QED
    BY <1>5, <1>6, <1>a DEF Agreed

(* No lease runs out: the row is in the hand of a dispatcher, which would  *)
(* be slow, and that is a fault.                                           *)
LEMMA LeaseExpiresAgrees ==
  ASSUME TypeOK, Agreed, NEW a \in Attempts, LeaseExpires(a)
  PROVE  AgreeInv'
  <1>1. \E d \in Dispatchers : a \in InHand(d)
    BY DEF Agreed, NothingLost, LeaseExpires
  <1> QED
    BY <1>1, FaultAgrees DEF LeaseExpires

LEMMA ClaimUpdateAgrees ==
  ASSUME TypeOK, NameInv, Agreed, NEW d \in Dispatchers, ClaimUpdate(d)
  PROVE  Agreed'
  <1> DEFINE picked == FirstOf({a \in Attempts : Claimable(a)}, ClaimLimit)
  <1>1. /\ disp' = [disp EXCEPT ![d] = [Idle EXCEPT !.pc = "select", !.todo = picked]]
        /\ row' = [a \in Attempts |->
                     IF a \in picked
                     THEN [row[a] EXCEPT !.status = "dispatching", !.lease = d, !.expired = FALSE]
                     ELSE row[a]]
        /\ UNCHANGED <<user, notif, call, hook, late>>
        /\ disp[d].pc = "idle"
    BY DEF ClaimUpdate, history
  <1>2. \A a \in picked : Claimable(a)
    BY DEF FirstOf
  <1> HIDE DEF picked
  <1>3. CallsStay
    BY <1>1, CallsUnchanged DEF NameInv
  <1>4. \A a \in Attempts : /\ row'[a].sid = row[a].sid /\ row'[a].report = row[a].report
                            /\ IF a \in picked THEN row'[a].status = "dispatching" ELSE row'[a] = row[a]
    <2> SUFFICES ASSUME NEW a \in Attempts
                 PROVE  /\ row'[a].sid = row[a].sid /\ row'[a].report = row[a].report
                        /\ IF a \in picked THEN row'[a].status = "dispatching" ELSE row'[a] = row[a]
      OBVIOUS
    <2>1. row[a] \in Row
      BY DEF TypeOK
    <2>2. row'[a] = IF a \in picked
                    THEN [row[a] EXCEPT !.status = "dispatching", !.lease = d, !.expired = FALSE]
                    ELSE row[a]
      BY <1>1
    <2>3. CASE a \in picked
      <3>1. row'[a] = [row[a] EXCEPT !.status = "dispatching", !.lease = d, !.expired = FALSE]
        BY <2>2, <2>3
      <3> QED
        BY <2>1, <2>3, <3>1 DEF Row
    <2>4. CASE a \notin picked
      BY <2>2, <2>4
    <2> QED
      BY <2>3, <2>4
  <1>5. \A a \in picked : row[a].status \notin Outcome
    BY <1>2 DEF Claimable, Outcome
  <1>6. PICK next : /\ disp' = [disp EXCEPT ![d] = next]
                    /\ next.pc = "select" /\ next.todo = picked
    <2> DEFINE w == [Idle EXCEPT !.pc = "select", !.todo = picked]
    <2>1. disp' = [disp EXCEPT ![d] = w] /\ w.pc = "select" /\ w.todo = picked
      BY <1>1 DEF Idle
    <2> QED
      BY <2>1
  <1>7. disp'[d] = next /\ \A e \in Dispatchers \ {d} : disp'[e] = disp[e]
    BY <1>6 DEF TypeOK
  <1>8. /\ InHand(d)' = picked /\ \A e \in Dispatchers \ {d} : InHand(e)' = InHand(e)
        /\ InHand(d) = disp[d].todo
    BY <1>1, <1>6, <1>7 DEF InHand
  <1>9. NothingLost'
    <2> SUFFICES ASSUME NEW a \in Attempts, row'[a].status = "dispatching"
                 PROVE  \E e \in Dispatchers : a \in InHand(e)'
      BY <1>1 DEF Agreed, NothingLost
    <2>1. CASE a \in picked
      BY <1>8, <2>1
    <2>2. CASE a \notin picked
      <3>1. PICK e \in Dispatchers : a \in InHand(e)
        BY <1>4, <2>2 DEF Agreed, NothingLost
      <3>2. e # d
        <4>1. disp[d].todo = {}
          BY <1>1 DEF Agreed, IdleEmpty
        <4> QED
          BY <1>8, <3>1, <4>1
      <3> QED
        BY <1>8, <3>1, <3>2
    <2> QED
      BY <2>1, <2>2
  <1>10. WritersKnow' /\ CallbacksKnow' /\ ReportsKnow' /\ StatusesFollow'
    BY <1>1, <1>3, <1>4, <1>5, <1>6, <1>7, BetweenWrites DEF WritingPcs, Outcome
  <1>11. IdleEmpty'
    BY <1>6, IdleKept DEF Agreed
  <1> QED
    BY <1>9, <1>10, <1>11 DEF Agreed

(* The loop before the outcome is known: the row stays in hand. *)
LEMMA LoopAgrees ==
  ASSUME TypeOK, LeaseInv, NameInv, Agreed, NEW d \in Dispatchers,
         \/ ClaimSelect(d) \/ StartCall(d) \/ ReuseCall(d) \/ SendOk(d)
         \/ SendRefused(d) /\ UNCHANGED call
  PROVE  Agreed'
  <1>0. UNCHANGED <<row, user, notif, hook, late>>
    BY DEF ClaimSelect, StartCall, ReuseCall, SendOk, SendRefused, rows, history
  <1>1. PICK next : /\ disp' = [disp EXCEPT ![d] = next]
                    /\ next.pc \notin WritingPcs
                    /\ next.pc = "idle" => next.todo = {}
                    /\ InHand(d) \subseteq
                         next.todo \cup (IF next.pc \in WritePcs THEN {next.cur} ELSE {})
    <2>1. CASE ClaimSelect(d)
      <3> DEFINE held == {a \in disp[d].todo : LeaseHeldBy(d, a)}
                 w == IF held = {} THEN Idle
                      ELSE [Idle EXCEPT !.pc = "loop", !.batch = held, !.todo = held]
      <3>1. InHand(d) = disp[d].todo
        BY <2>1 DEF ClaimSelect, InHand
      <3>2. held = disp[d].todo
        <4>1. \A a \in disp[d].todo : late[a] = 0
          BY DEF Agreed, NothingLost, TypeOK, Dispatcher
        <4> QED
          BY <3>1, <4>1 DEF LeaseInv, WorkedUnderLease, LeaseHeldBy
      <3>3. disp' = [disp EXCEPT ![d] = w]
        BY <2>1 DEF ClaimSelect
      <3> HIDE DEF held
      <3>4. w.pc \in {"idle", "loop"} /\ w.todo = held /\ (w.pc = "idle" => held = {})
        BY DEF Idle
      <3> HIDE DEF w
      <3> QED
        BY <3>1, <3>2, <3>3, <3>4 DEF WritingPcs
    <2>2. CASE StartCall(d) \/ ReuseCall(d)
      <3>0. PICK a \in disp[d].todo : \E pc \in {"send", "markAttempt"} : \E known : TakeUp(d, a, pc, known)
        BY <2>2 DEF StartCall, ReuseCall, IsNext
      <3>1. PICK pc \in {"send", "markAttempt"} : \E known : TakeUp(d, a, pc, known)
        BY <3>0
      <3>2. PICK known : TakeUp(d, a, pc, known)
        BY <3>1
      <3> DEFINE w == [pc |-> pc, batch |-> disp[d].batch, todo |-> disp[d].todo \ {a},
                       cur |-> a, sid |-> known.sid, delivered |-> known.delivered]
      <3>3. disp' = [disp EXCEPT ![d] = w]
        BY <3>2 DEF TakeUp
      <3>4. w.pc = pc /\ w.todo = disp[d].todo \ {a} /\ w.cur = a
        OBVIOUS
      <3>5. InHand(d) = disp[d].todo
        BY <2>2 DEF StartCall, ReuseCall, InHand
      <3> HIDE DEF w
      <3> QED
        BY <3>3, <3>4, <3>5 DEF WritingPcs, WritePcs
    <2>3. CASE SendOk(d) \/ SendRefused(d)
      <3>1. PICK w : /\ disp' = [disp EXCEPT ![d] = w]
                     /\ w.pc \in {"markAttempt", "failAttempt"} /\ w.todo = disp[d].todo
                     /\ w.cur = disp[d].cur
        <4>1. CASE SendOk(d)
          <5>1. PICK c \in Sids :
                  disp' = [disp EXCEPT ![d] = [disp[d] EXCEPT !.pc = "markAttempt", !.sid = c]]
            BY <4>1 DEF SendOk
          <5> DEFINE w == [disp[d] EXCEPT !.pc = "markAttempt", !.sid = c]
          <5>2. w.pc = "markAttempt" /\ w.todo = disp[d].todo /\ w.cur = disp[d].cur
            BY DEF TypeOK, Dispatcher
          <5> QED
            BY <5>1, <5>2
        <4>2. CASE SendRefused(d)
          <5> DEFINE w == [disp[d] EXCEPT !.pc = "failAttempt"]
          <5>1. disp' = [disp EXCEPT ![d] = w]
            BY <4>2 DEF SendRefused, Goto
          <5>2. w.pc = "failAttempt" /\ w.todo = disp[d].todo /\ w.cur = disp[d].cur
            BY DEF TypeOK, Dispatcher
          <5> QED
            BY <5>1, <5>2
        <4> QED
          BY <2>3, <4>1, <4>2
      <3>2. InHand(d) = disp[d].todo \cup {disp[d].cur}
        BY <2>3 DEF SendOk, SendRefused, InHand
      <3> QED
        BY <3>1, <3>2 DEF WritingPcs, WritePcs
    <2> QED
      BY <2>1, <2>2, <2>3
  <1>2. disp'[d] = next /\ \A e \in Dispatchers \ {d} : disp'[e] = disp[e]
    BY <1>1 DEF TypeOK
  <1>3. \A e \in Dispatchers : \A a : a \in InHand(e) => a \in InHand(e)'
    BY <1>1, <1>2 DEF InHand, WritePcs
  <1>4. NothingLost'
    BY <1>0, <1>3, NoneLost DEF Agreed
  <1>5. CallsStay
    <2>1. UNCHANGED call \/ \E c \in Sids, a \in Attempts : Place(c, a)
      BY DEF ClaimSelect, StartCall, ReuseCall, SendOk, LeaseInv, TakenOut, WritePcs
    <2> QED
      BY <2>1, CallsUnchanged, PlaceStays DEF NameInv
  <1>6. disp[d].pc \notin WritingPcs
    BY DEF ClaimSelect, StartCall, ReuseCall, SendOk, SendRefused, WritingPcs
  <1>7. WritersKnow' /\ CallbacksKnow' /\ ReportsKnow' /\ StatusesFollow'
    BY <1>0, <1>1, <1>2, <1>5, <1>6, BetweenWrites
  <1>8. IdleEmpty'
    BY <1>1, IdleKept DEF Agreed
  <1> QED
    BY <1>4, <1>7, <1>8 DEF Agreed

(* A call that ends, and a callback that finds its rows. *)
LEMMA CallbackAgrees ==
  ASSUME TypeOK, NameInv, Agreed, NEW c \in Sids, CallEnds(c) \/ HookLookup(c)
  PROVE  Agreed'
  <1>0. UNCHANGED <<row, user, notif, disp, late>>
    BY DEF CallEnds, HookLookup, rows, history
  <1>1. NothingLost' /\ IdleEmpty'
    BY <1>0 DEF Agreed, NothingLost, IdleEmpty, InHand
  <1>2. CallsStay
    <2>1. CASE CallEnds(c)
      <3>1. PICK outcome : call' = [call EXCEPT ![c].state = outcome]
        BY <2>1 DEF CallEnds
      <3>2. call[c].state = "live"
        BY <2>1 DEF CallEnds
      <3> QED
        BY <3>1, <3>2 DEF CallsStay, TypeOK, CallRecord
    <2>2. CASE HookLookup(c)
      BY <2>2, CallsUnchanged DEF NameInv, HookLookup
    <2> QED
      BY <2>1, <2>2
  <1>3. PICK next : /\ hook' = [hook EXCEPT ![c] = next]
                    /\ next.pc \notin {"user", "notif"}
                    /\ \A a \in next.todo : row[a].sid = c
    <2>1. CASE CallEnds(c)
      <3> DEFINE w == [pc |-> "pending", todo |-> {}]
      <3>1. hook' = [hook EXCEPT ![c] = w] /\ w.pc = "pending" /\ w.todo = {}
        BY <2>1 DEF CallEnds
      <3> HIDE DEF w
      <3> QED
        BY <3>1
    <2>2. CASE HookLookup(c)
      <3> DEFINE found == {a \in Attempts : row[a].sid = c}
                 w == [pc |-> IF found = {} THEN "dropped" ELSE "attempt", todo |-> found]
      <3>1. /\ hook' = [hook EXCEPT ![c] = w]
            /\ w.pc \in {"dropped", "attempt"} /\ w.todo = found
        BY <2>2 DEF HookLookup
      <3> HIDE DEF w
      <3> QED
        BY <3>1
    <2> QED
      BY <2>1, <2>2
  <1>4. hook'[c] = next /\ \A s \in Sids \ {c} : hook'[s] = hook[s]
    BY <1>3 DEF TypeOK
  <1>5. WritersKnow' /\ CallbacksKnow' /\ ReportsKnow' /\ StatusesFollow'
    BY <1>0, <1>2, <1>3, <1>4, BetweenWrites
  <1> QED
    BY <1>1, <1>5 DEF Agreed

(* The row is finished, and the dispatcher goes on to its other rows. *)
LEMMA FinishAgrees ==
  ASSUME TypeOK, LeaseInv, NameInv, Agreed, NEW d \in Dispatchers, MarkAttempt(d) \/ FailAttempt(d)
  PROVE  Agreed'
  <1>0. UNCHANGED <<user, notif, call, hook, late>>
    BY DEF MarkAttempt, FailAttempt, history
  <1>1. PICK a \in Attempts : a = disp[d].cur /\ a \in InHand(d) /\ a \notin disp[d].todo
    BY DEF MarkAttempt, FailAttempt, LeaseInv, TakenOut, WritePcs, InHand
  <1>2. /\ \A e \in Dispatchers \ {d} : a \notin InHand(e)
        /\ row[a].status = "dispatching" /\ row[a].report = "none"
        /\ \A c \in Sids : a \notin hook[c].todo
    BY <1>1, InHandIsFresh DEF Agreed, NothingLost
  <1>3. PICK w : /\ row' = [row EXCEPT ![a] = w]
                 /\ w.report = "none"
                 /\ \/ w.status = "sent" /\ w.sid # None /\ MarkAttempt(d)
                    \/ w.status = "failed" /\ w.sid = None /\ FailAttempt(d)
    <2> DEFINE sent == [row[a] EXCEPT !.status = "sent", !.sid = disp[d].sid, !.lease = None,
                                      !.expired = FALSE, !.delivered = disp[d].delivered]
               failed == [row[a] EXCEPT !.status = "failed", !.sid = None, !.lease = None,
                                        !.expired = FALSE, !.delivered = FALSE]
    <2>1. /\ MarkAttempt(d) => row' = [row EXCEPT ![a] = sent]
          /\ FailAttempt(d) => row' = [row EXCEPT ![a] = failed]
      BY <1>1 DEF MarkAttempt, FailAttempt, UpdateStatus
    <2>2. /\ sent.status = "sent" /\ sent.sid = disp[d].sid /\ sent.report = "none"
          /\ failed.status = "failed" /\ failed.sid = None /\ failed.report = "none"
      BY <1>2 DEF TypeOK, Row
    <2>3. MarkAttempt(d) => disp[d].sid # None
      BY ConstantsAssumption DEF MarkAttempt, NameInv, DispatchersName, MarkPcs, Names, PlacedFor
    <2> HIDE DEF sent, failed
    <2> QED
      BY <2>1, <2>2, <2>3
  <1>4. row'[a] = w /\ \A b \in Attempts \ {a} : row'[b] = row[b]
    BY <1>3 DEF TypeOK
  <1>5. PICK next : /\ disp' = [disp EXCEPT ![d] = next]
                    /\ next.pc = (IF MarkAttempt(d) THEN "markUser" ELSE "failUser")
                    /\ next.cur = a /\ next.todo = disp[d].todo
    <2>1. PICK pc : Goto(d, pc) /\ pc = (IF MarkAttempt(d) THEN "markUser" ELSE "failUser")
      BY DEF MarkAttempt, FailAttempt
    <2> DEFINE v == [disp[d] EXCEPT !.pc = pc]
    <2>2. disp' = [disp EXCEPT ![d] = v]
      BY <2>1 DEF Goto
    <2>3. v.pc = pc /\ v.cur = a /\ v.todo = disp[d].todo
      BY <1>1 DEF TypeOK, Dispatcher
    <2> HIDE DEF v
    <2> QED
      BY <2>1, <2>2, <2>3
  <1>6. disp'[d] = next /\ \A e \in Dispatchers \ {d} : disp'[e] = disp[e]
    BY <1>5 DEF TypeOK
  <1>a. ~(MarkAttempt(d) /\ FailAttempt(d))
    BY DEF MarkAttempt, FailAttempt
  <1>b. disp[d].pc \in {"markAttempt", "failAttempt"}
    BY DEF MarkAttempt, FailAttempt
  <1>7. NothingLost'
    <2>1. \A b \in Attempts \ {a}, e \in Dispatchers : b \in InHand(e) => b \in InHand(e)'
      BY <1>1, <1>5, <1>6 DEF InHand
    <2> QED
      BY <1>0, <1>3, <1>4, <2>1, NoneLost DEF Agreed
  <1>8. IdleEmpty'
    BY <1>5, IdleKept DEF Agreed
  <1>9. WritersKnow'
    <2>1. \A e \in Dispatchers \ {d} :
            disp[e].pc \in {"markUser", "markNotif", "failUser", "failNotif"} =>
              disp[e].cur \in Attempts \ {a}
      BY <1>2 DEF Agreed, WritersKnow, Outcome
    <2> QED
      BY <1>3, <1>4, <1>5, <1>6, <1>a, <2>1 DEF Agreed, WritersKnow, Outcome
  <1>10. CallbacksKnow'
    <2>1. \A c \in Sids : \A b \in hook[c].todo : b \in Attempts \ {a}
      BY <1>2 DEF TypeOK, Hook
    <2> QED
      BY <1>0, <1>4, <2>1 DEF Agreed, CallbacksKnow, HookAt, ReportOf
  <1>11. ReportsKnow'
    BY <1>0, <1>3, <1>4 DEF Agreed, ReportsKnow, Reported, ReportOf
  <1>12. StatusesFollow'
    <2>1. \A b \in Attempts :
             /\ At(b, {"markUser"}) => At(b, {"markUser"})'
             /\ At(b, {"markUser", "markNotif"}) => At(b, {"markUser", "markNotif"})'
             /\ At(b, {"failUser"}) => At(b, {"failUser"})'
             /\ At(b, {"failUser", "failNotif"}) => At(b, {"failUser", "failNotif"})'
      BY <1>b, <1>6 DEF At
    <2>2. /\ w.status = "sent" => At(a, {"markUser"})' /\ At(a, {"markUser", "markNotif"})'
          /\ w.status = "failed" => At(a, {"failUser"})' /\ At(a, {"failUser", "failNotif"})'
      BY <1>3, <1>5, <1>6, <1>a DEF At
    <2> QED
      BY <1>0, <1>4, <2>1, <2>2 DEF Agreed, StatusesFollow
  <1> QED
    BY <1>7, <1>8, <1>9, <1>10, <1>11, <1>12 DEF Agreed

(* users_messages and notifications follow. *)
LEMMA FollowAgrees ==
  ASSUME TypeOK, Agreed, NEW d \in Dispatchers,
         MarkUser(d) \/ MarkNotif(d) \/ FailUser(d) \/ FailNotif(d)
  PROVE  Agreed'
  <1>0. /\ UNCHANGED <<row, call, hook, late>>
        /\ disp[d].pc \in {"markUser", "markNotif", "failUser", "failNotif"}
    BY DEF MarkUser, MarkNotif, FailUser, FailNotif, history
  <1>1. PICK a \in Attempts : a = disp[d].cur
    BY <1>0 DEF Agreed, WritersKnow
  <1>2. PICK next : /\ disp' = [disp EXCEPT ![d] = next] /\ next.todo = disp[d].todo
                    /\ \/ next.pc \in {"idle", "loop"} /\ (next.pc = "idle" => next.todo = {})
                       \/ next.pc = "markNotif" /\ next.cur = a /\ MarkUser(d)
                       \/ next.pc = "failNotif" /\ next.cur = a /\ FailUser(d)
                    /\ MarkUser(d) /\ a \in EventBacked => next.pc = "markNotif"
                    /\ FailUser(d) /\ a \in EventBacked => next.pc = "failNotif"
    <2> DEFINE v(pc) == [disp[d] EXCEPT !.pc = pc]
               u == IF disp[d].todo = {} THEN Idle
                    ELSE [disp[d] EXCEPT !.pc = "loop", !.cur = None, !.sid = None, !.delivered = FALSE]
    <2>1. \A pc : v(pc).pc = pc /\ v(pc).cur = a /\ v(pc).todo = disp[d].todo
      BY <1>1 DEF TypeOK, Dispatcher
    <2>2. u.pc \in {"idle", "loop"} /\ u.todo = disp[d].todo /\ (u.pc = "idle" => u.todo = {})
      BY DEF Idle, TypeOK, Dispatcher
    <2>3. \/ disp' = [disp EXCEPT ![d] = u]
             /\ ~(MarkUser(d) /\ a \in EventBacked) /\ ~(FailUser(d) /\ a \in EventBacked)
          \/ disp' = [disp EXCEPT ![d] = v("markNotif")] /\ MarkUser(d) /\ ~FailUser(d)
          \/ disp' = [disp EXCEPT ![d] = v("failNotif")] /\ FailUser(d) /\ ~MarkUser(d)
      BY <1>1 DEF MarkUser, MarkNotif, FailUser, FailNotif, Continue, Goto
    <2> HIDE DEF u, v
    <2> QED
      BY <2>1, <2>2, <2>3
  <1>3. disp'[d] = next /\ \A e \in Dispatchers \ {d} : disp'[e] = disp[e]
    BY <1>2 DEF TypeOK
  <1>4. NothingLost'
    <2>1. \A e \in Dispatchers : \A b : b \in InHand(e) => b \in InHand(e)'
      BY <1>0, <1>2, <1>3 DEF InHand
    <2> QED
      BY <1>0, <2>1, NoneLost DEF Agreed
  <1>5. IdleEmpty'
    BY <1>2, IdleKept DEF Agreed
  <1>6. WritersKnow'
    BY <1>0, <1>1, <1>2, <1>3 DEF Agreed, WritersKnow, MarkUser, FailUser
  <1>7. CallbacksKnow' /\ ReportsKnow'
    BY <1>0 DEF Agreed, CallbacksKnow, HookAt, ReportsKnow, Reported, ReportOf
  <1>8. StatusesFollow'
    <2>1. \A b \in Attempts \ {a} : \A pcs : At(b, pcs) => At(b, pcs)'
      BY <1>1, <1>3 DEF At
    <2>2. \A b \in Attempts \ {a} : user'[b] = user[b] /\ notif'[b] = notif[b]
      BY <1>1 DEF MarkUser, MarkNotif, FailUser, FailNotif, UpdateNotification, TypeOK
    <2>3. \A pcs : At(a, pcs) /\ disp[d].pc \notin pcs => At(a, pcs)'
      BY <1>3 DEF At
    <2>4. CASE MarkUser(d)
      <3>1. user'[a] = "sent" /\ notif'[a] = notif[a]
        BY <1>1, <2>4 DEF MarkUser, TypeOK
      <3>2. a \in EventBacked => At(a, {"markUser", "markNotif"})'
        BY <1>2, <1>3, <2>4 DEF At
      <3>3. row[a].sid # None
        BY <1>1, <2>4 DEF Agreed, WritersKnow, MarkUser
      <3> QED
        BY <1>0, <2>1, <2>2, <3>1, <3>2, <3>3 DEF Agreed, StatusesFollow
    <2>5. CASE MarkNotif(d)
      <3>1. user'[a] = user[a] /\ notif'[a].status = "sent"
        BY <1>1, <2>5 DEF MarkNotif, UpdateNotification, TypeOK
      <3>2. At(a, {"markUser"}) => At(a, {"markUser"})'
        BY <2>3, <2>5 DEF MarkNotif
      <3>3. row[a].sid # None
        BY <1>1, <2>5 DEF Agreed, WritersKnow, MarkNotif
      <3> QED
        BY <1>0, <2>1, <2>2, <3>1, <3>2, <3>3 DEF Agreed, StatusesFollow
    <2>6. CASE FailUser(d)
      <3>1. user'[a] = "failed" /\ notif'[a] = notif[a]
        BY <1>1, <2>6 DEF FailUser, TypeOK
      <3>2. a \in EventBacked => At(a, {"failUser", "failNotif"})'
        BY <1>2, <1>3, <2>6 DEF At
      <3>3. row[a].status = "failed"
        BY <1>1, <2>6 DEF Agreed, WritersKnow, FailUser
      <3> QED
        BY <1>0, <2>1, <2>2, <3>1, <3>2, <3>3 DEF Agreed, StatusesFollow
    <2>7. CASE FailNotif(d)
      <3>1. user'[a] = user[a] /\ notif'[a].status = "failed"
        BY <1>1, <2>7 DEF FailNotif, UpdateNotification, TypeOK
      <3>2. At(a, {"failUser"}) => At(a, {"failUser"})'
        BY <2>3, <2>7 DEF FailNotif
      <3>3. row[a].status = "failed"
        BY <1>1, <2>7 DEF Agreed, WritersKnow, FailNotif
      <3> QED
        BY <1>0, <2>1, <2>2, <3>1, <3>2, <3>3 DEF Agreed, StatusesFollow
    <2> QED
      BY <2>4, <2>5, <2>6, <2>7
  <1> QED
    BY <1>4, <1>5, <1>6, <1>7, <1>8 DEF Agreed

(* The callback finishes the row the way Twilio reported the one call the  *)
(* row names, which a sent row was marked with and a failed row lost.      *)
LEMMA HookAttemptAgrees ==
  ASSUME TypeOK, LeaseInv, NameInv, Agreed, NEW c \in Sids, HookAttempt(c)
  PROVE  Agreed'
  <1>0. /\ UNCHANGED <<user, notif, disp, call, late>> /\ hook[c].pc = "attempt"
        /\ hook' = [hook EXCEPT ![c] = [hook[c] EXCEPT !.pc = "user"]]
    BY DEF HookAttempt, history
  <1>1. PICK a \in hook[c].todo : HookAt(c, a) /\ UpdateVoiceCallback(a, ReportOf(c))
    BY DEF HookAttempt, HookAt
  <1>2. PICK report \in Outcome : report = ReportOf(c)
    BY DEF ReportOf, Outcome
  <1>3. /\ a \in Attempts /\ row[a].sid = c /\ row[a].status \in Outcome
        /\ call[c].state \in {"completed", "failed"}
    <2>1. a \in Attempts
      BY DEF TypeOK, Hook
    <2> QED
      BY <1>0, <2>1 DEF Agreed, CallbacksKnow, NothingLost, LeaseInv, CalledRowsFinished,
                        NameInv, HooksName
  <1>4. c # None
    BY ConstantsAssumption
  <1>5. /\ \A b \in Attempts \ {a} : row'[b] = row[b]
        /\ row'[a].status = report /\ row'[a].report = report /\ row'[a].sid = c
    <2> DEFINE done == report = "sent"
               w == [row[a] EXCEPT !.status = report, !.delivered = done, !.report = report]
    <2>1. row' = [row EXCEPT ![a] = w]
      BY <1>1, <1>2 DEF UpdateVoiceCallback
    <2> HIDE DEF done
    <2>2. w.status = report /\ w.report = report /\ w.sid = c
      BY <1>3 DEF TypeOK, Row
    <2> HIDE DEF w
    <2> QED
      BY <1>3, <2>1, <2>2 DEF TypeOK
  <1>6. /\ hook'[c].pc = "user" /\ hook'[c].todo = hook[c].todo
        /\ \A s \in Sids \ {c} : hook'[s] = hook[s]
    BY <1>0 DEF TypeOK, Hook
  <1>7. ReportOf(c)' = report /\ \A s \in Sids : ReportOf(s)' = ReportOf(s)
    BY <1>0, <1>2 DEF ReportOf
  <1>8. NothingLost' /\ IdleEmpty'
    BY <1>0, <1>2, <1>5 DEF Agreed, NothingLost, IdleEmpty, InHand, Outcome
  <1>9. WritersKnow'
    BY <1>0, <1>2, <1>3, <1>4, <1>5 DEF Agreed, WritersKnow
  <1>10. CallbacksKnow'
    <2>1. ASSUME NEW b \in hook'[c].todo
          PROVE  row'[b].sid = c /\ (HookAt(c, b)' => row'[b].report = ReportOf(c)')
      <3>1. b \in Attempts /\ row[b].sid = c
        BY <1>6 DEF Agreed, CallbacksKnow, TypeOK, Hook
      <3>2. HookAt(c, b)' => b <= a /\ a <= b
        BY <1>1, <1>6, <3>1 DEF HookAt
      <3>3. HookAt(c, b)' => b = a
        BY <1>3, <3>1, <3>2, ConstantsAssumption
      <3> QED
        BY <1>5, <1>7, <3>1, <3>3
    <2>2. ASSUME NEW s \in Sids, s # c, NEW b \in hook'[s].todo
          PROVE  /\ row'[b].sid = s
                 /\ hook'[s].pc \in {"user", "notif"} /\ HookAt(s, b)' => row'[b].report = ReportOf(s)'
      <3>1. b \in Attempts /\ row[b].sid = s
        BY <1>6, <2>2 DEF Agreed, CallbacksKnow, TypeOK, Hook
      <3>2. row'[b] = row[b]
        BY <1>3, <1>5, <2>2, <3>1
      <3> QED
        BY <1>6, <1>7, <2>2, <3>2 DEF Agreed, CallbacksKnow, HookAt
    <2> QED
      BY <1>6, <2>1, <2>2 DEF CallbacksKnow
  <1>11. ReportsKnow'
    <2>1. Reported(a, c)'
      BY <1>0, <1>3, <1>5, <1>7 DEF Reported
    <2>2. \A b \in Attempts \ {a}, s \in Sids : Reported(b, s) => Reported(b, s)'
      BY <1>0, <1>5, <1>7 DEF Reported
    <2> QED
      BY <1>3, <1>5, <2>1, <2>2 DEF Agreed, ReportsKnow
  <1>12. StatusesFollow'
    <2>1. report = "sent" => row[a].status = "sent"
      <3> SUFFICES ASSUME report = "sent", row[a].status = "failed" PROVE FALSE
        BY <1>3 DEF Outcome
      <3>1. PICK s \in Sids : Reported(a, s) /\ row[a].report = "failed"
        BY <1>3, <1>4 DEF Agreed, ReportsKnow
      <3> QED
        BY <1>2, <1>3, <3>1 DEF Reported
    <2>2. \A b, pcs : At(b, pcs)' <=> At(b, pcs)
      BY <1>0 DEF At
    <2> QED
      BY <1>0, <1>4, <1>5, <2>1, <2>2 DEF Agreed, StatusesFollow
  <1> QED
    BY <1>8, <1>9, <1>10, <1>11, <1>12 DEF Agreed

(* It writes into the other rows what it wrote into the row. *)
LEMMA HookFollowsAgrees ==
  ASSUME TypeOK, LeaseInv, Agreed, NEW c \in Sids, HookUser(c) \/ HookNotif(c)
  PROVE  Agreed'
  <1>0. UNCHANGED <<row, disp, call, late>> /\ hook[c].pc \in {"user", "notif"}
    BY DEF HookUser, HookNotif, history
  <1>1. PICK a \in hook[c].todo :
          /\ HookAt(c, a)
          /\ \/ hook' = [hook EXCEPT ![c].pc = "notif"]
             \/ HookNext(c, a)
          /\ \/ user' = [user EXCEPT ![a] = ReportOf(c)] /\ UNCHANGED notif
             \/ UNCHANGED user /\ UpdateNotification(a, ReportOf(c), ReportOf(c) = "sent")
    BY DEF HookUser, HookNotif, HookAt
  <1>2. PICK report \in Outcome : report = ReportOf(c)
    BY DEF ReportOf, Outcome
  <1>3. a \in Attempts /\ row[a].status = report /\ row[a].sid # None
    <2>1. a \in Attempts
      BY DEF TypeOK, Hook
    <2>2. row[a].report = report /\ row[a].sid = c
      BY <1>0, <1>1, <1>2 DEF Agreed, CallbacksKnow
    <2> QED
      BY <1>2, <2>1, <2>2, ConstantsAssumption
         DEF Agreed, NothingLost, LeaseInv, ReportStands, Outcome
  <1>4. NothingLost' /\ IdleEmpty' /\ WritersKnow' /\ ReportsKnow'
    BY <1>0 DEF Agreed, NothingLost, IdleEmpty, WritersKnow, ReportsKnow, Reported, ReportOf, InHand
  <1>5. CallbacksKnow'
    <2>1. PICK next : /\ hook' = [hook EXCEPT ![c] = next]
                      /\ next.todo \subseteq hook[c].todo
                      /\ next.pc \in {"user", "notif"} => next.todo = hook[c].todo
      <3>1. CASE hook' = [hook EXCEPT ![c].pc = "notif"]
        <4> DEFINE w == [hook[c] EXCEPT !.pc = "notif"]
        <4>1. hook' = [hook EXCEPT ![c] = w] /\ w.todo = hook[c].todo
          BY <3>1 DEF TypeOK, Hook
        <4> HIDE DEF w
        <4> QED
          BY <4>1
      <3>2. CASE HookNext(c, a)
        <4> DEFINE rest == hook[c].todo \ {a}
                   w == [pc |-> IF rest = {} THEN "done" ELSE "attempt", todo |-> rest]
        <4>1. /\ hook' = [hook EXCEPT ![c] = w] /\ w.todo \subseteq hook[c].todo
              /\ w.pc \in {"done", "attempt"}
          BY <3>2 DEF HookNext
        <4> HIDE DEF w
        <4> QED
          BY <4>1
      <3> QED
        BY <1>1, <3>1, <3>2
    <2>2. hook'[c] = next /\ \A s \in Sids \ {c} : hook'[s] = hook[s]
      BY <2>1 DEF TypeOK
    <2> QED
      BY <1>0, <2>1, <2>2 DEF Agreed, CallbacksKnow, HookAt, ReportOf
  <1>6. StatusesFollow'
    <2>1. \A b, pcs : At(b, pcs)' <=> At(b, pcs)
      BY <1>0 DEF At
    <2>2. /\ user'[a] \in {user[a], report} /\ notif'[a].status \in {notif[a].status, report}
          /\ \A b \in Attempts \ {a} : user'[b] = user[b] /\ notif'[b] = notif[b]
      BY <1>1, <1>2, <1>3 DEF UpdateNotification, TypeOK
    <2> QED
      BY <1>0, <1>3, <2>1, <2>2 DEF Agreed, StatusesFollow
  <1> QED
    BY <1>4, <1>5, <1>6 DEF Agreed

LEMMA NextAgreeInv == TypeOK /\ LeaseInv /\ NameInv /\ AgreeInv /\ [Next]_vars => AgreeInv'
  <1> SUFFICES ASSUME TypeOK, LeaseInv, NameInv, AgreeInv, [Next]_vars PROVE AgreeInv'
    OBVIOUS
  <1>1. CASE Fault
    BY <1>1, FaultAgrees
  <1>2. CASE UNCHANGED faults /\ faults # 0
    BY <1>2 DEF AgreeInv
  <1>3. CASE UNCHANGED faults /\ Agreed
    <2>1. Agreed' => AgreeInv'
      BY DEF AgreeInv
    <2>2. ASSUME NEW a \in Attempts, Create(a) \/ LeaseExpires(a) \/ RetryDue(a) PROVE AgreeInv'
      BY <1>3, <2>1, <2>2, CreateAgrees, LeaseExpiresAgrees
    <2>3. ASSUME NEW d \in Dispatchers, Working(d) \/ Failing(d) PROVE AgreeInv'
      <3>1. ~Fault
        BY <1>3 DEF Fault, TypeOK
      <3>2. ~Failing(d) /\ ~SendRetryable(d) /\ (SendRefused(d) => UNCHANGED call)
        BY <3>1 DEF Failing, ClaimSelectFails, LookupFails, StatementFails, Restart, SendRetryable,
                    SendRefused
      <3>3. ~RequeueAttempt(d) /\ ~RequeueNotif(d)
        BY <1>3 DEF Agreed, WritersKnow, RequeueAttempt, RequeueNotif
      <3> QED
        BY <1>3, <2>1, <2>3, <3>2, <3>3, ClaimUpdateAgrees, LoopAgrees, FinishAgrees, FollowAgrees
           DEF Working
    <2>4. ASSUME NEW c \in Sids, CallEnds(c) \/ Handling(c) \/ HookFails(c) \/ HookRepeats(c)
          PROVE  AgreeInv'
      <3>1. ~HookFails(c) /\ ~HookRepeats(c)
        BY <1>3 DEF HookFails, HookRepeats, Fault, TypeOK
      <3> QED
        BY <1>3, <2>1, <2>4, <3>1, CallbackAgrees, HookAttemptAgrees, HookFollowsAgrees DEF Handling
    <2>5. CASE UNCHANGED vars
      <3>1. /\ NothingLost' /\ IdleEmpty' /\ WritersKnow' /\ CallbacksKnow' /\ ReportsKnow'
            /\ StatusesFollow'
        BY <1>3, <2>5 DEF vars, Agreed, NothingLost, IdleEmpty, WritersKnow, CallbacksKnow,
           ReportsKnow, StatusesFollow, Reported, ReportOf, At, HookAt, InHand
      <3> QED
        BY <2>1, <3>1 DEF Agreed
    <2> QED
      BY <2>2, <2>3, <2>4, <2>5 DEF Next
  <1>4. Fault \/ UNCHANGED faults
    <2>1. ASSUME NEW a \in Attempts, Create(a) \/ LeaseExpires(a) \/ RetryDue(a)
          PROVE  Fault \/ UNCHANGED faults
      BY <2>1 DEF Create, LeaseExpires, RetryDue
    <2>2. ASSUME NEW d \in Dispatchers, Working(d) \/ Failing(d)
          PROVE  Fault \/ UNCHANGED faults
      BY <2>2 DEF Working, Failing, ClaimUpdate, ClaimSelect, ClaimSelectFails, StartCall, ReuseCall,
         LookupFails, SendOk, SendRetryable, SendRefused, MarkAttempt, MarkUser, MarkNotif,
         RequeueAttempt, RequeueNotif, FailAttempt, FailUser, FailNotif, StatementFails, Restart
    <2>3. ASSUME NEW c \in Sids, CallEnds(c) \/ Handling(c) \/ HookFails(c) \/ HookRepeats(c)
          PROVE  Fault \/ UNCHANGED faults
      BY <2>3 DEF CallEnds, Handling, HookLookup, HookAttempt, HookUser, HookNotif, HookFails, HookRepeats
    <2> QED
      BY <2>1, <2>2, <2>3 DEF Next, vars
  <1> QED
    BY <1>1, <1>2, <1>3, <1>4 DEF AgreeInv

LEMMA AgreeInvariant == Spec => []AgreeInv
  BY InitAgreeInv, NextAgreeInv, TypeCorrect, LeaseInvariant, NameInvariant, PTL DEF Spec

(* In a run without faults a row that is sent, or that Twilio refused, has *)
(* its users_messages and notifications rows in the same status once       *)
(* nobody is going to write them: the three UPDATEs, which no transaction  *)
(* joins, do not come apart by interleaving alone.                         *)
THEOREM RowsAgree == Spec => []SettledRowsAgree
  <1>1. TypeOK /\ AgreeInv => SettledRowsAgree
    <2> SUFFICES ASSUME TypeOK, Agreed, NEW a \in Attempts, Settled(a)
                 PROVE  /\ row[a].status = "sent" => StatusesAre(a, "sent")
                        /\ row[a].status = "failed" /\ row[a].sid = None => StatusesAre(a, "failed")
      BY DEF SettledRowsAgree, AgreeInv
    <2>1. \A pcs : ~At(a, pcs)
      BY DEF At, Settled
    <2> QED
      BY <2>1 DEF Agreed, StatusesFollow, StatusesAre
  <1> QED
    BY <1>1, AgreeInvariant, TypeCorrect, PTL

-----------------------------------------------------------------------------
(* CollapsedCallsBounded.  A lone dispatcher d that collapses calls places *)
(* one for a message only while it knows of none, and knows of it until a  *)
(* fault makes it forget.                                                  *)

Known(d, m) ==
  \/ cache[d][m].sid # None
  \/ disp[d].pc \in MarkPcs /\ messageOf[disp[d].cur] = m

KnownOrCounted(d, m) ==
  /\ IsFiniteSet(CallsForMessage(m))
  /\ Cardinality(CallsForMessage(m)) + (IF Known(d, m) THEN 0 ELSE 1) <= 1 + faults

CollapseInv(d) ==
  /\ \A m \in Messages : KnownOrCounted(d, m)
  /\ disp[d].pc = "send" => cache[d][messageOf[disp[d].cur]].sid = None

LEMMA CountStays ==
  ASSUME TypeOK, NEW d, NEW m \in Messages, KnownOrCounted(d, m), UNCHANGED faults,
         CallsForMessage(m)' \subseteq CallsForMessage(m), Known(d, m) => Known(d, m)'
  PROVE  KnownOrCounted(d, m)'
  <1>1. IsFiniteSet(CallsForMessage(m)) /\ faults \in Nat
    BY ConstantsAssumption DEF KnownOrCounted, TypeOK
  <1>2. /\ IsFiniteSet(CallsForMessage(m)')
        /\ Cardinality(CallsForMessage(m)') <= Cardinality(CallsForMessage(m))
        /\ Cardinality(CallsForMessage(m)) \in Nat /\ Cardinality(CallsForMessage(m)') \in Nat
    BY <1>1, CountKept
  <1> QED
    BY <1>1, <1>2 DEF KnownOrCounted

LEMMA CountFault ==
  ASSUME TypeOK, NEW d, NEW m \in Messages, KnownOrCounted(d, m), Fault, NEW c,
         \/ CallsForMessage(m)' \subseteq CallsForMessage(m)
         \/ CallsForMessage(m)' \subseteq CallsForMessage(m) \cup {c} /\ (Known(d, m) => Known(d, m)')
  PROVE  KnownOrCounted(d, m)'
  <1>1. IsFiniteSet(CallsForMessage(m)) /\ faults \in Nat /\ faults' = faults + 1
    BY ConstantsAssumption DEF KnownOrCounted, TypeOK, Fault
  <1>2. CASE CallsForMessage(m)' \subseteq CallsForMessage(m)
    <2>1. /\ IsFiniteSet(CallsForMessage(m)')
          /\ Cardinality(CallsForMessage(m)') <= Cardinality(CallsForMessage(m))
          /\ Cardinality(CallsForMessage(m)) \in Nat /\ Cardinality(CallsForMessage(m)') \in Nat
      BY <1>1, <1>2, CountKept
    <2> QED
      BY <1>1, <2>1 DEF KnownOrCounted
  <1>3. CASE CallsForMessage(m)' \subseteq CallsForMessage(m) \cup {c} /\ (Known(d, m) => Known(d, m)')
    <2>1. /\ IsFiniteSet(CallsForMessage(m)')
          /\ Cardinality(CallsForMessage(m)') <= Cardinality(CallsForMessage(m)) + 1
          /\ Cardinality(CallsForMessage(m)) \in Nat /\ Cardinality(CallsForMessage(m)') \in Nat
      BY <1>1, <1>3, CountAdded
    <2> QED
      BY <1>1, <1>3, <2>1 DEF KnownOrCounted
  <1> QED
    BY <1>2, <1>3

LEMMA CountPlaced ==
  ASSUME TypeOK, NEW d, NEW m \in Messages, KnownOrCounted(d, m), UNCHANGED faults, NEW c,
         CallsForMessage(m)' \subseteq CallsForMessage(m) \cup {c}, ~Known(d, m), Known(d, m)'
  PROVE  KnownOrCounted(d, m)'
  <1>1. IsFiniteSet(CallsForMessage(m)) /\ faults \in Nat
    BY ConstantsAssumption DEF KnownOrCounted, TypeOK
  <1>2. /\ IsFiniteSet(CallsForMessage(m)')
        /\ Cardinality(CallsForMessage(m)') <= Cardinality(CallsForMessage(m)) + 1
        /\ Cardinality(CallsForMessage(m)) \in Nat /\ Cardinality(CallsForMessage(m)') \in Nat
    BY <1>1, CountAdded
  <1> QED
    BY <1>1, <1>2 DEF KnownOrCounted

LEMMA MessageCallsAfter ==
  ASSUME TypeOK, NEW c \in Sids, NEW a \in Attempts, Place(c, a), NEW m
  PROVE  /\ CallsForMessage(m)' \subseteq CallsForMessage(m) \cup {c}
         /\ messageOf[a] # m => CallsForMessage(m)' \subseteq CallsForMessage(m)
  <1>1. call' = [call EXCEPT ![c] = [attempt |-> a, state |-> "live"]]
    BY DEF Place
  <1>2. call'[c].attempt = a /\ \A s \in Sids \ {c} : call'[s] = call[s]
    BY <1>1 DEF TypeOK
  <1> QED
    BY <1>2 DEF CallsForMessage

LEMMA SameMessageCalls ==
  ASSUME UNCHANGED call PROVE \A m : CallsForMessage(m)' \subseteq CallsForMessage(m)
  BY DEF CallsForMessage

(* A step of the environment or of a callback. *)
LEMMA OutsideCollapseInv ==
  ASSUME TypeOK, NEW d, CollapseInv(d), UNCHANGED <<disp, cache>>, UNCHANGED faults \/ Fault,
         UNCHANGED call \/ \E c \in Sids : CallEnds(c)
  PROVE  CollapseInv(d)'
  <1>1. ASSUME NEW m \in Messages PROVE KnownOrCounted(d, m)'
    <2>1. CallsForMessage(m)' \subseteq CallsForMessage(m)
      <3>1. ASSUME NEW c \in Sids, CallEnds(c) PROVE \A s \in Sids : call'[s].attempt = call[s].attempt
        BY <3>1 DEF CallEnds, TypeOK, CallRecord
      <3> QED
        BY <3>1, SameMessageCalls DEF CallsForMessage
    <2>2. Known(d, m) => Known(d, m)'
      BY DEF Known
    <2> QED
      BY <2>1, <2>2, CountStays, CountFault DEF CollapseInv
  <1> QED
    BY <1>1 DEF CollapseInv

(* A fault of the dispatcher that places no call. *)
LEMMA ForgettingCollapseInv ==
  ASSUME TypeOK, NEW d, CollapseInv(d), Fault, UNCHANGED call, disp'[d].pc # "send"
  PROVE  CollapseInv(d)'
  BY SameMessageCalls, CountFault DEF CollapseInv

(* The dispatcher moves on and forgets nothing. *)
LEMMA RememberingCollapseInv ==
  ASSUME TypeOK, NEW d, CollapseInv(d), UNCHANGED <<faults, call>>, disp'[d].pc # "send",
         \A m \in Messages : Known(d, m) => Known(d, m)'
  PROVE  CollapseInv(d)'
  BY SameMessageCalls, CountStays DEF CollapseInv

LEMMA FailingCollapseInv ==
  ASSUME TypeOK, NEW d \in Dispatchers, CollapseInv(d), Failing(d)
  PROVE  CollapseInv(d)'
  <1>1. Fault /\ UNCHANGED call
    BY DEF Failing, ClaimSelectFails, LookupFails, StatementFails, Restart
  <1>2. disp'[d].pc # "send"
    <2>1. CASE ClaimSelectFails(d) \/ Restart(d)
      <3>1. disp' = [disp EXCEPT ![d] = Idle]
        BY <2>1 DEF ClaimSelectFails, Restart
      <3>2. disp'[d] = Idle
        BY <3>1 DEF TypeOK
      <3> QED
        BY <3>2 DEF Idle
    <2>2. CASE LookupFails(d)
      <3>1. PICK a \in Attempts :
              disp' = [disp EXCEPT ![d] = IF disp[d].todo \ {a} = {} THEN Idle
                                          ELSE [disp[d] EXCEPT !.todo = disp[d].todo \ {a}]]
        BY <2>2 DEF LookupFails
      <3> DEFINE w == IF disp[d].todo \ {a} = {} THEN Idle
                      ELSE [disp[d] EXCEPT !.todo = disp[d].todo \ {a}]
      <3>2. w.pc \in {"idle", "loop"}
        BY <2>2 DEF Idle, LookupFails, TypeOK, Dispatcher
      <3>3. disp'[d] = w
        BY <3>1 DEF TypeOK
      <3> HIDE DEF w
      <3> QED
        BY <3>2, <3>3
    <2>3. CASE StatementFails(d)
      <3>1. PICK next : disp' = [disp EXCEPT ![d] = next] /\ next.pc \in {"idle", "loop"}
        BY <2>3, ContinueMove DEF StatementFails
      <3>2. disp'[d] = next
        BY <3>1 DEF TypeOK
      <3> QED
        BY <3>1, <3>2
    <2> QED
      BY <2>1, <2>2, <2>3 DEF Failing
  <1> QED
    BY <1>1, <1>2, ForgettingCollapseInv

(* The loop up to the send: a call is started only for a message whose     *)
(* outcome is not cached.                                                  *)
LEMMA LoopCollapseInv ==
  ASSUME TypeOK, Collapse, NEW d \in Dispatchers, CollapseInv(d),
         ClaimUpdate(d) \/ ClaimSelect(d) \/ StartCall(d) \/ ReuseCall(d)
  PROVE  CollapseInv(d)'
  <1>0. /\ UNCHANGED <<call, faults>> /\ disp[d].pc \notin MarkPcs
        /\ cache \in [Dispatchers -> [Messages -> CachedOutcome]]
    BY DEF ClaimUpdate, ClaimSelect, StartCall, ReuseCall, MarkPcs, TypeOK
  <1>1. CASE ClaimUpdate(d) \/ ClaimSelect(d)
    <2>1. UNCHANGED cache
      BY <1>1 DEF ClaimUpdate, ClaimSelect
    <2>2. PICK next : disp' = [disp EXCEPT ![d] = next] /\ next.pc \in {"idle", "select", "loop"}
      <3> DEFINE picked == FirstOf({a \in Attempts : Claimable(a)}, ClaimLimit)
                 held == {a \in disp[d].todo : LeaseHeldBy(d, a)}
                 v == [Idle EXCEPT !.pc = "select", !.todo = picked]
                 w == IF held = {} THEN Idle
                      ELSE [Idle EXCEPT !.pc = "loop", !.batch = held, !.todo = held]
      <3>1. disp' = [disp EXCEPT ![d] = v] \/ disp' = [disp EXCEPT ![d] = w]
        BY <1>1 DEF ClaimUpdate, ClaimSelect
      <3>2. v.pc = "select" /\ w.pc \in {"idle", "loop"}
        BY DEF Idle
      <3> HIDE DEF v, w
      <3> QED
        BY <3>1, <3>2
    <2>3. disp'[d] = next
      BY <2>2 DEF TypeOK
    <2> QED
      BY <1>0, <2>1, <2>2, <2>3, RememberingCollapseInv DEF Known
  <1>2. CASE StartCall(d)
    <2>1. PICK a \in Attempts : /\ \E known \in Lookups(d, messageOf[a]) : known.sid = None
                                /\ TakeUp(d, a, "send", NoOutcome)
      BY <1>2 DEF StartCall
    <2> DEFINE w == [pc |-> "send", batch |-> disp[d].batch, todo |-> disp[d].todo \ {a},
                     cur |-> a, sid |-> NoOutcome.sid, delivered |-> NoOutcome.delivered]
    <2>2. disp' = [disp EXCEPT ![d] = w] /\ w.pc = "send" /\ w.cur = a
      BY <2>1 DEF TakeUp
    <2> HIDE DEF w
    <2>3. disp'[d] = w /\ UNCHANGED cache
      BY <1>2, <2>2 DEF TypeOK, StartCall
    <2>4. cache[d][messageOf[a]].sid = None
      BY <2>1 DEF Lookups
    <2>5. \A m \in Messages : Known(d, m) => Known(d, m)'
      BY <1>0, <2>3 DEF Known
    <2> QED
      BY <1>0, <2>2, <2>3, <2>4, <2>5, SameMessageCalls, CountStays DEF CollapseInv
  <1>3. CASE ReuseCall(d)
    <2>a. PICK a \in Attempts : \E known \in Lookups(d, messageOf[a]) :
            /\ known.sid # None
            /\ cache' = [cache EXCEPT ![d][messageOf[a]] = known]
            /\ TakeUp(d, a, "markAttempt", known)
      BY <1>3 DEF ReuseCall
    <2>1. PICK known : /\ known.sid # None
                       /\ cache' = [cache EXCEPT ![d][messageOf[a]] = known]
                       /\ TakeUp(d, a, "markAttempt", known)
      BY <2>a
    <2> DEFINE w == [pc |-> "markAttempt", batch |-> disp[d].batch, todo |-> disp[d].todo \ {a},
                     cur |-> a, sid |-> known.sid, delivered |-> known.delivered]
    <2>2. disp' = [disp EXCEPT ![d] = w] /\ w.pc = "markAttempt"
      BY <2>1 DEF TakeUp
    <2> HIDE DEF w
    <2>3. disp'[d] = w
      BY <2>2 DEF TypeOK
    <2>4. \A m \in Messages : cache'[d][m] = IF m = messageOf[a] THEN known ELSE cache[d][m]
      BY <1>0, <2>1
    <2>5. \A m \in Messages : Known(d, m) => Known(d, m)'
      BY <1>0, <2>1, <2>4 DEF Known
    <2> QED
      BY <1>0, <2>2, <2>3, <2>5, RememberingCollapseInv
  <1> QED
    BY <1>1, <1>2, <1>3

LEMMA SendCollapseInv ==
  ASSUME TypeOK, TakenOut, NEW d \in Dispatchers, CollapseInv(d),
         SendOk(d) \/ SendRetryable(d) \/ SendRefused(d)
  PROVE  CollapseInv(d)'
  <1>0. UNCHANGED cache /\ disp[d].pc = "send"
    BY DEF SendOk, SendRetryable, SendRefused
  <1>1. PICK a \in Attempts : a = disp[d].cur
    BY <1>0 DEF TakenOut, WritePcs
  <1>2. \A m : Known(d, m) <=> cache[d][m].sid # None
    BY <1>0 DEF Known, MarkPcs
  <1>3. \A m : Known(d, m) => Known(d, m)'
    BY <1>0, <1>2 DEF Known
  <1>4. CASE SendOk(d)
    <2>1. PICK c \in Sids : Place(c, a) /\ disp' = [disp EXCEPT ![d] =
                               [disp[d] EXCEPT !.pc = "markAttempt", !.sid = c]]
      BY <1>1, <1>4 DEF SendOk
    <2>2. disp'[d].pc = "markAttempt" /\ disp'[d].cur = a
      BY <1>1, <2>1 DEF TypeOK, Dispatcher
    <2>3. UNCHANGED faults
      BY <1>4 DEF SendOk
    <2>4. ASSUME NEW m \in Messages PROVE KnownOrCounted(d, m)'
      <3>1. CASE m = messageOf[a]
        <4>1. ~Known(d, m) /\ Known(d, m)'
          BY <1>0, <1>1, <1>2, <2>2, <3>1 DEF CollapseInv, Known, MarkPcs
        <4>2. CallsForMessage(m)' \subseteq CallsForMessage(m) \cup {c}
          BY <2>1, MessageCallsAfter
        <4> QED
          BY <2>3, <4>1, <4>2, CountPlaced DEF CollapseInv
      <3>2. CASE m # messageOf[a]
        <4>1. CallsForMessage(m)' \subseteq CallsForMessage(m)
          BY <2>1, <3>2, MessageCallsAfter
        <4> QED
          BY <1>3, <2>3, <4>1, CountStays DEF CollapseInv
      <3> QED
        BY <3>1, <3>2
    <2> QED
      BY <2>2, <2>4 DEF CollapseInv
  <1>5. CASE SendRetryable(d) \/ SendRefused(d)
    <2>a. Goto(d, "requeueAttempt") \/ Goto(d, "failAttempt")
      BY <1>5 DEF SendRetryable, SendRefused
    <2>1. PICK next : /\ disp' = [disp EXCEPT ![d] = next]
                      /\ next.pc \in {"requeueAttempt", "failAttempt"}
      BY <2>a, GotoMove
    <2>2. disp'[d].pc # "send"
      BY <2>1 DEF TypeOK
    <2>3. \/ UNCHANGED <<call, faults>>
          \/ Fault /\ UNCHANGED call
          \/ Fault /\ \E c \in Sids : Place(c, a)
      BY <1>1, <1>5 DEF SendRetryable, SendRefused
    <2>4. ASSUME Fault, NEW c \in Sids, Place(c, a), NEW m \in Messages PROVE KnownOrCounted(d, m)'
      <3>1. CallsForMessage(m)' \subseteq CallsForMessage(m) \cup {c}
        BY <2>4, MessageCallsAfter
      <3> QED
        BY <1>3, <2>4, <3>1, CountFault DEF CollapseInv
    <2> QED
      BY <1>3, <2>2, <2>3, <2>4, ForgettingCollapseInv, RememberingCollapseInv DEF CollapseInv
  <1> QED
    BY <1>4, <1>5

(* markSent ends with the outcome in the cache. *)
LEMMA WriteCollapseInv ==
  ASSUME TypeOK, NameInv, Collapse, NEW d \in Dispatchers, CollapseInv(d),
         \/ MarkAttempt(d) \/ MarkUser(d) \/ MarkNotif(d) \/ RequeueAttempt(d) \/ RequeueNotif(d)
         \/ FailAttempt(d) \/ FailUser(d) \/ FailNotif(d)
  PROVE  CollapseInv(d)'
  <1>0. UNCHANGED <<call, faults>>
    BY DEF MarkAttempt, MarkUser, MarkNotif, RequeueAttempt, RequeueNotif, FailAttempt, FailUser,
           FailNotif
  <1>1. disp'[d].pc # "send"
    <2>1. \/ Continue(d)
          \/ \E pc \in {"markUser", "markNotif", "requeueNotif", "failUser", "failNotif"} : Goto(d, pc)
      BY DEF MarkAttempt, MarkUser, MarkNotif, RequeueAttempt, RequeueNotif, FailAttempt, FailUser,
             FailNotif
    <2>2. PICK next : disp' = [disp EXCEPT ![d] = next] /\ next.pc # "send"
      BY <2>1, ContinueMove, GotoMove
    <2> QED
      BY <2>2 DEF TypeOK
  <1>2. ASSUME NEW m \in Messages, Known(d, m) PROVE Known(d, m)'
    <2>1. ASSUME UNCHANGED cache, NEW pc \in MarkPcs, Goto(d, pc) PROVE Known(d, m)'
      <3>1. disp'[d].pc = pc /\ disp'[d].cur = disp[d].cur
        BY <2>1 DEF Goto, TypeOK, Dispatcher
      <3> QED
        BY <1>2, <2>1, <3>1 DEF Known
    <2>2. CASE CacheCollapsed(d) /\ disp[d].pc \in MarkPcs
      <3>1. PICK a \in Attempts, c \in Sids, delivered \in BOOLEAN :
              a = disp[d].cur /\ c = disp[d].sid /\ delivered = disp[d].delivered
        BY <2>2 DEF NameInv, DispatchersName, Names, PlacedFor, TypeOK, Dispatcher
      <3> DEFINE known == [sid |-> c, delivered |-> delivered]
      <3>2. cache' = [cache EXCEPT ![d][messageOf[a]] = known] /\ known.sid # None
        BY <2>2, <3>1, ConstantsAssumption DEF CacheCollapsed
      <3> HIDE DEF known
      <3>3. cache'[d][m] = IF m = messageOf[a] THEN known ELSE cache[d][m]
        BY <3>2 DEF TypeOK
      <3> QED
        BY <1>2, <3>1, <3>2, <3>3 DEF Known
    <2>3. CASE UNCHANGED cache /\ disp[d].pc \notin MarkPcs
      BY <1>2, <2>3 DEF Known
    <2>4. CASE MarkAttempt(d)
      BY <2>1, <2>4 DEF MarkAttempt, MarkPcs
    <2>5. CASE MarkUser(d) \/ MarkNotif(d)
      <3>1. \/ Goto(d, "markNotif") /\ UNCHANGED cache
            \/ CacheCollapsed(d)
        BY <2>5 DEF MarkUser, MarkNotif
      <3>2. disp[d].pc \in MarkPcs /\ "markNotif" \in MarkPcs
        BY <2>5 DEF MarkUser, MarkNotif, MarkPcs
      <3> QED
        BY <2>1, <2>2, <3>1, <3>2
    <2> QED
      BY <2>3, <2>4, <2>5
         DEF RequeueAttempt, RequeueNotif, FailAttempt, FailUser, FailNotif, MarkPcs
  <1> QED
    BY <1>0, <1>1, <1>2, RememberingCollapseInv

LEMMA NextCollapseInv ==
  ASSUME Collapse, NEW d, Dispatchers = {d}
  PROVE  TypeOK /\ LeaseInv /\ NameInv /\ CollapseInv(d) /\ [Next]_vars => CollapseInv(d)'
  <1> SUFFICES ASSUME TypeOK, LeaseInv, NameInv, CollapseInv(d), [Next]_vars PROVE CollapseInv(d)'
    OBVIOUS
  <1>1. ASSUME NEW a \in Attempts, Create(a) \/ LeaseExpires(a) \/ RetryDue(a) PROVE CollapseInv(d)'
    BY <1>1, OutsideCollapseInv DEF Create, LeaseExpires, RetryDue
  <1>2. ASSUME Working(d) \/ Failing(d) PROVE CollapseInv(d)'
    BY <1>2, FailingCollapseInv, LoopCollapseInv, SendCollapseInv, WriteCollapseInv
       DEF Working, LeaseInv
  <1>3. ASSUME NEW c \in Sids, CallEnds(c) \/ Handling(c) \/ HookFails(c) \/ HookRepeats(c)
        PROVE  CollapseInv(d)'
    <2>1. UNCHANGED <<disp, cache>> /\ (UNCHANGED faults \/ Fault) /\ (UNCHANGED call \/ CallEnds(c))
      BY <1>3 DEF CallEnds, Handling, HookLookup, HookAttempt, HookUser, HookNotif, HookFails, HookRepeats
    <2> QED
      BY <2>1, OutsideCollapseInv
  <1>4. CASE UNCHANGED vars
    BY <1>4, OutsideCollapseInv DEF vars
  <1> QED
    BY <1>1, <1>2, <1>3, <1>4 DEF Next

(* With one dispatcher and collapsing on, a message is called once, and    *)
(* once more at most for every fault: the outcome is in the dispatcher's   *)
(* hands or in its cache from the call to the end, whatever callbacks do   *)
(* to the rows.                                                            *)
THEOREM LoneDispatcherCollapses ==
  ASSUME Collapse, NEW d, Dispatchers = {d}
  PROVE  Spec => []CollapsedCallsBounded
  <1>1. Init => CollapseInv(d)
    <2> SUFFICES ASSUME Init PROVE CollapseInv(d)
      OBVIOUS
    <2>1. \A m : CallsForMessage(m) = {}
      BY DEF Init, CallsForMessage
    <2>2. faults = 0 /\ disp[d].pc = "idle"
      BY DEF Init, Idle
    <2> QED
      BY <2>1, <2>2, FS_EmptySet DEF CollapseInv, KnownOrCounted
  <1>2. TypeOK /\ LeaseInv /\ NameInv /\ CollapseInv(d) /\ [Next]_vars => CollapseInv(d)'
    BY NextCollapseInv
  <1>3. TypeOK /\ CollapseInv(d) => CollapsedCallsBounded
    <2> SUFFICES ASSUME TypeOK, NEW m \in Messages, KnownOrCounted(d, m)
                 PROVE  Cardinality(CallsForMessage(m)) <= 1 + faults
      BY DEF CollapseInv, CollapsedCallsBounded
    <2>1. Cardinality(CallsForMessage(m)) \in Nat /\ faults \in Nat
      BY FS_CardinalityType, ConstantsAssumption DEF KnownOrCounted, TypeOK
    <2> QED
      BY <2>1 DEF KnownOrCounted
  <1> QED
    BY <1>1, <1>2, <1>3, TypeCorrect, LeaseInvariant, NameInvariant, PTL DEF Spec

-----------------------------------------------------------------------------
(* FairShare.  The rows of a message are ranked by their ids, and a claim  *)
(* takes rows of low rank first: of a message it has taken as many as the  *)
(* rank of the last, of one with a row left out all up to that row's rank. *)

LEMMA Least ==
  ASSUME NEW S \in SUBSET Nat, S # {}
  PROVE  \E x \in S : \A y \in S : x <= y
  <1> DEFINE R == {p \in Nat \X Nat : p[1] < p[2]}
  <1>1. IsWellFoundedOn(R, Nat)
    BY NatLessThanWellFounded, Zenon DEF OpToRel
  <1>2. PICK x \in S : \A y \in S : <<y, x>> \notin R
    <2> HIDE DEF R
    <2> QED
      BY <1>1, WFMin
  <1>3. ASSUME NEW y \in S PROVE x <= y
    <2>1. <<y, x>> \notin R /\ y \in Nat /\ x \in Nat
      BY <1>2
    <2> QED
      BY <2>1
  <1> QED
    BY <1>3

LEMMA RankType ==
  ASSUME NEW S \in SUBSET Attempts, NEW a
  PROVE  IsFiniteSet({b \in S : messageOf[b] = messageOf[a] /\ b <= a}) /\ QueueRank(S, a) \in Nat
         /\ IsFiniteSet(S)
  <1>1. IsFiniteSet(S)
    BY ConstantsAssumption, FS_Subset
  <1>2. IsFiniteSet({b \in S : messageOf[b] = messageOf[a] /\ b <= a})
    BY <1>1, FS_Subset
  <1> QED
    BY <1>1, <1>2, FS_CardinalityType DEF QueueRank

(* Of two rows of a message the later one ranks higher. *)
LEMMA RankGrows ==
  ASSUME NEW S \in SUBSET Attempts, NEW a \in S, NEW b \in S, messageOf[a] = messageOf[b], a < b
  PROVE  QueueRank(S, a) < QueueRank(S, b)
  <1> DEFINE A == {x \in S : messageOf[x] = messageOf[a] /\ x <= a}
             B == {x \in S : messageOf[x] = messageOf[b] /\ x <= b}
  <1>1. S \subseteq Nat
    BY ConstantsAssumption
  <1>2. A \subseteq B /\ b \in B /\ b \notin A
    <2>1. a \in Nat /\ b \in Nat
      BY <1>1
    <2>2. ASSUME NEW x \in A PROVE x \in B
      <3>1. x \in S /\ x \in Nat /\ messageOf[x] = messageOf[b] /\ x <= a
        BY <1>1
      <3>2. x <= b
        BY <2>1, <3>1
      <3> QED
        BY <3>1, <3>2
    <2>3. b \in B
      BY <2>1
    <2>4. b \notin A
      BY <2>1
    <2> QED
      BY <2>2, <2>3, <2>4
  <1>3. IsFiniteSet(B) /\ QueueRank(S, a) = Cardinality(A) /\ QueueRank(S, b) = Cardinality(B)
    BY RankType DEF QueueRank
  <1> HIDE DEF A, B
  <1>4. A # B
    BY <1>2
  <1> QED
    BY <1>2, <1>3, <1>4, FS_Subset, FS_CardinalityType

LEMMA PrecedesGoesOn ==
  ASSUME NEW S \in SUBSET Attempts, NEW a \in S, NEW b \in S, NEW c \in S,
         Precedes(S, a, b), Precedes(S, b, c)
  PROVE  Precedes(S, a, c)
  <1>1. \A x \in S : QueueRank(S, x) \in Nat /\ receivedAt[messageOf[x]] \in Nat /\ x \in Nat
    BY RankType, ConstantsAssumption
  <1> QED
    BY <1>1 DEF Precedes

(* What is claimed ranks no higher than what is left. *)
LEMMA ClaimedFirst ==
  ASSUME NEW S \in SUBSET Attempts, NEW n \in Nat, NEW a \in FirstOf(S, n), NEW b \in S \ FirstOf(S, n)
  PROVE  QueueRank(S, a) <= QueueRank(S, b)
  <1> DEFINE A == {x \in S : Precedes(S, x, a)}
             B == {x \in S : Precedes(S, x, b)}
  <1>1. a \in S /\ Cardinality(A) < n /\ ~(Cardinality(B) < n)
    BY DEF FirstOf
  <1>2. ~Precedes(S, b, a)
    <2> SUFFICES ASSUME Precedes(S, b, a) PROVE FALSE
      OBVIOUS
    <2>1. B \subseteq A
      BY <1>1, PrecedesGoesOn
    <2>2. IsFiniteSet(A)
      BY RankType, FS_Subset
    <2> HIDE DEF A, B
    <2>3. Cardinality(B) <= Cardinality(A) /\ Cardinality(A) \in Nat /\ Cardinality(B) \in Nat
      BY <2>1, <2>2, FS_Subset, FS_CardinalityType
    <2> QED
      BY <1>1, <2>3
  <1>3. QueueRank(S, a) \in Nat /\ QueueRank(S, b) \in Nat
    BY RankType
  <1> QED
    BY <1>2, <1>3 DEF Precedes

LEMMA SharesSlots ==
  ASSUME NEW S \in SUBSET Attempts, NEW n \in Nat, NEW a \in FirstOf(S, n), NEW b \in S \ FirstOf(S, n)
  PROVE  Slots(FirstOf(S, n), messageOf[a]) <= Slots(FirstOf(S, n), messageOf[b]) + 1
  <1> DEFINE P == FirstOf(S, n)
             A == {x \in P : messageOf[x] = messageOf[a]}
             B == {x \in P : messageOf[x] = messageOf[b]}
             U == {x \in S \ P : messageOf[x] = messageOf[b]}
  <1>0. P \subseteq S /\ S \subseteq Nat /\ IsFiniteSet(S) /\ a \in A /\ b \in U
    BY ConstantsAssumption, RankType DEF FirstOf
  <1>1. /\ IsFiniteSet(A) /\ IsFiniteSet(B) /\ Cardinality(A) \in Nat /\ Cardinality(B) \in Nat
        /\ Slots(P, messageOf[a]) = Cardinality(A) /\ Slots(P, messageOf[b]) = Cardinality(B)
    <2>1. A \subseteq S /\ B \subseteq S
      BY <1>0
    <2>2. Slots(P, messageOf[a]) = Cardinality(A) /\ Slots(P, messageOf[b]) = Cardinality(B)
      BY DEF Slots
    <2> QED
      BY <1>0, <2>1, <2>2, FS_Subset, FS_CardinalityType
  <1>2. PICK last \in A : \A x \in A : x <= last
    <2> DEFINE left(x) == Cardinality(S) - QueueRank(S, x)
               L == {left(x) : x \in A}
    <2>1. \A x \in S : left(x) \in Nat /\ QueueRank(S, x) \in Nat
      <3> SUFFICES ASSUME NEW x \in S PROVE left(x) \in Nat /\ QueueRank(S, x) \in Nat
        OBVIOUS
      <3>1. QueueRank(S, x) <= Cardinality(S) /\ Cardinality(S) \in Nat
        BY <1>0, FS_Subset, FS_CardinalityType DEF QueueRank
      <3>2. QueueRank(S, x) \in Nat
        BY RankType
      <3> QED
        BY <3>1, <3>2
    <2>2. L \in SUBSET Nat /\ L # {}
      BY <1>0, <2>1
    <2>3. PICK k \in L : \A y \in L : k <= y
      <3> HIDE DEF L
      <3> QED
        BY <2>2, Least
    <2>4. PICK x \in A : left(x) = k
      OBVIOUS
    <2>5. ASSUME NEW y \in A PROVE y <= x
      <3>0. x \in Nat /\ y \in Nat
        BY <1>0
      <3> SUFFICES ASSUME x < y PROVE FALSE
        BY <3>0
      <3>1. QueueRank(S, x) < QueueRank(S, y)
        BY <1>0, RankGrows
      <3>2. left(x) <= left(y)
        BY <2>3, <2>4
      <3>3. Cardinality(S) \in Nat /\ QueueRank(S, x) \in Nat /\ QueueRank(S, y) \in Nat
        BY <1>0, <2>1, FS_CardinalityType
      <3> QED
        BY <3>1, <3>2, <3>3
    <2> QED
      BY <2>5
  <1>3. Cardinality(A) <= QueueRank(S, last)
    <2> DEFINE R == {x \in S : messageOf[x] = messageOf[last] /\ x <= last}
    <2>1. A \subseteq R
      BY <1>0, <1>2
    <2>2. IsFiniteSet(R) /\ QueueRank(S, last) = Cardinality(R)
      BY RankType DEF QueueRank
    <2> HIDE DEF A, R
    <2> QED
      BY <2>1, <2>2, FS_Subset
  <1>4. PICK first \in U : \A x \in U : first <= x
    <2>1. U \in SUBSET Nat /\ U # {}
      BY <1>0
    <2> HIDE DEF U
    <2> QED
      BY <2>1, Least
  <1>5. QueueRank(S, first) <= Cardinality(B) + 1
    <2> DEFINE R == {x \in S : messageOf[x] = messageOf[first] /\ x <= first}
    <2>1. R \subseteq B \cup {first} /\ first \notin B
      <3> SUFFICES ASSUME NEW x \in R PROVE x \in B \/ x = first
        BY <1>4
      <3>1. x \notin P => x \in U
        BY <1>4
      <3> QED
        BY <1>0, <1>4, <3>1
    <2>2. QueueRank(S, first) = Cardinality(R)
      BY DEF QueueRank
    <2> HIDE DEF B, R
    <2>3. IsFiniteSet(B \cup {first}) /\ Cardinality(B \cup {first}) = Cardinality(B) + 1
      BY <1>1, <2>1, FS_AddElement
    <2> QED
      BY <2>1, <2>2, <2>3, FS_Subset
  <1>6. QueueRank(S, last) <= QueueRank(S, first)
    BY <1>2, <1>4, ClaimedFirst
  <1>7. QueueRank(S, last) \in Nat /\ QueueRank(S, first) \in Nat
    BY RankType
  <1> HIDE DEF A, B, P, U
  <1>8. Cardinality(A) <= Cardinality(B) + 1
    BY <1>1, <1>3, <1>5, <1>6, <1>7
  <1> QED
    BY <1>1, <1>8 DEF P

(* A dispatcher comes to its SELECT only by its UPDATE. *)
LEMMA ToSelect ==
  ASSUME TypeOK, Next, NEW d \in Dispatchers, disp[d].pc = "idle", disp'[d].pc = "select"
  PROVE  ClaimUpdate(d)
  <1>0. disp \in [Dispatchers -> Dispatcher]
    BY DEF TypeOK
  <1>1. disp' # disp
    OBVIOUS
  <1>2. PICK e \in Dispatchers : Working(e) \/ Failing(e)
    BY <1>1 DEF Next, Create, LeaseExpires, RetryDue, CallEnds, Handling, HookLookup, HookAttempt,
            HookUser, HookNotif, HookFails, HookRepeats
  <1>3. \A f \in Dispatchers \ {e} : disp'[f] = disp[f]
    BY <1>0, <1>2 DEF Working, Failing, ClaimUpdate, ClaimSelect, ClaimSelectFails, StartCall,
       ReuseCall, LookupFails, SendOk, SendRetryable, SendRefused, MarkAttempt, MarkUser, MarkNotif,
       RequeueAttempt, RequeueNotif, FailAttempt, FailUser, FailNotif, StatementFails, Restart,
       TakeUp, Continue, Goto
  <1>4. e = d
    BY <1>3
  <1>5. ClaimUpdate(d) \/ Restart(d)
    BY <1>2, <1>4 DEF Working, Failing, ClaimSelect, ClaimSelectFails, StartCall,
       ReuseCall, LookupFails, SendOk, SendRetryable, SendRefused, MarkAttempt, MarkUser, MarkNotif,
       RequeueAttempt, RequeueNotif, FailAttempt, FailUser, FailNotif, StatementFails
  <1>6. ~Restart(d)
    BY <1>0 DEF Restart, Idle
  <1> QED
    BY <1>5, <1>6

(* The ranking of ClaimQueuedVoiceAttempts (ROW_NUMBER over the rows of a   *)
(* message) keeps a message with many recipients from crowding out others: *)
(* of one claim, no message gets two slots more than one with rows left.   *)
THEOREM ClaimsShare == Spec => FairShare
  <1>1. TypeOK /\ [Next]_vars =>
          [\A d \in Dispatchers :
             disp[d].pc = "idle" /\ disp'[d].pc = "select" =>
               \A a \in disp'[d].todo :
                 \A b \in {x \in Attempts : Claimable(x)} \ disp'[d].todo :
                   Slots(disp'[d].todo, messageOf[a]) <= Slots(disp'[d].todo, messageOf[b]) + 1]_vars
    <2> SUFFICES ASSUME TypeOK, Next, NEW d \in Dispatchers, disp[d].pc = "idle",
                        disp'[d].pc = "select", NEW a \in disp'[d].todo,
                        NEW b \in {x \in Attempts : Claimable(x)} \ disp'[d].todo
                 PROVE  Slots(disp'[d].todo, messageOf[a]) <= Slots(disp'[d].todo, messageOf[b]) + 1
      BY DEF vars
    <2> DEFINE S == {x \in Attempts : Claimable(x)}
    <2>1. ClaimUpdate(d)
      BY ToSelect
    <2>2. disp'[d].todo = FirstOf(S, ClaimLimit)
      BY <2>1 DEF ClaimUpdate, TypeOK, Idle
    <2>3. S \in SUBSET Attempts /\ ClaimLimit \in Nat
      BY ConstantsAssumption
    <2> HIDE DEF S
    <2>4. b \in S \ FirstOf(S, ClaimLimit) /\ a \in FirstOf(S, ClaimLimit)
      BY <2>2 DEF S
    <2> QED
      BY <2>2, <2>3, <2>4, SharesSlots
  <1> QED
    BY <1>1, TypeCorrect, PTL DEF Spec, FairShare
=============================================================================
