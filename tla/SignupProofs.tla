---------------------------- MODULE SignupProofs ----------------------------
(***************************************************************************)
(* Proofs about signups and opt-outs: rows refer to rows that exist, an    *)
(* opt-out holds, what a signup wrote stays, and a destination (a phone as *)
(* it is written) gets a second active user only from requests that ran    *)
(* together; for any requests, any phones, accounts, spellings and         *)
(* interleavings, and any number of statements that fail.  None of it      *)
(* needs the locks: what is written is kept right by who may write which   *)
(* row, and by the order of the commits.                                   *)
(***************************************************************************)
EXTENDS Signup, TLAPS

(* The places of a signup and of an opt-out: the signups that have chosen  *)
(* their user, and their location; the opt-outs that have looked.          *)
SignupPc == {"new", "find", "createUser", "updateUser", "match", "location",
             "subscription", "method", "setting", "commit", "done"}
OptOutPc == {"new", "list", "users", "methods", "subscriptions", "commit", "done"}
Chosen == {"createUser", "updateUser", "match", "location", "subscription",
           "method", "setting", "commit"}
Placed == {"location", "subscription", "method", "setting", "commit"}
Listed == {"users", "methods", "subscriptions", "commit"}

(* The types of rows and transactions. *)
AnyValue == {"on", "off"} \cup Location \cup Signups
AnyRows == [Rows -> AnyValue \cup {Absent}]
Tx == [pc : Pc, outcome : Outcome,
       own : UNION {[D -> AnyValue] : D \in SUBSET Rows},
       view : AnyRows, shared : SUBSET Signups, geocoded : BOOLEAN,
       user : Signups \cup {None}, location : Signups \cup {None}, users : SUBSET Signups]

(* Each row of the snapshot or of the database has the type of its table.  *)
RowsTyped(rows) ==
  \A u \in Signups :
    /\ rows[<<"user", u>>] \in {"on", "off", Absent}
    /\ rows[<<"method", u>>] \in {"on", "off", Absent}
    /\ rows[<<"subscription", u>>] \in {"on", "off", Absent}
    /\ rows[<<"setting", u>>] \in Signups \cup {Absent}
    /\ rows[<<"location", u>>] \in Location \cup {Absent}

WellTyped ==
  /\ typed \in Typings
  /\ db \in AnyRows /\ RowsTyped(db)
  /\ tx \in [Requests -> Tx]
  /\ span \in [Requests -> [from : Nat, to : Nat]]
  /\ commits \in Nat /\ faults \in Nat

(* A transaction that committed is over, and began before it committed.    *)
Clock(t) ==
  /\ span[t].from <= commits /\ span[t].to <= commits
  /\ Done(t) => tx[t].pc = "done" /\ span[t].from < span[t].to

(* Rows stay once they are there, and locations with their user.           *)
Remembers(t) ==
  /\ RowsTyped(tx[t].view)
  /\ \A r \in Rows : tx[t].view[r] # Absent => db[r] # Absent
  /\ \A l \in Signups : tx[t].view[<<"location", l>>] # Absent
       => db[<<"location", l>>].user = tx[t].view[<<"location", l>>].user

(* What a signup has written: rows of its user and of its location.        *)
SignupRow(s, u) ==
  LET x == tx[s] IN
  /\ Wrote(s, <<"user", u>>) => u = x.user /\ x.own[<<"user", u>>] = "on"
  /\ Wrote(s, <<"method", u>>) => u = x.user /\ x.own[<<"method", u>>] = "on"
  /\ Wrote(s, <<"setting", u>>) => u = x.user /\ x.own[<<"setting", u>>] = s
  /\ Wrote(s, <<"subscription", u>>) =>
       u = x.location /\ x.own[<<"subscription", u>>] = "on"
  /\ Wrote(s, <<"location", u>>) =>
       /\ u = x.location
       /\ x.own[<<"location", u>>] \in Location
       /\ x.own[<<"location", u>>].user = x.user
       /\ x.own[<<"location", u>>].area =
            (x.geocoded \/ (u # s /\ x.view[<<"location", u>>].area))
SignupRows(s) == \A u \in Signups : SignupRow(s, u)

(* Which of them it has written by now. *)
SignupAt(s) ==
  LET x == tx[s] IN
  /\ x.pc \in SignupPc
  /\ x.pc \in {"new", "find"} => DOMAIN x.own = {}
  /\ x.pc = "createUser" => x.user = s
  /\ x.pc \in {"createUser", "updateUser", "match", "location"} =>
       \A l \in Signups : ~Wrote(s, <<"location", l>>) /\ ~Wrote(s, <<"subscription", l>>)
  /\ x.pc \in Placed \cup {"match"} => Wrote(s, <<"user", x.user>>) \/ x.user # s
  /\ x.pc \in {"subscription", "method", "setting", "commit"} =>
       Wrote(s, <<"location", x.location>>)
  /\ x.pc \in {"method", "setting", "commit"} => Wrote(s, <<"subscription", x.location>>)
  /\ x.pc \in {"setting", "commit"} => Wrote(s, <<"method", x.user>>)
  /\ x.pc = "commit" /\ s \notin Dashboard => Wrote(s, <<"setting", x.user>>)

(* Its user is its own or one that is there, with its destination and its  *)
(* account; its location is its own or one of its user's.                  *)
SignupOf(s) ==
  LET x == tx[s] IN
  /\ x.pc \in Chosen \/ Done(s) =>
       /\ x.user \in Signups
       /\ Destination(x.user) = Destination(s) /\ accountOf[x.user] = accountOf[s]
       /\ x.user # s \/ Done(s) => db[<<"user", x.user>>] # Absent
  /\ x.pc \in Placed \/ Done(s) =>
       /\ x.location \in Signups
       /\ x.location # s \/ Done(s) => /\ db[<<"location", x.location>>] # Absent
                                       /\ db[<<"location", x.location>>].user = x.user
  /\ x.pc \in Placed /\ x.location # s => x.view[<<"location", x.location>>] # Absent

(* What an opt-out has written: rows of the users it found.                *)
OptOutRows(o) ==
  LET x == tx[o] IN
  \A u \in Signups :
    /\ Wrote(o, <<"user", u>>) => u \in x.users /\ x.own[<<"user", u>>] = "off"
    /\ Wrote(o, <<"method", u>>) => u \in x.users /\ x.own[<<"method", u>>] = "off"
    /\ ~Wrote(o, <<"setting", u>>) /\ ~Wrote(o, <<"location", u>>)
    /\ Wrote(o, <<"subscription", u>>) =>
         /\ x.own[<<"subscription", u>>] = "off"
         /\ db[<<"location", u>>] # Absent /\ db[<<"location", u>>].user \in x.users

OptOutAt(o) ==
  LET x == tx[o] IN
  /\ x.pc \in OptOutPc
  /\ x.pc \in {"new", "list"} => DOMAIN x.own = {}
  /\ x.pc \in Listed => \A u \in x.users : db[<<"user", u>>] # Absent
  /\ x.pc \in {"subscriptions", "commit"} => \A u \in x.users : Wrote(o, <<"method", u>>)

Fits(t) ==
  /\ Clock(t) /\ Remembers(t)
  /\ t \in Signups => SignupRows(t) /\ SignupAt(t) /\ SignupOf(t)
  /\ t \in OptOuts => OptOutRows(t) /\ OptOutAt(t)

(* Rows refer to rows that are there; users and locations are there once   *)
(* the signup they have their name of has committed them.                  *)
References ==
  \A u \in Signups :
    /\ db[<<"user", u>>] # Absent => Done(u) /\ tx[u].user = u
    /\ db[<<"location", u>>] # Absent =>
         /\ Done(u) /\ tx[u].location = u /\ db[<<"location", u>>].user = tx[u].user
         /\ db[<<"user", db[<<"location", u>>].user>>] # Absent
    /\ db[<<"method", u>>] # Absent => db[<<"user", u>>] # Absent
    /\ db[<<"setting", u>>] # Absent => db[<<"user", u>>] # Absent
    /\ db[<<"subscription", u>>] # Absent <=> db[<<"location", u>>] # Absent

Shape == WellTyped /\ References /\ \A t \in Requests : Fits(t)

-----------------------------------------------------------------------------
(* Types. *)

LEMMA RowType ==
  ASSUME NEW u \in Signups, NEW table \in Tables
  PROVE  <<table, u>> \in Rows
BY DEF Rows

LEMMA RowTypes ==
  ASSUME NEW u \in Signups
  PROVE  /\ <<"user", u>> \in Rows /\ <<"method", u>> \in Rows /\ <<"setting", u>> \in Rows
         /\ <<"subscription", u>> \in Rows /\ <<"location", u>> \in Rows
BY RowType DEF Tables

LEMMA RowParts ==
  ASSUME NEW r \in Rows
  PROVE  r = <<r[1], r[2]>> /\ r[1] \in Tables /\ r[2] \in Signups
BY DEF Rows

(* No row of the database is taken for one that is not there.              *)
LEMMA AbsentApart ==
  Absent # "on" /\ Absent # "off" /\ Absent \notin Signups /\ Absent \notin Location
<1>1. Values("location") = Location /\ Values("user") = {"on", "off"} /\ Values("setting") = Signups
  BY DEF Values
<1> QED
  BY <1>1, AbsentAssumption DEF Tables

LEMMA ShapeTypeOK ==
  ASSUME Shape
  PROVE  TypeOK
<1>1. ASSUME NEW r \in Rows
      PROVE  db[r] \in Values(r[1]) \cup {Absent}
  <2>1. r = <<r[1], r[2]>> /\ r[1] \in Tables /\ r[2] \in Signups
    BY <1>1, RowParts
  <2>2. RowsTyped(db)
    BY DEF Shape, WellTyped
  <2>3. CASE r[1] = "location"
    <3>1. Values("location") = Location
      BY DEF Values
    <3> QED
      BY <2>1, <2>2, <2>3, <3>1 DEF RowsTyped
  <2>4. CASE r[1] = "setting"
    <3>1. Values("setting") = Signups
      BY DEF Values
    <3> QED
      BY <2>1, <2>2, <2>4, <3>1 DEF RowsTyped
  <2>5. CASE r[1] \in {"user", "method", "subscription"}
    <3>1. /\ Values("user") = {"on", "off"} /\ Values("method") = {"on", "off"}
          /\ Values("subscription") = {"on", "off"}
      BY DEF Values
    <3> QED
      BY <2>1, <2>2, <2>5, <3>1 DEF RowsTyped
  <2> QED
    BY <2>1, <2>3, <2>4, <2>5 DEF Tables
<1>2. ASSUME NEW t \in Requests
      PROVE  /\ tx[t].pc \in Pc /\ tx[t].outcome \in Outcome
             /\ tx[t].user \in Signups \cup {None} /\ tx[t].location \in Signups \cup {None}
             /\ tx[t].shared \subseteq Signups /\ tx[t].users \subseteq Signups
  <2>1. tx[t] \in Tx
    BY DEF Shape, WellTyped
  <2> QED
    BY <2>1 DEF Tx
<1>3. ASSUME NEW s \in Signups
      PROVE  /\ db[<<"location", s>>] # Absent => db[<<"user", db[<<"location", s>>].user>>] # Absent
             /\ \A table \in {"method", "setting"} :
                  db[<<table, s>>] # Absent => db[<<"user", s>>] # Absent
             /\ db[<<"subscription", s>>] # Absent <=> db[<<"location", s>>] # Absent
  BY DEF Shape, References
<1> QED
  BY <1>1, <1>2, <1>3 DEF TypeOK, Shape, WellTyped

(* A request goes on as x. *)
LEMMA Moves ==
  ASSUME WellTyped, NEW t \in Requests, NEW x \in Tx, tx' = [tx EXCEPT ![t] = x]
  PROVE  /\ tx' \in [Requests -> Tx] /\ tx'[t] = x
         /\ \A q \in Requests \ {t} : tx'[q] = tx[q]
BY DEF WellTyped

(* What a statement does to its transaction. *)
LEMMA Executed ==
  ASSUME WellTyped, NEW t \in Requests, NEW rows \in SUBSET Rows, NEW value \in AnyValue,
         NEW pc \in Pc, Shares(t) \subseteq Signups, Execute(t, rows, value, pc)
  PROVE  /\ tx' \in [Requests -> Tx]
         /\ \A q \in Requests \ {t} : tx'[q] = tx[q]
         /\ tx'[t].pc = pc
         /\ DOMAIN tx'[t].own = rows \cup DOMAIN tx[t].own
         /\ \A r \in rows : tx'[t].own[r] = value
         /\ \A r \in DOMAIN tx[t].own \ rows : tx'[t].own[r] = tx[t].own[r]
         /\ tx'[t].view = tx[t].view /\ tx'[t].geocoded = tx[t].geocoded
         /\ tx'[t].user = tx[t].user /\ tx'[t].location = tx[t].location
         /\ tx'[t].users = tx[t].users
<1> DEFINE own == [r \in rows \cup DOMAIN tx[t].own |->
                    IF r \in rows THEN value ELSE tx[t].own[r]]
           x == [tx[t] EXCEPT !.own = own, !.shared = tx[t].shared \cup Shares(t), !.pc = pc]
<1>1. tx[t] \in Tx
  BY DEF WellTyped
<1>2. own \in UNION {[D -> AnyValue] : D \in SUBSET Rows}
  <2>1. PICK D \in SUBSET Rows : tx[t].own \in [D -> AnyValue]
    BY <1>1 DEF Tx
  <2>2. own \in [rows \cup D -> AnyValue] /\ rows \cup D \in SUBSET Rows
    BY <2>1
  <2> QED
    BY <2>2
<1>3. tx[t].shared \cup Shares(t) \in SUBSET Signups
  BY <1>1 DEF Tx
<1>4. /\ DOMAIN own = rows \cup DOMAIN tx[t].own
      /\ \A r \in rows : own[r] = value
      /\ \A r \in DOMAIN tx[t].own \ rows : own[r] = tx[t].own[r]
  OBVIOUS
<1> HIDE DEF own
<1>5. /\ x \in Tx /\ x.pc = pc /\ x.own = own /\ x.view = tx[t].view
      /\ x.geocoded = tx[t].geocoded /\ x.user = tx[t].user
      /\ x.location = tx[t].location /\ x.users = tx[t].users
  BY <1>1, <1>2, <1>3 DEF Tx
<1>6. tx' = [tx EXCEPT ![t] = x]
  BY DEF Execute, own
<1> HIDE DEF x
<1>7. tx' \in [Requests -> Tx] /\ tx'[t] = x /\ \A q \in Requests \ {t} : tx'[q] = tx[q]
  BY <1>5, <1>6, Moves
<1> QED
  BY <1>4, <1>5, <1>7

(* What the end of a request leaves of it. *)
LEMMA Ended ==
  ASSUME WellTyped, NEW t \in Requests, NEW outcome \in Outcome, Ends(t, outcome)
  PROVE  /\ tx' \in [Requests -> Tx]
         /\ \A q \in Requests \ {t} : tx'[q] = tx[q]
         /\ tx'[t].pc = "done" /\ DOMAIN tx'[t].own = {}
         /\ \A r \in Rows : tx'[t].view[r] = Absent
         /\ tx'[t].geocoded = tx[t].geocoded
         /\ tx'[t].user = tx[t].user /\ tx'[t].location = tx[t].location
         /\ tx'[t].users = tx[t].users
<1> DEFINE x == [Begun EXCEPT !.pc = "done", !.outcome = outcome,
                   !.geocoded = tx[t].geocoded, !.user = tx[t].user,
                   !.location = tx[t].location, !.users = tx[t].users]
<1>1. tx[t] \in Tx
  BY DEF WellTyped
<1>2. <<>> \in UNION {[D -> AnyValue] : D \in SUBSET Rows}
  <2>1. <<>> \in [{} -> AnyValue] /\ {} \in SUBSET Rows
    OBVIOUS
  <2> QED
    BY <2>1
<1>3. NoRows \in AnyRows /\ \A r \in Rows : NoRows[r] = Absent
  BY DEF NoRows, AnyRows
<1>4. /\ x \in Tx /\ x.pc = "done" /\ x.own = <<>> /\ x.view = NoRows
      /\ x.geocoded = tx[t].geocoded /\ x.user = tx[t].user
      /\ x.location = tx[t].location /\ x.users = tx[t].users
  BY <1>1, <1>2, <1>3 DEF Tx, Begun, Pc
<1>5. tx' = [tx EXCEPT ![t] = x]
  BY DEF Ends
<1> HIDE DEF x
<1>6. tx' \in [Requests -> Tx] /\ tx'[t] = x /\ \A q \in Requests \ {t} : tx'[q] = tx[q]
  BY <1>4, <1>5, Moves
<1> QED
  BY <1>3, <1>4, <1>6

-----------------------------------------------------------------------------
(* The steps that commit nothing. *)

LEMMA InProgress ==
  ASSUME Shape, NEW t \in Requests, tx[t].pc # "done"
  PROVE  ~Done(t) /\ span[t].to = 0
<1>1. Clock(t) /\ span[t] \in [from : Nat, to : Nat]
  BY DEF Shape, Fits, WellTyped
<1> QED
  BY <1>1 DEF Clock, Done

(* Rows stay once they are there, and locations stay with their user.      *)
Grows ==
  /\ \A r \in Rows : db[r] # Absent => db'[r] # Absent
  /\ \A l \in Signups : db[<<"location", l>>] # Absent
       => db'[<<"location", l>>].user = db[<<"location", l>>].user

(* Who does not take the step fits as before.                              *)
LEMMA OthersFit ==
  ASSUME Shape, NEW q \in Requests, Grows, typed' = typed,
         commits' \in Nat, commits' >= commits, tx'[q] = tx[q], span'[q] = span[q]
  PROVE  Fits(q)'
<1>1. Fits(q)
  BY DEF Shape
<1>2. Clock(q)'
  <2>1. span[q] \in [from : Nat, to : Nat] /\ commits \in Nat
    BY DEF Shape, WellTyped
  <2> QED
    BY <1>1, <2>1 DEF Fits, Clock, Done
<1>3. Remembers(q)'
  <2>1. Remembers(q)
    BY <1>1 DEF Fits
  <2>2. RowsTyped(tx[q].view)' /\ (\A r \in Rows : tx'[q].view[r] # Absent => db'[r] # Absent)
    BY <2>1 DEF Remembers, RowsTyped, Grows
  <2>3. ASSUME NEW l \in Signups, tx'[q].view[<<"location", l>>] # Absent
        PROVE  db'[<<"location", l>>].user = tx'[q].view[<<"location", l>>].user
    BY <2>1, <2>3, RowTypes DEF Remembers, Grows
  <2> QED
    BY <2>2, <2>3 DEF Remembers
<1>4. ASSUME q \in Signups
      PROVE  SignupRows(q)' /\ SignupAt(q)' /\ SignupOf(q)'
  <2>1. SignupRows(q)'
    BY <1>1, <1>4 DEF Fits, SignupRows, SignupRow, Wrote
  <2>2. SignupAt(q)'
    BY <1>1, <1>4 DEF Fits, SignupAt, Wrote
  <2>3. SignupOf(q)'
    BY <1>1, <1>4, RowTypes DEF Fits, SignupOf, Done, Destination, Grows
  <2> QED
    BY <2>1, <2>2, <2>3
<1>5. ASSUME q \in OptOuts
      PROVE  OptOutRows(q)' /\ OptOutAt(q)'
  <2>1. \A u \in tx[q].users : u \in Signups
    BY DEF Shape, WellTyped, Tx
  <2> QED
    BY <1>1, <1>5, <2>1, RowTypes DEF Fits, OptOutRows, OptOutAt, Wrote, Grows
<1> QED
  BY <1>2, <1>3, <1>4, <1>5 DEF Fits

(* A step of t that commits nothing keeps the shape if t still fits.       *)
LEMMA QuietShape ==
  ASSUME Shape, NEW t \in Requests, tx[t].pc # "done",
         typed' = typed, db' = db, commits' = commits, faults' \in Nat,
         tx' \in [Requests -> Tx], \A q \in Requests \ {t} : tx'[q] = tx[q],
         \/ span' = span
         \/ span' = [span EXCEPT ![t].from = commits],
         Fits(t)'
  PROVE  Shape'
<1>1. /\ span' \in [Requests -> [from : Nat, to : Nat]]
      /\ \A q \in Requests \ {t} : span'[q] = span[q]
      /\ span'[t].to = span[t].to
  BY DEF Shape, WellTyped
<1>2. WellTyped'
  BY <1>1 DEF Shape, WellTyped, RowsTyped
<1>3. ~Done(t) /\ ~Done(t)'
  BY <1>1, InProgress DEF Done
<1>4. References'
  <2>1. \A u \in Signups : Done(u) => u # t /\ u \in Requests
    BY <1>3 DEF Requests
  <2>2. \A u \in Signups : Done(u) => Done(u)' /\ tx'[u] = tx[u]
    BY <1>1, <2>1 DEF Done
  <2> QED
    BY <2>2 DEF References, Shape
<1>5. Grows /\ commits' \in Nat /\ commits' >= commits
  BY DEF Grows, Shape, WellTyped
<1>6. \A q \in Requests : Fits(q)'
  BY <1>1, <1>5, OthersFit
<1> QED
  BY <1>2, <1>4, <1>6 DEF Shape

(* A request that is over without a commit has written nothing.            *)
LEMMA EndingShape ==
  ASSUME Shape, NEW t \in Requests, tx[t].pc # "done", NEW outcome \in Outcome,
         Ends(t, outcome), typed' = typed, db' = db, commits' = commits, span' = span,
         faults' \in Nat
  PROVE  Shape'
<1>1. /\ tx' \in [Requests -> Tx]
      /\ \A q \in Requests \ {t} : tx'[q] = tx[q]
      /\ tx'[t].pc = "done" /\ DOMAIN tx'[t].own = {}
      /\ \A r \in Rows : tx'[t].view[r] = Absent
  BY Ended DEF Shape
<1>2. ~Done(t)' /\ span'[t] = span[t]
  BY InProgress DEF Done
<1>3. Clock(t)'
  BY <1>2 DEF Clock, Shape, Fits
<1>4. Remembers(t)'
  BY <1>1, RowType DEF Remembers, RowsTyped, Tables
<1>5. SignupRows(t)' /\ OptOutRows(t)'
  BY <1>1 DEF SignupRows, SignupRow, OptOutRows, Wrote
<1>6. t \in Signups => SignupAt(t)' /\ SignupOf(t)'
  BY <1>1, <1>2 DEF SignupAt, SignupOf, SignupPc, Chosen, Placed
<1>7. OptOutAt(t)'
  BY <1>1 DEF OptOutAt, OptOutPc, Listed
<1>8. Fits(t)'
  BY <1>3, <1>4, <1>5, <1>6, <1>7 DEF Fits
<1> QED
  BY <1>1, <1>8, QuietShape

(* A request that waits for another is not over: nothing is written by one *)
(* that is.                                                                *)
LEMMA WaitingIsOpen ==
  ASSUME NEW t \in Requests, ~Free(t)
  PROVE  tx[t].pc \notin {"new", "done"}
<1>1. PICK o \in Requests : WaitsFor(t, o)
  BY DEF Free
<1>2. ASSUME tx[t].pc \in {"new", "done"}
      PROVE  FALSE
  <2>1. Writes(t) = {} /\ Shares(t) = {}
    BY <1>2 DEF Writes, Shares
  <2> QED
    BY <1>1, <2>1 DEF WaitsFor
<1> QED
  BY <1>2

LEMMA ArriveShape ==
  ASSUME Shape, NEW t \in Requests, Arrive(t)
  PROVE  Shape'
<1>1. CASE Reject(t)
  BY <1>1, EndingShape DEF Reject, Local, Outcome, Shape, WellTyped
<1>2. ASSUME tx[t].pc = "new", NEW found \in BOOLEAN, NEW pc \in {"find", "list"},
             tx' = [tx EXCEPT ![t] = [tx[t] EXCEPT !.pc = pc, !.geocoded = found]], Local,
             pc = "find" => t \in Signups, pc = "list" => t \in OptOuts
      PROVE  Shape'
  <2> DEFINE x == [tx[t] EXCEPT !.pc = pc, !.geocoded = found]
  <2>1. tx[t] \in Tx /\ Fits(t)
    BY DEF Shape, WellTyped
  <2>2. /\ x \in Tx /\ x.pc = pc /\ x.own = tx[t].own /\ x.view = tx[t].view
        /\ x.user = tx[t].user /\ x.location = tx[t].location /\ x.users = tx[t].users
    BY <2>1, <1>2 DEF Tx, Pc
  <2>3. tx' = [tx EXCEPT ![t] = x]
    BY <1>2
  <2> HIDE DEF x
  <2>4. tx' \in [Requests -> Tx] /\ tx'[t] = x /\ \A q \in Requests \ {t} : tx'[q] = tx[q]
    BY <2>2, <2>3, Moves DEF Shape
  <2>5. DOMAIN tx[t].own = {}
    BY <1>2, <2>1, SignupAssumption DEF Fits, SignupAt, OptOutAt, Requests
  <2>6. ~Done(t)' /\ span'[t] = span[t]
    BY <1>2, InProgress DEF Done, Local
  <2>7. Clock(t)'
    BY <1>2, <2>1, <2>6 DEF Clock, Fits, Local
  <2>8. Remembers(t)'
    BY <1>2, <2>1, <2>2, <2>4, SMTT(30) DEF Remembers, RowsTyped, Fits, Local
  <2>9. SignupRows(t)' /\ OptOutRows(t)'
    BY <2>2, <2>4, <2>5 DEF SignupRows, SignupRow, OptOutRows, Wrote
  <2>10. t \in Signups => SignupAt(t)' /\ SignupOf(t)'
    BY <1>2, <2>2, <2>4, <2>5, <2>6, SignupAssumption
    DEF SignupAt, SignupOf, SignupPc, Chosen, Placed
  <2>11. t \in OptOuts => OptOutAt(t)'
    BY <1>2, <2>2, <2>4, <2>5, SignupAssumption DEF OptOutAt, OptOutPc, Listed
  <2>12. Fits(t)'
    BY <2>7, <2>8, <2>9, <2>10, <2>11 DEF Fits
  <2> QED
    BY <1>2, <2>4, <2>12, QuietShape DEF Local, Shape, WellTyped
<1>3. CASE t \in Signups /\ (SignUp(t) \/ CreateFromDashboard(t))
  <2>1. PICK found \in BOOLEAN : tx' = [tx EXCEPT ![t].pc = "find", ![t].geocoded = found]
    BY <1>3 DEF SignUp, CreateFromDashboard
  <2>2. tx' = [tx EXCEPT ![t] = [tx[t] EXCEPT !.pc = "find", !.geocoded = found]]
    BY <2>1 DEF Shape, WellTyped
  <2> QED
    BY <1>2, <1>3, <2>2 DEF SignUp, CreateFromDashboard
<1>4. CASE t \in OptOuts /\ ReceiveOptOut(t)
  <2>1. tx[t] \in Tx
    BY DEF Shape, WellTyped
  <2>2. tx[t].geocoded \in BOOLEAN /\ [tx[t] EXCEPT !.geocoded = tx[t].geocoded] = tx[t]
    BY <2>1 DEF Tx
  <2>3. tx' = [tx EXCEPT ![t] = [tx[t] EXCEPT !.pc = "list", !.geocoded = tx[t].geocoded]]
    BY <1>4, <2>1, <2>2 DEF ReceiveOptOut, Shape, WellTyped, Tx
  <2> QED
    BY <1>2, <1>4, <2>2, <2>3 DEF ReceiveOptOut
<1> QED
  BY <1>1, <1>3, <1>4 DEF Arrive

(* Find opens the snapshot and chooses the user; the own user has not been *)
(* inserted, another's row is there.                                       *)
LEMMA FindShape ==
  ASSUME Shape, NEW s \in Signups, Find(s)
  PROVE  Shape'
<1>1. s \in Requests /\ tx[s] \in Tx /\ Fits(s) /\ s \notin OptOuts
  BY SignupAssumption DEF Shape, WellTyped, Requests
<1>2. PICK u \in Signups, pc \in {"createUser", "updateUser", "match"} :
        /\ tx' = [tx EXCEPT ![s] = [tx[s] EXCEPT !.view = db, !.pc = pc, !.user = u]]
        /\ \/ u = s /\ pc = "createUser" /\ UsersWith(s, db) = {}
           \/ u \in UsersWith(s, db) /\ pc # "createUser"
  <2>1. CASE /\ UsersWith(s, db) = {}
             /\ tx' = [tx EXCEPT ![s] = [[tx[s] EXCEPT !.view = db] EXCEPT !.pc = "createUser", !.user = s]]
    BY <1>1, <2>1 DEF Tx
  <2>2. ASSUME NEW u \in UsersWith(s, db),
               tx' = [tx EXCEPT ![s] =
                 [[tx[s] EXCEPT !.view = db] EXCEPT
                    !.pc = IF Merges(s) THEN "updateUser" ELSE "match", !.user = u]]
        PROVE  \E pc \in {"createUser", "updateUser", "match"} :
                 /\ tx' = [tx EXCEPT ![s] = [tx[s] EXCEPT !.view = db, !.pc = pc, !.user = u]]
                 /\ pc # "createUser"
    <3> DEFINE pc == IF Merges(s) THEN "updateUser" ELSE "match"
    <3>1. pc \in {"updateUser", "match"}
      OBVIOUS
    <3>2. tx' = [tx EXCEPT ![s] = [tx[s] EXCEPT !.view = db, !.pc = pc, !.user = u]]
      BY <1>1, <2>2 DEF Tx
    <3> QED
      BY <3>1, <3>2
  <2>3. UsersWith(s, db) \subseteq Signups
    BY DEF UsersWith
  <2> QED
    BY <2>1, <2>2, <2>3 DEF Find
<1> DEFINE x == [tx[s] EXCEPT !.view = db, !.pc = pc, !.user = u]
<1>3. /\ x \in Tx /\ x.pc = pc /\ x.own = tx[s].own /\ x.view = db
      /\ x.user = u /\ x.location = tx[s].location /\ x.users = tx[s].users
  BY <1>1, <1>2 DEF Tx, Pc, Shape, WellTyped
<1> HIDE DEF x
<1>4. tx' \in [Requests -> Tx] /\ tx'[s] = x /\ \A q \in Requests \ {s} : tx'[q] = tx[q]
  BY <1>1, <1>2, <1>3, Moves DEF Shape, x
<1>5. tx[s].pc = "find" /\ DOMAIN tx[s].own = {}
  BY <1>1 DEF Fits, SignupAt, Find
<1>6. /\ ~Done(s) /\ ~Done(s)'
      /\ span'[s].from = commits /\ span'[s].to = 0
      /\ db' = db /\ commits' = commits /\ typed' = typed /\ faults' = faults
  <2>1. ~Done(s) /\ span[s].to = 0
    BY <1>1, <1>5, InProgress
  <2>2. span' = [span EXCEPT ![s].from = commits] /\ span \in [Requests -> [from : Nat, to : Nat]]
    BY DEF Find, Opens, Shape, WellTyped
  <2>3. span'[s].from = commits /\ span'[s].to = 0
    BY <1>1, <2>1, <2>2
  <2> QED
    BY <2>1, <2>3 DEF Find, Done
<1>7. Clock(s)'
  BY <1>6 DEF Clock, Shape, WellTyped
<1>8. Remembers(s)'
  BY <1>3, <1>4, <1>6 DEF Remembers, RowsTyped, Shape, WellTyped
<1>9. SignupRows(s)'
  BY <1>3, <1>4, <1>5 DEF SignupRows, SignupRow, Wrote
<1>10. SignupAt(s)'
  <2>1. u # s \/ pc = "createUser"
    <3>1. ASSUME s \in UsersWith(s, db)
          PROVE  FALSE
      <4>1. db[<<"user", s>>] = "on"
        BY <3>1 DEF UsersWith, Active
      <4> QED
        BY <4>1, <1>6, AbsentApart DEF Shape, References
    <3> QED
      BY <1>2, <3>1
  <2> QED
    BY <1>2, <1>3, <1>4, <1>5, <2>1 DEF SignupAt, Wrote, SignupPc, Placed
<1>11. SignupOf(s)'
  <2>1. Destination(u) = Destination(s) /\ accountOf[u] = accountOf[s]
    BY <1>2 DEF UsersWith
  <2>2. u # s => db[<<"user", u>>] # Absent
    BY <1>2, AbsentApart DEF UsersWith, Active
  <2> QED
    BY <1>2, <1>3, <1>4, <1>6, <2>1, <2>2 DEF SignupOf, Destination, Placed
<1>12. Fits(s)'
  BY <1>1, <1>7, <1>8, <1>9, <1>10, <1>11 DEF Fits
<1>13. span' = [span EXCEPT ![s].from = commits]
  BY DEF Find, Opens
<1>14. faults' \in Nat
  BY <1>6 DEF Shape, WellTyped
<1> QED
  BY <1>1, <1>4, <1>5, <1>6, <1>12, <1>13, <1>14, QuietShape

(* Match chooses the location: the signup's own, or one of its user.       *)
LEMMA MatchShape ==
  ASSUME Shape, NEW s \in Signups, Match(s)
  PROVE  Shape'
<1>1. s \in Requests /\ tx[s] \in Tx /\ Fits(s) /\ s \notin OptOuts /\ tx[s].pc = "match"
  BY SignupAssumption DEF Shape, WellTyped, Requests, Match
<1>2. PICK l \in IF Matching(s) = {} THEN {s} ELSE Matching(s) :
        tx' = [tx EXCEPT ![s].pc = "location", ![s].location = l]
  BY DEF Match
<1>3. l \in Signups /\ (l # s => l \in Matching(s))
  BY <1>2 DEF Matching
<1> DEFINE x == [tx[s] EXCEPT !.pc = "location", !.location = l]
<1>4. /\ x \in Tx /\ x.pc = "location" /\ x.own = tx[s].own /\ x.view = tx[s].view
      /\ x.user = tx[s].user /\ x.location = l /\ x.users = tx[s].users
      /\ x.geocoded = tx[s].geocoded
  BY <1>1, <1>3 DEF Tx, Pc
<1>5. tx' = [tx EXCEPT ![s] = x]
  BY <1>2 DEF Shape, WellTyped
<1> HIDE DEF x
<1>6. tx' \in [Requests -> Tx] /\ tx'[s] = x /\ \A q \in Requests \ {s} : tx'[q] = tx[q]
  BY <1>1, <1>4, <1>5, Moves DEF Shape
<1>7. ~Done(s) /\ ~Done(s)'
  BY <1>1, InProgress DEF Match, Local, Done
<1>8. \A q \in Signups : ~Wrote(s, <<"location", q>>) /\ ~Wrote(s, <<"subscription", q>>)
  BY <1>1 DEF Fits, SignupAt
<1>9. Clock(s)' /\ Remembers(s)'
  BY <1>1, <1>4, <1>6, <1>7, ZenonT(40) DEF Clock, Remembers, RowsTyped, Match, Local, Fits
<1>10. SignupRows(s)'
  BY <1>1, <1>4, <1>6, <1>8 DEF SignupRows, SignupRow, Wrote, Fits
<1>11. SignupAt(s)'
  BY <1>1, <1>4, <1>6, <1>8 DEF SignupAt, Wrote, Fits, SignupPc, Placed
<1>12. SignupOf(s)'
  <2>1. /\ tx[s].user \in Signups
        /\ Destination(tx[s].user) = Destination(s) /\ accountOf[tx[s].user] = accountOf[s]
        /\ tx[s].user # s => db[<<"user", tx[s].user>>] # Absent
    BY <1>1, <1>7 DEF Fits, SignupOf, Chosen
  <2>2. ASSUME l # s
        PROVE  /\ tx[s].view[<<"location", l>>] # Absent
               /\ db[<<"location", l>>] # Absent
               /\ db[<<"location", l>>].user = tx[s].user
    <3>1. /\ tx[s].view[<<"location", l>>] # Absent
          /\ tx[s].view[<<"location", l>>].user = tx[s].user
      BY <1>3, <1>8, <2>2 DEF Matching, Seen
    <3> QED
      BY <1>1, <1>3, <3>1, RowType DEF Fits, Remembers, Tables
  <2> QED
    BY <1>3, <1>4, <1>6, <1>7, <2>1, <2>2 DEF SignupOf, Match, Local, Destination, Placed, Chosen
<1>13. Fits(s)'
  BY <1>1, <1>9, <1>10, <1>11, <1>12 DEF Fits
<1> QED
  BY <1>1, <1>6, <1>13, QuietShape DEF Match, Local, Shape, WellTyped

LEMMA SharesType ==
  ASSUME Shape, NEW t \in Requests
  PROVE  Shares(t) \subseteq Signups
<1>1. Fits(t)
  BY DEF Shape
<1>2. CASE t \in OptOuts
  <2>1. tx[t].pc \notin {"subscription", "method", "setting"}
    BY <1>1, <1>2 DEF Fits, OptOutAt, OptOutPc
  <2> QED
    BY <2>1 DEF Shares
<1>3. CASE t \in Signups
  BY <1>1, <1>3 DEF Fits, SignupOf, Shares, Chosen
<1> QED
  BY <1>2, <1>3 DEF Requests

(* A signup's statement writes one row, and keeps its user and location.   *)
LEMMA SignupWrites ==
  ASSUME Shape, NEW s \in Signups, tx[s].pc \in Chosen,
         NEW table \in Tables, NEW u \in Signups, NEW value \in AnyValue,
         NEW pc \in SignupPc \ {"done"}, pc \in Placed => tx[s].pc \in Placed,
         Execute(s, {<<table, u>>}, value, pc), Local
  PROVE  /\ tx'[s].pc = pc
         /\ \A r \in Rows : Wrote(s, r)' <=> (r = <<table, u>> \/ Wrote(s, r))
         /\ tx'[s].own[<<table, u>>] = value
         /\ \A r \in Rows : Wrote(s, r) /\ r # <<table, u>> => tx'[s].own[r] = tx[s].own[r]
         /\ tx'[s].view = tx[s].view /\ tx'[s].geocoded = tx[s].geocoded
         /\ tx'[s].user = tx[s].user /\ tx'[s].location = tx[s].location
         /\ tx[s].user \in Signups /\ (tx[s].pc \in Placed => tx[s].location \in Signups)
         /\ SignupRows(s) /\ SignupAt(s)
         /\ SignupRows(s)' /\ SignupAt(s)' => Shape'
<1>1. s \in Requests /\ s \notin OptOuts /\ Fits(s)
  BY SignupAssumption DEF Shape, Requests
<1>2. /\ tx' \in [Requests -> Tx]
      /\ \A q \in Requests \ {s} : tx'[q] = tx[q]
      /\ tx'[s].pc = pc
      /\ DOMAIN tx'[s].own = {<<table, u>>} \cup DOMAIN tx[s].own
      /\ \A r \in {<<table, u>>} : tx'[s].own[r] = value
      /\ \A r \in DOMAIN tx[s].own \ {<<table, u>>} : tx'[s].own[r] = tx[s].own[r]
      /\ tx'[s].view = tx[s].view /\ tx'[s].geocoded = tx[s].geocoded
      /\ tx'[s].user = tx[s].user /\ tx'[s].location = tx[s].location
  <2>1. {<<table, u>>} \in SUBSET Rows
    BY RowType
  <2>2. pc \in Pc
    BY DEF SignupPc, Pc
  <2>3. WellTyped /\ Shares(s) \subseteq Signups
    BY <1>1, SharesType DEF Shape
  <2> DEFINE rows == {<<table, u>>}
  <2>4. Execute(s, rows, value, pc) /\ rows \in SUBSET Rows
    BY <2>1
  <2> HIDE DEF rows
  <2>5. /\ tx' \in [Requests -> Tx]
        /\ \A q \in Requests \ {s} : tx'[q] = tx[q]
        /\ tx'[s].pc = pc
        /\ DOMAIN tx'[s].own = rows \cup DOMAIN tx[s].own
        /\ \A r \in rows : tx'[s].own[r] = value
        /\ \A r \in DOMAIN tx[s].own \ rows : tx'[s].own[r] = tx[s].own[r]
        /\ tx'[s].view = tx[s].view /\ tx'[s].geocoded = tx[s].geocoded
        /\ tx'[s].user = tx[s].user /\ tx'[s].location = tx[s].location
    BY <1>1, <2>2, <2>3, <2>4, Executed
  <2> QED
    BY <2>5 DEF rows
<1>3. /\ SignupRows(s) /\ SignupAt(s) /\ SignupOf(s)
      /\ tx[s].user \in Signups /\ (tx[s].pc \in Placed => tx[s].location \in Signups)
  BY <1>1 DEF Fits, SignupOf
<1>4. ASSUME SignupRows(s)', SignupAt(s)'
      PROVE  Shape'
  <2>1. tx[s].pc # "done"
    BY DEF Chosen
  <2>2. ~Done(s) /\ ~Done(s)'
    BY <1>1, <2>1, InProgress DEF Local, Done
  <2>3. Clock(s)' /\ Remembers(s)'
    BY <1>1, <1>2, <2>2 DEF Fits, Clock, Remembers, RowsTyped, Local
  <2>4. SignupOf(s)'
    BY <1>2, <1>3, <2>2 DEF SignupOf, Local, Destination
  <2>5. Fits(s)'
    BY <1>1, <1>4, <2>3, <2>4 DEF Fits
  <2> QED
    BY <1>1, <1>2, <2>1, <2>5, QuietShape DEF Local, Shape, WellTyped
<1>5. /\ \A r \in Rows : Wrote(s, r)' <=> (r = <<table, u>> \/ Wrote(s, r))
      /\ tx'[s].own[<<table, u>>] = value
      /\ \A r \in Rows : Wrote(s, r) /\ r # <<table, u>> => tx'[s].own[r] = tx[s].own[r]
  BY <1>2 DEF Wrote
<1> QED
  BY <1>2, <1>3, <1>4, <1>5

(* createSignupUser, updateSignupUser *)
LEMMA UserShape ==
  ASSUME Shape, NEW s \in Signups, CreateUser(s) \/ UpdateUser(s)
  PROVE  Shape'
<1> DEFINE u == tx[s].user
<1>1. /\ tx[s].pc \in {"createUser", "updateUser"} /\ Local
      /\ Execute(s, {<<"user", u>>}, "on", "match")
  BY DEF CreateUser, UpdateUser, UserRow
<1>2. u \in Signups
  BY <1>1 DEF Shape, Requests, Fits, SignupOf, Chosen
<1>3. tx[s].pc \in Chosen /\ "user" \in Tables /\ "on" \in AnyValue /\ "match" \in SignupPc \ {"done"}
      /\ "match" \notin Placed
  BY <1>1 DEF Chosen, Tables, AnyValue, SignupPc, Placed
<1>4. /\ tx'[s].pc = "match"
      /\ \A r \in Rows : Wrote(s, r)' <=> (r = <<"user", u>> \/ Wrote(s, r))
      /\ tx'[s].own[<<"user", u>>] = "on"
      /\ \A r \in Rows : Wrote(s, r) /\ r # <<"user", u>> => tx'[s].own[r] = tx[s].own[r]
      /\ tx'[s].view = tx[s].view /\ tx'[s].geocoded = tx[s].geocoded
      /\ tx'[s].user = tx[s].user /\ tx'[s].location = tx[s].location
      /\ SignupRows(s) /\ SignupAt(s)
      /\ SignupRows(s)' /\ SignupAt(s)' => Shape'
  BY <1>1, <1>2, <1>3, SignupWrites
<1> HIDE DEF u
<1>5. SignupRows(s)'
  <2>1. ASSUME NEW v \in Signups
        PROVE  SignupRow(s, v)'
    <3>1. /\ <<"user", v>> \in Rows /\ <<"method", v>> \in Rows /\ <<"setting", v>> \in Rows
          /\ <<"subscription", v>> \in Rows /\ <<"location", v>> \in Rows
      BY RowTypes
    <3>2. SignupRow(s, v)
      BY <1>4 DEF SignupRows
    <3> QED
      BY <1>4, <3>1, <3>2 DEF SignupRow, u
  <2> QED
    BY <2>1 DEF SignupRows
<1>6. SignupAt(s)'
  BY <1>1, <1>2, <1>4, RowType DEF SignupAt, Tables, SignupPc, Placed, u
<1> QED
  BY <1>4, <1>5, <1>6

(* createSignupLocation, updateSignupLocation *)
LEMMA LocationShape ==
  ASSUME Shape, NEW s \in Signups, CreateLocation(s) \/ UpdateLocation(s)
  PROVE  Shape'
<1> DEFINE l == tx[s].location
           row == IF l = s THEN Absent ELSE Seen(s, <<"location", l>>)
           value == [user |-> tx[s].user, key |-> Key(s), area |-> AreaOf(s, row)]
<1>1. /\ tx[s].pc = "location" /\ Local
      /\ Execute(s, {<<"location", l>>}, value, "subscription")
  BY DEF CreateLocation, UpdateLocation, WriteLocation, Writes
<1>2. /\ s \in Requests /\ tx[s].user \in Signups /\ l \in Signups
      /\ l # s => tx[s].view[<<"location", l>>] # Absent
      /\ tx[s].geocoded \in BOOLEAN /\ ~Wrote(s, <<"location", l>>)
      /\ tx[s].view[<<"location", l>>] \in Location \cup {Absent}
  BY <1>1 DEF Shape, WellTyped, Tx, Requests, Fits, SignupOf, SignupAt, Chosen, Placed,
     Remembers, RowsTyped
<1>3. AreaOf(s, row) = (tx[s].geocoded \/ (l # s /\ tx[s].view[<<"location", l>>].area))
  BY <1>2 DEF AreaOf, Seen
<1>4. value \in Location /\ value.user = tx[s].user /\ value.area = AreaOf(s, row)
  <2>1. AreaOf(s, row) \in BOOLEAN
    BY <1>2, <1>3 DEF Location
  <2>2. Key(s) \in Spellings
    BY DEF Key, Spellings
  <2> QED
    BY <1>2, <2>1, <2>2 DEF Location
<1> HIDE DEF value, row
<1>5. /\ tx[s].pc \in Chosen /\ tx[s].pc \in Placed /\ "location" \in Tables /\ value \in AnyValue
      /\ "subscription" \in SignupPc \ {"done"}
  BY <1>1, <1>4 DEF Chosen, Tables, AnyValue, SignupPc, Placed
<1>6. /\ tx'[s].pc = "subscription"
      /\ \A r \in Rows : Wrote(s, r)' <=> (r = <<"location", l>> \/ Wrote(s, r))
      /\ tx'[s].own[<<"location", l>>] = value
      /\ \A r \in Rows : Wrote(s, r) /\ r # <<"location", l>> => tx'[s].own[r] = tx[s].own[r]
      /\ tx'[s].view = tx[s].view /\ tx'[s].geocoded = tx[s].geocoded
      /\ tx'[s].user = tx[s].user /\ tx'[s].location = tx[s].location
      /\ SignupRows(s) /\ SignupAt(s)
      /\ SignupRows(s)' /\ SignupAt(s)' => Shape'
  BY <1>1, <1>2, <1>5, SignupWrites
<1> HIDE DEF l
<1>7. SignupRows(s)'
  <2>1. ASSUME NEW v \in Signups
        PROVE  SignupRow(s, v)'
    <3>1. /\ <<"user", v>> \in Rows /\ <<"method", v>> \in Rows /\ <<"setting", v>> \in Rows
          /\ <<"subscription", v>> \in Rows /\ <<"location", v>> \in Rows
      BY RowTypes
    <3>2. SignupRow(s, v)
      BY <1>6 DEF SignupRows
    <3> QED
      BY <1>2, <1>3, <1>4, <1>6, <3>1, <3>2 DEF SignupRow, l
  <2> QED
    BY <2>1 DEF SignupRows
<1>8. SignupAt(s)'
  BY <1>1, <1>2, <1>6, RowType DEF SignupAt, Tables, SignupPc, Placed, l
<1> QED
  BY <1>6, <1>7, <1>8
(* Subscribe, UpsertContactMethod and the settings. *)
LEMMA SubscribeShape ==
  ASSUME Shape, NEW s \in Signups, Subscribe(s)
  PROVE  Shape'
<1> DEFINE u == tx[s].location
           pc == "method"
<1>1. /\ tx[s].pc = "subscription" /\ Local
      /\ Execute(s, {<<"subscription", u>>}, "on", pc)
  BY DEF Subscribe, Writes
<1>2. u \in Signups
  BY <1>1 DEF Shape, Requests, Fits, SignupOf, Chosen, Placed
<1>3. /\ tx[s].pc \in Chosen /\ tx[s].pc \in Placed /\ "subscription" \in Tables
      /\ "on" \in AnyValue /\ pc \in SignupPc \ {"done"}
  BY <1>1 DEF Chosen, Tables, AnyValue, SignupPc, Placed
<1> HIDE DEF u, pc
<1>4. /\ tx'[s].pc = pc
      /\ \A r \in Rows : Wrote(s, r)' <=> (r = <<"subscription", u>> \/ Wrote(s, r))
      /\ tx'[s].own[<<"subscription", u>>] = "on"
      /\ \A r \in Rows : Wrote(s, r) /\ r # <<"subscription", u>> => tx'[s].own[r] = tx[s].own[r]
      /\ tx'[s].view = tx[s].view /\ tx'[s].geocoded = tx[s].geocoded
      /\ tx'[s].user = tx[s].user /\ tx'[s].location = tx[s].location
      /\ tx[s].user \in Signups /\ (tx[s].pc \in Placed => tx[s].location \in Signups)
      /\ SignupRows(s) /\ SignupAt(s)
      /\ SignupRows(s)' /\ SignupAt(s)' => Shape'
  BY <1>1, <1>2, <1>3, SignupWrites
<1>5. SignupRows(s)'
  <2>1. ASSUME NEW v \in Signups
        PROVE  SignupRow(s, v)'
    <3>1. /\ <<"user", v>> \in Rows /\ <<"method", v>> \in Rows /\ <<"setting", v>> \in Rows
          /\ <<"subscription", v>> \in Rows /\ <<"location", v>> \in Rows
      BY RowTypes
    <3>2. SignupRow(s, v)
      BY <1>4 DEF SignupRows
    <3> QED
      BY <1>4, <3>1, <3>2 DEF SignupRow, u
  <2> QED
    BY <2>1 DEF SignupRows
<1>6. SignupAt(s)'
  <2>1. /\ <<"user", tx[s].user>> \in Rows /\ <<"method", tx[s].user>> \in Rows
        /\ <<"setting", tx[s].user>> \in Rows
        /\ <<"subscription", tx[s].location>> \in Rows /\ <<"location", tx[s].location>> \in Rows
    BY <1>3, <1>4, RowTypes
  <2> QED
    BY <1>1, <1>2, <1>3, <1>4, <2>1, RowTypes DEF SignupAt, SignupPc, Placed, u, pc
<1> QED
  BY <1>4, <1>5, <1>6

LEMMA MethodShape ==
  ASSUME Shape, NEW s \in Signups, UpsertMethod(s)
  PROVE  Shape'
<1> DEFINE u == tx[s].user
           pc == IF s \in Dashboard THEN "commit" ELSE "setting"
<1>1. /\ tx[s].pc = "method" /\ Local
      /\ Execute(s, {<<"method", u>>}, "on", pc)
  BY DEF UpsertMethod, Writes
<1>2. u \in Signups
  BY <1>1 DEF Shape, Requests, Fits, SignupOf, Chosen, Placed
<1>3. /\ tx[s].pc \in Chosen /\ tx[s].pc \in Placed /\ "method" \in Tables
      /\ "on" \in AnyValue /\ pc \in SignupPc \ {"done"}
  BY <1>1 DEF Chosen, Tables, AnyValue, SignupPc, Placed
<1> HIDE DEF u, pc
<1>4. /\ tx'[s].pc = pc
      /\ \A r \in Rows : Wrote(s, r)' <=> (r = <<"method", u>> \/ Wrote(s, r))
      /\ tx'[s].own[<<"method", u>>] = "on"
      /\ \A r \in Rows : Wrote(s, r) /\ r # <<"method", u>> => tx'[s].own[r] = tx[s].own[r]
      /\ tx'[s].view = tx[s].view /\ tx'[s].geocoded = tx[s].geocoded
      /\ tx'[s].user = tx[s].user /\ tx'[s].location = tx[s].location
      /\ tx[s].user \in Signups /\ (tx[s].pc \in Placed => tx[s].location \in Signups)
      /\ SignupRows(s) /\ SignupAt(s)
      /\ SignupRows(s)' /\ SignupAt(s)' => Shape'
  BY <1>1, <1>2, <1>3, SignupWrites
<1>5. SignupRows(s)'
  <2>1. ASSUME NEW v \in Signups
        PROVE  SignupRow(s, v)'
    <3>1. /\ <<"user", v>> \in Rows /\ <<"method", v>> \in Rows /\ <<"setting", v>> \in Rows
          /\ <<"subscription", v>> \in Rows /\ <<"location", v>> \in Rows
      BY RowTypes
    <3>2. SignupRow(s, v)
      BY <1>4 DEF SignupRows
    <3> QED
      BY <1>4, <3>1, <3>2 DEF SignupRow, u
  <2> QED
    BY <2>1 DEF SignupRows
<1>6. SignupAt(s)'
  <2>1. /\ <<"user", tx[s].user>> \in Rows /\ <<"method", tx[s].user>> \in Rows
        /\ <<"setting", tx[s].user>> \in Rows
        /\ <<"subscription", tx[s].location>> \in Rows /\ <<"location", tx[s].location>> \in Rows
    BY <1>3, <1>4, RowTypes
  <2> QED
    BY <1>1, <1>2, <1>3, <1>4, <2>1, RowTypes DEF SignupAt, SignupPc, Placed, u, pc
<1> QED
  BY <1>4, <1>5, <1>6

LEMMA SettingShape ==
  ASSUME Shape, NEW s \in Signups, UpsertSettings(s)
  PROVE  Shape'
<1> DEFINE u == tx[s].user
           pc == "commit"
<1>1. /\ tx[s].pc = "setting" /\ Local
      /\ Execute(s, {<<"setting", u>>}, s, pc)
  BY DEF UpsertSettings, Writes
<1>2. u \in Signups
  BY <1>1 DEF Shape, Requests, Fits, SignupOf, Chosen, Placed
<1>3. /\ tx[s].pc \in Chosen /\ tx[s].pc \in Placed /\ "setting" \in Tables
      /\ s \in AnyValue /\ pc \in SignupPc \ {"done"}
  BY <1>1 DEF Chosen, Tables, AnyValue, SignupPc, Placed
<1> HIDE DEF u, pc
<1>4. /\ tx'[s].pc = pc
      /\ \A r \in Rows : Wrote(s, r)' <=> (r = <<"setting", u>> \/ Wrote(s, r))
      /\ tx'[s].own[<<"setting", u>>] = s
      /\ \A r \in Rows : Wrote(s, r) /\ r # <<"setting", u>> => tx'[s].own[r] = tx[s].own[r]
      /\ tx'[s].view = tx[s].view /\ tx'[s].geocoded = tx[s].geocoded
      /\ tx'[s].user = tx[s].user /\ tx'[s].location = tx[s].location
      /\ tx[s].user \in Signups /\ (tx[s].pc \in Placed => tx[s].location \in Signups)
      /\ SignupRows(s) /\ SignupAt(s)
      /\ SignupRows(s)' /\ SignupAt(s)' => Shape'
  BY <1>1, <1>2, <1>3, SignupWrites
<1>5. SignupRows(s)'
  <2>1. ASSUME NEW v \in Signups
        PROVE  SignupRow(s, v)'
    <3>1. /\ <<"user", v>> \in Rows /\ <<"method", v>> \in Rows /\ <<"setting", v>> \in Rows
          /\ <<"subscription", v>> \in Rows /\ <<"location", v>> \in Rows
      BY RowTypes
    <3>2. SignupRow(s, v)
      BY <1>4 DEF SignupRows
    <3> QED
      BY <1>4, <3>1, <3>2 DEF SignupRow, u
  <2> QED
    BY <2>1 DEF SignupRows
<1>6. SignupAt(s)'
  <2>1. /\ <<"user", tx[s].user>> \in Rows /\ <<"method", tx[s].user>> \in Rows
        /\ <<"setting", tx[s].user>> \in Rows
        /\ <<"subscription", tx[s].location>> \in Rows /\ <<"location", tx[s].location>> \in Rows
    BY <1>3, <1>4, RowTypes
  <2> QED
    BY <1>1, <1>2, <1>3, <1>4, <2>1, RowTypes DEF SignupAt, SignupPc, Placed, u, pc
<1> QED
  BY <1>4, <1>5, <1>6

(* The opt-out's list: whoever it finds has a row. *)
LEMMA ListShape ==
  ASSUME Shape, NEW o \in OptOuts, ListMethods(o)
  PROVE  Shape'
<1>1. o \in Requests /\ tx[o] \in Tx /\ Fits(o) /\ o \notin Signups /\ tx[o].pc = "list"
  BY SignupAssumption DEF Shape, WellTyped, Requests, ListMethods
<1> DEFINE found == {u \in Signups : Destination(u) \in Variants(o) /\ db[<<"method", u>>] = "on"}
<1>2. CASE Ends(o, "notFound") /\ UNCHANGED span
  BY <1>1, <1>2, EndingShape DEF ListMethods, Outcome, Shape, WellTyped
<1>3. CASE tx' = [tx EXCEPT ![o].pc = "users", ![o].users = found] /\ Opens(o)
  <2> DEFINE x == [tx[o] EXCEPT !.pc = "users", !.users = found]
  <2>1. /\ x \in Tx /\ x.pc = "users" /\ x.own = tx[o].own /\ x.view = tx[o].view
        /\ x.users = found
    BY <1>1 DEF Tx, Pc
  <2>2. tx' = [tx EXCEPT ![o] = x]
    BY <1>3 DEF Shape, WellTyped
  <2>3. \A u \in found : db[<<"user", u>>] # Absent
    BY AbsentApart DEF Shape, References
  <2> HIDE DEF found, x
  <2>4. tx' \in [Requests -> Tx] /\ tx'[o] = x /\ \A q \in Requests \ {o} : tx'[q] = tx[q]
    BY <1>1, <2>1, <2>2, Moves DEF Shape
  <2>5. ~Done(o) /\ span[o].to = 0 /\ DOMAIN tx[o].own = {}
    BY <1>1, InProgress DEF Fits, OptOutAt
  <2>6. /\ span' = [span EXCEPT ![o].from = commits] /\ span \in [Requests -> [from : Nat, to : Nat]]
        /\ db' = db /\ commits' = commits /\ typed' = typed /\ faults' = faults
    BY <1>3 DEF ListMethods, Opens, Shape, WellTyped
  <2>7. span'[o].from = commits /\ span'[o].to = 0
    BY <1>1, <2>5, <2>6
  <2>8. Clock(o)'
    BY <2>6, <2>7 DEF Clock, Done, Shape, WellTyped
  <2>9. Remembers(o)'
    BY <1>1, <2>1, <2>4, <2>6 DEF Remembers, RowsTyped, Fits
  <2>10. OptOutRows(o)'
    BY <2>1, <2>4, <2>5 DEF OptOutRows, Wrote
  <2>11. OptOutAt(o)'
    BY <2>1, <2>3, <2>4, <2>6 DEF OptOutAt, OptOutPc
  <2>12. Fits(o)'
    BY <1>1, <2>8, <2>9, <2>10, <2>11 DEF Fits
  <2>13. faults' \in Nat
    BY <2>6 DEF Shape, WellTyped
  <2> QED
    BY <1>1, <2>4, <2>6, <2>12, <2>13, QuietShape
<1> QED
  BY <1>2, <1>3 DEF ListMethods

(* A statement of an opt-out switches rows off. *)
SwitchesOff(o, rows, pc) ==
  /\ tx'[o].pc = pc
  /\ \A r \in Rows : Wrote(o, r)' <=> (r \in rows \/ Wrote(o, r))
  /\ \A r \in rows : tx'[o].own[r] = "off"
  /\ \A r \in Rows : Wrote(o, r) /\ r \notin rows => tx'[o].own[r] = tx[o].own[r]
  /\ tx'[o].users = tx[o].users /\ tx[o].users \in SUBSET Signups
  /\ OptOutRows(o) /\ OptOutAt(o)
  /\ OptOutRows(o)' /\ OptOutAt(o)' => Shape'

LEMMA OptOutWrites ==
  ASSUME Shape, NEW o \in OptOuts, tx[o].pc \in Listed,
         NEW rows, rows \subseteq Rows, NEW pc, pc \in OptOutPc \ {"done"},
         Execute(o, rows, "off", pc), Local
  PROVE  SwitchesOff(o, rows, pc)
<1>1. o \in Requests /\ o \notin Signups /\ Fits(o)
  BY SignupAssumption DEF Shape, Requests
<1>2. pc \in Pc /\ WellTyped /\ Shares(o) \subseteq Signups /\ "off" \in AnyValue
  BY <1>1, SharesType DEF Shape, OptOutPc, Pc, AnyValue
<1>3. /\ tx' \in [Requests -> Tx]
      /\ \A q \in Requests \ {o} : tx'[q] = tx[q]
      /\ tx'[o].pc = pc
      /\ DOMAIN tx'[o].own = rows \cup DOMAIN tx[o].own
      /\ \A r \in rows : tx'[o].own[r] = "off"
      /\ \A r \in DOMAIN tx[o].own \ rows : tx'[o].own[r] = tx[o].own[r]
      /\ tx'[o].view = tx[o].view
      /\ tx'[o].users = tx[o].users
  BY <1>1, <1>2, Executed
<1>4. OptOutRows(o) /\ OptOutAt(o)
  BY <1>1 DEF Fits
<1>5. tx[o].users \in SUBSET Signups
  BY <1>1 DEF Shape, WellTyped, Tx
<1>6. ASSUME OptOutRows(o)', OptOutAt(o)'
      PROVE  Shape'
  <2>1. tx[o].pc # "done"
    BY DEF Listed
  <2>2. ~Done(o) /\ ~Done(o)'
    BY <1>1, <2>1, InProgress DEF Local, Done
  <2>3. Clock(o)' /\ Remembers(o)'
    BY <1>1, <1>3, <2>2 DEF Fits, Clock, Remembers, RowsTyped, Local
  <2>4. Fits(o)'
    BY <1>1, <1>6, <2>3 DEF Fits
  <2> QED
    BY <1>1, <1>3, <2>1, <2>4, QuietShape DEF Local, Shape, WellTyped
<1>7. /\ \A r \in Rows : Wrote(o, r)' <=> (r \in rows \/ Wrote(o, r))
      /\ \A r \in Rows : Wrote(o, r) /\ r \notin rows => tx'[o].own[r] = tx[o].own[r]
  BY <1>3 DEF Wrote
<1> QED
  BY <1>3, <1>4, <1>5, <1>6, <1>7 DEF SwitchesOff

LEMMA DeactivateShape ==
  ASSUME Shape, NEW o \in OptOuts, DeactivateUsers(o) \/ DeactivateMethods(o)
  PROVE  Shape'
<1> DEFINE users == tx[o].users
           table == IF tx[o].pc = "users" THEN "user" ELSE "method"
           rows == {table} \X users
           pc == IF tx[o].pc = "users" THEN "methods" ELSE "subscriptions"
<1>1. /\ tx[o].pc \in {"users", "methods"} /\ Local
      /\ Execute(o, rows, "off", pc)
  BY DEF DeactivateUsers, DeactivateMethods, Writes
<1>2. users \in SUBSET Signups
  BY DEF Shape, WellTyped, Tx, Requests
<1>3. rows \subseteq Rows /\ pc \in OptOutPc \ {"done"} /\ tx[o].pc \in Listed
  <2>1. table \in Tables
    BY DEF Tables
  <2>2. rows \subseteq Rows
    BY <1>2, <2>1 DEF Rows
  <2> QED
    BY <1>1, <2>2 DEF OptOutPc, Listed
<1>4. ASSUME NEW r
      PROVE  r \in rows <=> \E u \in users : r = <<table, u>>
  OBVIOUS
<1> HIDE DEF rows
<1>5. SwitchesOff(o, rows, pc)
  BY <1>1, <1>3, OptOutWrites
<1>6. OptOutRows(o)'
  <2>1. ASSUME NEW u \in Signups
        PROVE  /\ <<"user", u>> \in Rows /\ <<"method", u>> \in Rows /\ <<"setting", u>> \in Rows
               /\ <<"subscription", u>> \in Rows /\ <<"location", u>> \in Rows
               /\ <<"setting", u>> \notin rows /\ <<"subscription", u>> \notin rows
               /\ <<"location", u>> \notin rows
               /\ <<"user", u>> \in rows => u \in users
               /\ <<"method", u>> \in rows => u \in users
    BY <1>4, RowTypes
  <2> QED
    BY <1>1, <1>5, <2>1 DEF OptOutRows, SwitchesOff, Local
<1>7. OptOutAt(o)'
  <2>1. ASSUME tx[o].pc = "methods", NEW u \in users
        PROVE  Wrote(o, <<"method", u>>)'
    <3>1. <<"method", u>> \in rows /\ <<"method", u>> \in Rows
      BY <1>2, <1>4, <2>1, RowTypes
    <3> QED
      BY <1>5, <3>1 DEF SwitchesOff
  <2> QED
    BY <1>1, <1>5, <2>1 DEF OptOutAt, SwitchesOff, OptOutPc, Listed, Local
<1> QED
  BY <1>5, <1>6, <1>7 DEF SwitchesOff

LEMMA DisableShape ==
  ASSUME Shape, NEW o \in OptOuts, DisableThunderCall(o)
  PROVE  Shape'
<1> DEFINE users == tx[o].users
           rows == {"subscription"} \X LocationsOf(o, users)
<1>1. /\ tx[o].pc = "subscriptions" /\ Local
      /\ Execute(o, rows, "off", "commit")
  BY DEF DisableThunderCall, Writes
<1>2. rows \subseteq Rows /\ tx[o].pc \in Listed /\ "commit" \in OptOutPc \ {"done"}
  BY <1>1 DEF Rows, Tables, LocationsOf, OptOutPc, Listed
<1>3. ASSUME NEW r
      PROVE  r \in rows <=> \E l \in LocationsOf(o, users) : r = <<"subscription", l>>
  OBVIOUS
<1> HIDE DEF rows
<1>4. SwitchesOff(o, rows, "commit")
  BY <1>1, <1>2, OptOutWrites
<1>5. \A l \in LocationsOf(o, users) :
        l \in Signups /\ db[<<"location", l>>] # Absent /\ db[<<"location", l>>].user \in users
  BY <1>4 DEF LocationsOf, SwitchesOff, Latest, OptOutRows
<1>6. OptOutRows(o)'
  <2>1. ASSUME NEW u \in Signups
        PROVE  /\ <<"user", u>> \in Rows /\ <<"method", u>> \in Rows /\ <<"setting", u>> \in Rows
               /\ <<"subscription", u>> \in Rows /\ <<"location", u>> \in Rows
               /\ <<"setting", u>> \notin rows /\ <<"user", u>> \notin rows
               /\ <<"location", u>> \notin rows /\ <<"method", u>> \notin rows
               /\ <<"subscription", u>> \in rows => u \in LocationsOf(o, users)
    BY <1>3, RowTypes
  <2> QED
    BY <1>1, <1>4, <1>5, <2>1 DEF OptOutRows, SwitchesOff, Local
<1>7. OptOutAt(o)'
  <2>1. \A u \in users : <<"method", u>> \in Rows
    BY RowTypes DEF Shape, WellTyped, Tx, Requests
  <2> QED
    BY <1>1, <1>4, <2>1 DEF OptOutAt, SwitchesOff, OptOutPc, Listed, Local
<1> QED
  BY <1>4, <1>6, <1>7 DEF SwitchesOff

-----------------------------------------------------------------------------
(* The commits. *)

(* What the commit of a signup does to the rows. *)
SignupCommits(s) ==
  LET x == tx[s] IN
  /\ \A u \in Signups :
       /\ db'[<<"user", u>>] = db[<<"user", u>>] \/ (u = x.user /\ db'[<<"user", u>>] = "on")
       /\ db'[<<"method", u>>] = IF u = x.user THEN "on" ELSE db[<<"method", u>>]
       /\ db'[<<"setting", u>>] = db[<<"setting", u>>] \/ (u = x.user /\ db'[<<"setting", u>>] = s)
       /\ db'[<<"subscription", u>>] = IF u = x.location THEN "on" ELSE db[<<"subscription", u>>]
       /\ u # x.location => db'[<<"location", u>>] = db[<<"location", u>>]
  /\ db'[<<"user", x.user>>] # Absent
  /\ s \notin Dashboard => db'[<<"setting", x.user>>] = s
  /\ db'[<<"location", x.location>>] \in Location
  /\ db'[<<"location", x.location>>].user = x.user
  /\ db'[<<"location", x.location>>].area =
       (x.geocoded \/ (x.location # s /\ x.view[<<"location", x.location>>].area))

(* What the commit of an opt-out does to the rows. *)
OptOutCommits(o) ==
  LET x == tx[o] IN
  \A u \in Signups :
    /\ \/ db'[<<"user", u>>] = db[<<"user", u>>]
       \/ u \in x.users /\ db'[<<"user", u>>] = "off" /\ db[<<"user", u>>] # Absent
    /\ db'[<<"method", u>>] = IF u \in x.users THEN "off" ELSE db[<<"method", u>>]
    /\ u \in x.users => db[<<"user", u>>] # Absent
    /\ db'[<<"setting", u>>] = db[<<"setting", u>>]
    /\ db'[<<"location", u>>] = db[<<"location", u>>]
    /\ \/ db'[<<"subscription", u>>] = db[<<"subscription", u>>]
       \/ /\ db'[<<"subscription", u>>] = "off"
          /\ db[<<"location", u>>] # Absent /\ db[<<"location", u>>].user \in x.users

LEMMA SignupCommit ==
  ASSUME Shape, NEW s \in Signups, tx[s].pc = "commit", Committed(s)
  PROVE  /\ SignupCommits(s)
         /\ tx[s].user \in Signups /\ tx[s].location \in Signups
         /\ tx[s].location # s => tx[s].view[<<"location", tx[s].location>>] # Absent
         /\ tx[s].location # s => /\ db[<<"location", tx[s].location>>] # Absent
                                  /\ db[<<"location", tx[s].location>>].user = tx[s].user
<1> DEFINE u == tx[s].user
           l == tx[s].location
<1>1. /\ SignupRows(s) /\ SignupAt(s) /\ SignupOf(s)
  BY DEF Shape, Fits, Requests
<1>2. /\ u \in Signups /\ l \in Signups
      /\ l # s => tx[s].view[<<"location", l>>] # Absent
      /\ l = s \/ (db[<<"location", l>>] # Absent /\ db[<<"location", l>>].user = u)
      /\ u # s => db[<<"user", u>>] # Absent
  BY <1>1 DEF SignupOf, Chosen, Placed
<1>3. /\ Wrote(s, <<"user", u>>) \/ u # s
      /\ Wrote(s, <<"location", l>>) /\ Wrote(s, <<"subscription", l>>)
      /\ Wrote(s, <<"method", u>>) /\ (s \notin Dashboard => Wrote(s, <<"setting", u>>))
  BY <1>1 DEF SignupAt, Placed
<1>4. \A r \in Rows : db'[r] = IF Wrote(s, r) THEN tx[s].own[r] ELSE db[r]
  BY DEF Committed, Latest
<1>5. ASSUME NEW v \in Signups
      PROVE  /\ db'[<<"user", v>>] = db[<<"user", v>>] \/ (v = u /\ db'[<<"user", v>>] = "on")
             /\ db'[<<"method", v>>] = IF v = u THEN "on" ELSE db[<<"method", v>>]
             /\ db'[<<"setting", v>>] = db[<<"setting", v>>] \/ (v = u /\ db'[<<"setting", v>>] = s)
             /\ db'[<<"subscription", v>>] = IF v = l THEN "on" ELSE db[<<"subscription", v>>]
             /\ v # l => db'[<<"location", v>>] = db[<<"location", v>>]
  <2>1. SignupRow(s, v)
    BY <1>1 DEF SignupRows
  <2> QED
    BY <1>3, <1>4, <2>1, RowTypes DEF SignupRow
<1>6. /\ SignupRow(s, u) /\ SignupRow(s, l)
      /\ <<"user", u>> \in Rows /\ <<"setting", u>> \in Rows /\ <<"location", l>> \in Rows
  BY <1>1, <1>2, RowTypes DEF SignupRows
<1>7. db'[<<"user", u>>] # Absent /\ (s \notin Dashboard => db'[<<"setting", u>>] = s)
  BY <1>2, <1>3, <1>4, <1>6, AbsentApart DEF SignupRow
<1>8. /\ db'[<<"location", l>>] \in Location
      /\ db'[<<"location", l>>].user = u
      /\ db'[<<"location", l>>].area =
           (tx[s].geocoded \/ (l # s /\ tx[s].view[<<"location", l>>].area))
  BY <1>3, <1>4, <1>6 DEF SignupRow
<1>9. SignupCommits(s)
  <2> HIDE DEF u, l
  <2>1. tx[s].user = u /\ tx[s].location = l
    BY DEF u, l
  <2> QED
    BY <1>5, <1>7, <1>8, <2>1 DEF SignupCommits
<1> QED
  BY <1>2, <1>9

LEMMA OptOutCommit ==
  ASSUME Shape, NEW o \in OptOuts, tx[o].pc = "commit", Committed(o)
  PROVE  OptOutCommits(o)
<1>1. OptOutRows(o) /\ OptOutAt(o)
  BY DEF Shape, Fits, Requests
<1>2. \A r \in Rows : db'[r] = IF Wrote(o, r) THEN tx[o].own[r] ELSE db[r]
  BY DEF Committed, Latest
<1>3. \A u \in tx[o].users : Wrote(o, <<"method", u>>) /\ db[<<"user", u>>] # Absent
  BY <1>1 DEF OptOutAt, Listed
<1> QED
  BY <1>1, <1>2, <1>3, RowTypes DEF OptOutRows, OptOutCommits

LEMMA SignupGrows ==
  ASSUME Shape, NEW s \in Signups, tx[s].pc = "commit", Committed(s)
  PROVE  Grows
<1>1. /\ SignupCommits(s)
      /\ tx[s].location # s => /\ db[<<"location", tx[s].location>>] # Absent
                               /\ db[<<"location", tx[s].location>>].user = tx[s].user
  BY SignupCommit
<1>2. s \in Requests /\ ~Done(s)
  BY InProgress DEF Requests
<1>3. ASSUME NEW r \in Rows, db[r] # Absent
      PROVE  db'[r] # Absent
  <2>1. r = <<r[1], r[2]>> /\ r[1] \in Tables /\ r[2] \in Signups
    BY <1>3, RowParts
  <2> DEFINE u == r[2]
  <2>2. /\ db'[<<"user", u>>] = db[<<"user", u>>] \/ db'[<<"user", u>>] = "on"
        /\ db'[<<"method", u>>] = db[<<"method", u>>] \/ db'[<<"method", u>>] = "on"
        /\ db'[<<"setting", u>>] = db[<<"setting", u>>] \/ db'[<<"setting", u>>] \in Signups
        /\ db'[<<"subscription", u>>] = db[<<"subscription", u>>] \/ db'[<<"subscription", u>>] = "on"
        /\ db'[<<"location", u>>] = db[<<"location", u>>] \/ db'[<<"location", u>>] \in Location
    BY <1>1, <2>1 DEF SignupCommits
  <2> QED
    BY <1>3, <2>1, <2>2, AbsentApart DEF Tables
<1>4. ASSUME NEW l \in Signups, db[<<"location", l>>] # Absent
      PROVE  db'[<<"location", l>>].user = db[<<"location", l>>].user
  <2>1. Done(l)
    BY <1>4 DEF Shape, References
  <2> QED
    BY <1>1, <1>2, <1>4, <2>1, ZenonT(40) DEF SignupCommits
<1> QED
  BY <1>3, <1>4 DEF Grows

LEMMA OptOutGrows ==
  ASSUME Shape, NEW o \in OptOuts, OptOutCommits(o)
  PROVE  Grows
<1>1. ASSUME NEW r \in Rows, db[r] # Absent
      PROVE  db'[r] # Absent
  <2>1. r = <<r[1], r[2]>> /\ r[1] \in Tables /\ r[2] \in Signups
    BY <1>1, RowParts
  <2> DEFINE u == r[2]
  <2>2. /\ db'[<<"user", u>>] = db[<<"user", u>>] \/ db'[<<"user", u>>] = "off"
        /\ db'[<<"method", u>>] = db[<<"method", u>>] \/ db'[<<"method", u>>] = "off"
        /\ db'[<<"setting", u>>] = db[<<"setting", u>>]
        /\ db'[<<"subscription", u>>] = db[<<"subscription", u>>] \/ db'[<<"subscription", u>>] = "off"
        /\ db'[<<"location", u>>] = db[<<"location", u>>]
    BY <2>1 DEF OptOutCommits
  <2> QED
    BY <1>1, <2>1, <2>2, AbsentApart DEF Tables
<1> QED
  BY <1>1 DEF Grows, OptOutCommits

LEMMA SignupReferences ==
  ASSUME Shape, NEW s \in Signups, tx[s].pc = "commit", Committed(s), Grows,
         Done(s)', tx'[s].user = tx[s].user, tx'[s].location = tx[s].location,
         \A q \in Signups \ {s} : tx'[q] = tx[q] /\ span'[q] = span[q]
  PROVE  References' /\ RowsTyped(db)'
<1>1. /\ SignupCommits(s)
      /\ tx[s].user \in Signups /\ tx[s].location \in Signups
      /\ tx[s].location # s => /\ db[<<"location", tx[s].location>>] # Absent
                               /\ db[<<"location", tx[s].location>>].user = tx[s].user
  BY SignupCommit
<1>2. \A q \in Signups : Done(q) => Done(q)' /\ tx'[q] = tx[q]
  <2>1. ~Done(s)
    BY InProgress DEF Requests
  <2> QED
    BY <2>1 DEF Done
<1>3. tx[s].user # s => db[<<"user", tx[s].user>>] # Absent
  BY DEF Shape, Fits, Requests, SignupOf, Chosen
<1>4. ASSUME NEW u \in Signups, db'[<<"user", u>>] # Absent
      PROVE  Done(u)' /\ tx'[u].user = u
  <2>1. db[<<"user", u>>] # Absent => Done(u) /\ tx[u].user = u
    BY DEF Shape, References
  <2> QED
    BY <1>1, <1>2, <1>3, <1>4, <2>1, ZenonT(40) DEF SignupCommits
<1>5. ASSUME NEW u \in Signups, db'[<<"location", u>>] # Absent
      PROVE  /\ Done(u)' /\ tx'[u].location = u /\ db'[<<"location", u>>].user = tx'[u].user
             /\ db'[<<"user", db'[<<"location", u>>].user>>] # Absent
  <2>1. db[<<"location", u>>] # Absent =>
          /\ Done(u) /\ tx[u].location = u /\ db[<<"location", u>>].user = tx[u].user
          /\ db[<<"user", db[<<"location", u>>].user>>] # Absent
    BY DEF Shape, References
  <2>2. CASE u # tx[s].location
    <3>1. db'[<<"location", u>>] = db[<<"location", u>>]
      BY <1>1, <2>2 DEF SignupCommits
    <3>2. db[<<"location", u>>].user \in Signups
      BY <1>5, <3>1 DEF Shape, WellTyped, RowsTyped, Location
    <3> QED
      BY <1>2, <1>5, <2>1, <3>1, <3>2, RowTypes DEF Grows
  <2>3. CASE u = tx[s].location
    BY <1>1, <1>2, <2>1, <2>3, SMTT(30) DEF SignupCommits
  <2> QED
    BY <2>2, <2>3
<1>6. ASSUME NEW u \in Signups
      PROVE  /\ db'[<<"method", u>>] # Absent => db'[<<"user", u>>] # Absent
             /\ db'[<<"setting", u>>] # Absent => db'[<<"user", u>>] # Absent
             /\ db'[<<"subscription", u>>] # Absent <=> db'[<<"location", u>>] # Absent
  <2>1. /\ db[<<"method", u>>] # Absent => db[<<"user", u>>] # Absent
        /\ db[<<"setting", u>>] # Absent => db[<<"user", u>>] # Absent
        /\ db[<<"subscription", u>>] # Absent <=> db[<<"location", u>>] # Absent
    BY DEF Shape, References
  <2>2. db[<<"user", u>>] # Absent => db'[<<"user", u>>] # Absent
    BY RowTypes DEF Grows
  <2> QED
    BY <1>1, <2>1, <2>2, AbsentApart, ZenonT(40) DEF SignupCommits
<1>7. RowsTyped(db)'
  <2>1. RowsTyped(db)
    BY DEF Shape, WellTyped
  <2> QED
    BY <1>1, <2>1 DEF RowsTyped, SignupCommits
<1> QED
  BY <1>4, <1>5, <1>6, <1>7 DEF References

LEMMA OptOutReferences ==
  ASSUME Shape, NEW o \in OptOuts, OptOutCommits(o), Grows,
         \A q \in Signups : tx'[q] = tx[q] /\ span'[q] = span[q]
  PROVE  References' /\ RowsTyped(db)'
<1>1. RowsTyped(db)'
  <2>1. RowsTyped(db)
    BY DEF Shape, WellTyped
  <2> QED
    BY <2>1 DEF RowsTyped, OptOutCommits
<1>2. ASSUME NEW u \in Signups
      PROVE  /\ db'[<<"user", u>>] # Absent => Done(u)' /\ tx'[u].user = u
             /\ db'[<<"location", u>>] # Absent =>
                  /\ Done(u)' /\ tx'[u].location = u
                  /\ db'[<<"location", u>>].user = tx'[u].user
                  /\ db'[<<"user", db'[<<"location", u>>].user>>] # Absent
             /\ db'[<<"method", u>>] # Absent => db'[<<"user", u>>] # Absent
             /\ db'[<<"setting", u>>] # Absent => db'[<<"user", u>>] # Absent
             /\ db'[<<"subscription", u>>] # Absent <=> db'[<<"location", u>>] # Absent
  <2>1. /\ db[<<"user", u>>] # Absent => Done(u) /\ tx[u].user = u
        /\ db[<<"location", u>>] # Absent =>
             /\ Done(u) /\ tx[u].location = u /\ db[<<"location", u>>].user = tx[u].user
             /\ db[<<"user", db[<<"location", u>>].user>>] # Absent
        /\ db[<<"method", u>>] # Absent => db[<<"user", u>>] # Absent
        /\ db[<<"setting", u>>] # Absent => db[<<"user", u>>] # Absent
        /\ db[<<"subscription", u>>] # Absent <=> db[<<"location", u>>] # Absent
    BY DEF Shape, References
  <2>2. /\ db'[<<"user", u>>] # Absent <=> db[<<"user", u>>] # Absent
        /\ db'[<<"location", u>>] = db[<<"location", u>>]
        /\ db'[<<"setting", u>>] = db[<<"setting", u>>]
        /\ db'[<<"subscription", u>>] # Absent <=> db[<<"subscription", u>>] # Absent
    BY <2>1, AbsentApart DEF OptOutCommits
  <2>3. db'[<<"method", u>>] # Absent => db[<<"user", u>>] # Absent
    BY <2>1 DEF OptOutCommits
  <2>4. db[<<"location", u>>] # Absent => db'[<<"user", db[<<"location", u>>].user>>] # Absent
    <3>1. db[<<"location", u>>] # Absent => db[<<"location", u>>].user \in Signups
      BY DEF Shape, WellTyped, RowsTyped, Location
    <3> QED
      BY <2>1, <3>1, RowTypes DEF Grows
  <2> QED
    BY <2>1, <2>2, <2>3, <2>4 DEF Done
<1> QED
  BY <1>1, <1>2 DEF References
(* A commit keeps the shape, whether its request is told of it or not.     *)
LEMMA CommittedShape ==
  ASSUME Shape, NEW t \in Requests, tx[t].pc = "commit", Committed(t),
         NEW outcome \in Outcome, Ends(t, outcome), typed' = typed, faults' \in Nat
  PROVE  /\ Shape' /\ Grows
         /\ ~Done(t) /\ Done(t)' /\ span'[t].to = commits + 1 /\ span'[t].from = span[t].from
         /\ commits' = commits + 1
         /\ \A q \in Requests \ {t} : tx'[q] = tx[q] /\ span'[q] = span[q]
         /\ tx'[t].pc = "done" /\ tx'[t].geocoded = tx[t].geocoded
         /\ tx'[t].user = tx[t].user /\ tx'[t].location = tx[t].location
         /\ tx'[t].users = tx[t].users
         /\ t \in Signups => SignupCommits(t)
         /\ t \in OptOuts => OptOutCommits(t)
<1>1. /\ tx' \in [Requests -> Tx]
      /\ \A q \in Requests \ {t} : tx'[q] = tx[q]
      /\ tx'[t].pc = "done" /\ DOMAIN tx'[t].own = {}
      /\ \A r \in Rows : tx'[t].view[r] = Absent
      /\ tx'[t].geocoded = tx[t].geocoded
      /\ tx'[t].user = tx[t].user /\ tx'[t].location = tx[t].location
      /\ tx'[t].users = tx[t].users
  BY Ended DEF Shape
<1>2. ~Done(t) /\ span[t].to = 0
  BY InProgress
<1>3. /\ span' = [span EXCEPT ![t].to = commits + 1]
      /\ span \in [Requests -> [from : Nat, to : Nat]]
      /\ commits \in Nat /\ commits' = commits + 1
  BY DEF Committed, Shape, WellTyped
<1>4. /\ span' \in [Requests -> [from : Nat, to : Nat]]
      /\ span'[t].to = commits + 1 /\ span'[t].from = span[t].from
      /\ \A q \in Requests \ {t} : span'[q] = span[q]
  BY <1>3
<1>5. Done(t)'
  BY <1>3, <1>4 DEF Done
<1>6. /\ t \in Signups => SignupCommits(t)
      /\ t \in OptOuts => OptOutCommits(t)
      /\ Grows
  BY SignupCommit, OptOutCommit, SignupGrows, OptOutGrows DEF Requests
<1>7. References' /\ RowsTyped(db)'
  <2>1. CASE t \in Signups
    BY <1>1, <1>4, <1>5, <1>6, <2>1, SignupReferences DEF Requests
  <2>2. CASE t \in OptOuts
    <3>1. \A q \in Signups : q \in Requests \ {t}
      BY <2>2, SignupAssumption DEF Requests
    <3> QED
      BY <1>1, <1>4, <1>6, <2>2, <3>1, OptOutReferences
  <2> QED
    BY <2>1, <2>2 DEF Requests
<1>8. db' \in AnyRows
  <2>0. tx[t] \in Tx
    BY DEF Shape, WellTyped
  <2>1. PICK D \in SUBSET Rows : tx[t].own \in [D -> AnyValue]
    BY <2>0 DEF Tx
  <2>2. \A r \in Rows : Latest(t, r) \in AnyValue \cup {Absent}
    BY <2>1 DEF Latest, Wrote, Shape, WellTyped, AnyRows
  <2>3. db' = [r \in Rows |-> Latest(t, r)]
    BY DEF Committed
  <2> QED
    BY <2>2, <2>3 DEF AnyRows
<1>9. WellTyped'
  BY <1>1, <1>3, <1>4, <1>7, <1>8 DEF WellTyped, Shape
<1>10. Clock(t)'
  BY <1>1, <1>3, <1>4 DEF Clock, Shape, Fits
<1>11. Remembers(t)'
  BY <1>1, RowTypes DEF Remembers, RowsTyped
<1>12. SignupRows(t)' /\ OptOutRows(t)'
  BY <1>1 DEF SignupRows, SignupRow, OptOutRows, Wrote
<1>13. t \in Signups => SignupAt(t)' /\ SignupOf(t)'
  <2> HAVE t \in Signups
  <2>1. SignupAt(t)'
    BY <1>1 DEF SignupAt, SignupPc, Placed
  <2>2. SignupOf(t) /\ SignupCommits(t)
    BY <1>6 DEF Shape, Fits
  <2>3. /\ tx[t].user \in Signups /\ tx[t].location \in Signups
        /\ Destination(tx[t].user) = Destination(t) /\ accountOf[tx[t].user] = accountOf[t]
    BY <2>2 DEF SignupOf, Chosen, Placed
  <2>4. /\ db'[<<"user", tx[t].user>>] # Absent
        /\ db'[<<"location", tx[t].location>>] # Absent
        /\ db'[<<"location", tx[t].location>>].user = tx[t].user
    BY <2>2, AbsentApart DEF SignupCommits
  <2>5. SignupOf(t)'
    BY <1>1, <2>3, <2>4 DEF SignupOf, Placed, Destination
  <2> QED
    BY <2>1, <2>5
<1>14. OptOutAt(t)'
  BY <1>1 DEF OptOutAt, OptOutPc, Listed
<1>15. Fits(t)'
  BY <1>10, <1>11, <1>12, <1>13, <1>14 DEF Fits
<1>16. \A q \in Requests \ {t} : Fits(q)'
  BY <1>1, <1>3, <1>4, <1>6, OthersFit
<1>17. Shape'
  BY <1>7, <1>9, <1>15, <1>16 DEF Shape
<1> QED
  BY <1>1, <1>2, <1>3, <1>4, <1>5, <1>6, <1>17

LEMMA InitShape ==
  ASSUME Init
  PROVE  Shape
<1>1. \A t \in Requests : tx[t] = Begun /\ span[t].from = 0 /\ span[t].to = 0
  BY DEF Init
<1>2. /\ Begun \in Tx /\ Begun.pc = "new" /\ DOMAIN Begun.own = {} /\ Begun.view = NoRows
      /\ NoRows \in AnyRows /\ \A r \in Rows : NoRows[r] = Absent
  <2>1. <<>> \in [{} -> AnyValue] /\ {} \in SUBSET Rows
    OBVIOUS
  <2>2. <<>> \in UNION {[D -> AnyValue] : D \in SUBSET Rows}
    BY <2>1
  <2>3. NoRows \in AnyRows /\ \A r \in Rows : NoRows[r] = Absent
    BY DEF NoRows, AnyRows
  <2> QED
    BY <2>2, <2>3 DEF Begun, Tx, Pc, Outcome
<1>3. RowsTyped(NoRows) /\ db = NoRows
  BY <1>2, RowTypes DEF RowsTyped, Init
<1>4. WellTyped
  BY <1>2, <1>3 DEF WellTyped, Init
<1>5. References
  <2>1. \A r \in Rows : db[r] = Absent
    BY <1>2, <1>3
  <2> QED
    BY <2>1, RowTypes DEF References
<1>6. ASSUME NEW t \in Requests
      PROVE  Fits(t)
  <2>1. Clock(t)
    BY <1>1 DEF Clock, Done, Init
  <2>2. Remembers(t)
    BY <1>1, <1>2, <1>3, RowTypes DEF Remembers
  <2>3. SignupRows(t) /\ OptOutRows(t)
    BY <1>1, <1>2 DEF SignupRows, SignupRow, OptOutRows, Wrote
  <2>4. SignupAt(t) /\ SignupOf(t) /\ OptOutAt(t)
    BY <1>1, <1>2 DEF SignupAt, SignupOf, OptOutAt, SignupPc, OptOutPc, Chosen, Placed, Listed, Done
  <2> QED
    BY <2>1, <2>2, <2>3, <2>4 DEF Fits
<1> QED
  BY <1>4, <1>5, <1>6 DEF Shape

-----------------------------------------------------------------------------
(* The kinds of steps there are: those that neither look nor commit, those *)
(* that open a snapshot, and the commits.                                  *)

Steady(t) ==
  /\ typed' = typed /\ db' = db /\ commits' = commits /\ span' = span
  /\ \A q \in Requests \ {t} : tx'[q] = tx[q]
  /\ ~Done(t)
  /\ t \in Signups /\ tx'[t].pc \in Chosen =>
       /\ tx[t].pc \in Chosen
       /\ tx'[t].user = tx[t].user /\ tx'[t].view = tx[t].view
  /\ t \in OptOuts /\ tx'[t].pc \in Listed =>
       tx[t].pc \in Listed /\ tx'[t].users = tx[t].users

Looks(o) ==
  LET found == {u \in Signups : Destination(u) \in Variants(o) /\ db[<<"method", u>>] = "on"} IN
  /\ typed' = typed /\ db' = db /\ commits' = commits
  /\ \A q \in Requests \ {o} : tx'[q] = tx[q] /\ span'[q] = span[q]
  /\ ~Done(o) /\ ~Done(o)' /\ span'[o].from = commits
  /\ tx'[o].pc = "users" /\ tx'[o].users = found

Searches(s) ==
  /\ typed' = typed /\ db' = db /\ commits' = commits
  /\ \A q \in Requests \ {s} : tx'[q] = tx[q] /\ span'[q] = span[q]
  /\ ~Done(s) /\ ~Done(s)' /\ span'[s].from = commits
  /\ tx'[s].view = db
  /\ \/ tx'[s].user = s /\ UsersWith(s, db) = {}
     \/ tx'[s].user # s /\ tx'[s].user \in UsersWith(s, db)

Commits(t) ==
  /\ typed' = typed
  /\ \A q \in Requests \ {t} : tx'[q] = tx[q] /\ span'[q] = span[q]
  /\ ~Done(t) /\ Done(t)' /\ span'[t].to = commits + 1 /\ span'[t].from = span[t].from
  /\ commits' = commits + 1 /\ tx[t].pc = "commit"
  /\ tx'[t].pc = "done" /\ tx'[t].geocoded = tx[t].geocoded
  /\ tx'[t].user = tx[t].user /\ tx'[t].location = tx[t].location
  /\ tx'[t].users = tx[t].users
  /\ Grows
  /\ t \in Signups => SignupCommits(t)
  /\ t \in OptOuts => OptOutCommits(t)

Kind(t) ==
  \/ Steady(t)
  \/ t \in OptOuts /\ Looks(t)
  \/ t \in Signups /\ Searches(t)
  \/ Commits(t)

LEMMA EndingKind ==
  ASSUME Shape, NEW t \in Requests, tx[t].pc # "done", NEW outcome \in Outcome,
         Ends(t, outcome), typed' = typed, db' = db, commits' = commits, span' = span,
         faults' \in Nat
  PROVE  Shape' /\ Kind(t)
<1>1. Shape'
  BY EndingShape
<1>2. tx'[t].pc = "done" /\ \A q \in Requests \ {t} : tx'[q] = tx[q]
  BY Ended DEF Shape
<1>3. Steady(t)
  BY <1>2, InProgress DEF Steady, Chosen, Listed
<1> QED
  BY <1>1, <1>3 DEF Kind

LEMMA CommittedKind ==
  ASSUME Shape, NEW t \in Requests, tx[t].pc = "commit", Committed(t),
         NEW outcome \in Outcome, Ends(t, outcome), typed' = typed, faults' \in Nat
  PROVE  Shape' /\ Kind(t)
BY CommittedShape DEF Kind, Commits

LEMMA ExecuteKind ==
  ASSUME Shape, NEW t \in Requests, NEW rows, NEW value, NEW pc,
         Execute(t, rows, value, pc), Local,
         \/ t \in Signups /\ tx[t].pc \in Chosen
         \/ t \in OptOuts /\ tx[t].pc \in Listed
  PROVE  Kind(t)
<1>1. tx[t] \in Tx /\ tx \in [Requests -> Tx]
  BY DEF Shape, WellTyped
<1>2. /\ \A q \in Requests \ {t} : tx'[q] = tx[q]
      /\ tx'[t].user = tx[t].user /\ tx'[t].view = tx[t].view
      /\ tx'[t].users = tx[t].users
  BY <1>1 DEF Execute, Tx
<1>3. ~Done(t)
  BY InProgress DEF Chosen, Listed
<1> QED
  BY <1>2, <1>3, SignupAssumption DEF Kind, Steady, Local

LEMMA ArriveKind ==
  ASSUME Shape, NEW t \in Requests, Arrive(t)
  PROVE  Shape' /\ Kind(t)
<1>1. Shape'
  BY ArriveShape
<1>2. tx[t].pc = "new" /\ Local
  BY DEF Arrive, Reject, SignUp, CreateFromDashboard, ReceiveOptOut
<1>3. /\ \A q \in Requests \ {t} : tx'[q] = tx[q]
      /\ tx'[t].pc \in {"done", "find", "list"}
  <2>1. tx[t] \in Tx /\ tx \in [Requests -> Tx]
    BY DEF Shape, WellTyped
  <2>2. CASE Reject(t)
    BY <2>1, <2>2, Ended DEF Reject, Outcome, Shape
  <2>3. CASE SignUp(t) \/ CreateFromDashboard(t) \/ ReceiveOptOut(t)
    BY <2>1, <2>3 DEF SignUp, CreateFromDashboard, ReceiveOptOut, Tx
  <2> QED
    BY <2>2, <2>3 DEF Arrive
<1>4. Steady(t)
  BY <1>2, <1>3, InProgress DEF Steady, Local, Chosen, Listed
<1> QED
  BY <1>1, <1>4 DEF Kind

LEMMA SignupStepKind ==
  ASSUME Shape, NEW s \in Signups, SignupStep(s)
  PROVE  Shape' /\ Kind(s)
<1>1. s \in Requests /\ tx[s] \in Tx /\ tx \in [Requests -> Tx]
  BY DEF Shape, WellTyped, Requests
<1>2. CASE Find(s)
  <2>1. Shape'
    BY <1>2, FindShape
  <2>2. /\ typed' = typed /\ db' = db /\ commits' = commits
        /\ \A q \in Requests \ {s} : tx'[q] = tx[q]
        /\ tx'[s].view = db
        /\ \/ tx'[s].user = s /\ UsersWith(s, db) = {}
           \/ tx'[s].user \in UsersWith(s, db)
    <3>1. ASSUME NEW u, NEW pc,
                 tx' = [tx EXCEPT ![s] = [[tx[s] EXCEPT !.view = db] EXCEPT !.pc = pc, !.user = u]]
          PROVE  /\ \A q \in Requests \ {s} : tx'[q] = tx[q]
                 /\ tx'[s].view = db /\ tx'[s].user = u
      BY <1>1, <3>1 DEF Tx
    <3>2. CASE /\ UsersWith(s, db) = {}
               /\ tx' = [tx EXCEPT ![s] = [[tx[s] EXCEPT !.view = db] EXCEPT !.pc = "createUser", !.user = s]]
      BY <1>2, <3>1, <3>2 DEF Find
    <3>3. CASE \E u \in UsersWith(s, db) :
                 tx' = [tx EXCEPT ![s] =
                   [[tx[s] EXCEPT !.view = db] EXCEPT
                      !.pc = IF Merges(s) THEN "updateUser" ELSE "match", !.user = u]]
      BY <1>2, <3>1, <3>3 DEF Find
    <3> QED
      BY <1>2, <3>2, <3>3 DEF Find
  <2>3. ~Done(s) /\ span[s].to = 0
    BY <1>1, <1>2, InProgress DEF Find
  <2>4. span' = [span EXCEPT ![s].from = commits] /\ span \in [Requests -> [from : Nat, to : Nat]]
    BY <1>2 DEF Find, Opens, Shape, WellTyped
  <2>5. span'[s].from = commits /\ span'[s].to = 0 /\ \A q \in Requests \ {s} : span'[q] = span[q]
    BY <1>1, <2>3, <2>4
  <2>6. s \notin UsersWith(s, db)
    <3>1. ASSUME s \in UsersWith(s, db)
          PROVE  FALSE
      <4>1. db[<<"user", s>>] = "on"
        BY <3>1 DEF UsersWith, Active
      <4> QED
        BY <2>3, <4>1, AbsentApart DEF Shape, References
    <3> QED
      BY <3>1
  <2>7. Searches(s)
    BY <2>2, <2>3, <2>5, <2>6 DEF Searches, Done
  <2> QED
    BY <2>1, <2>7 DEF Kind
<1>3. CASE CreateUser(s) \/ UpdateUser(s)
  <2>1. tx[s].pc \in Chosen /\ Local /\ Execute(s, {UserRow(s)}, "on", "match")
    BY <1>3 DEF CreateUser, UpdateUser, Chosen
  <2> QED
    BY <1>1, <1>3, <2>1, UserShape, ExecuteKind
<1>4. CASE Match(s)
  <2>1. Shape'
    BY <1>4, MatchShape
  <2>2. /\ \A q \in Requests \ {s} : tx'[q] = tx[q]
        /\ tx'[s].user = tx[s].user /\ tx'[s].view = tx[s].view
        /\ tx[s].pc = "match" /\ Local
    BY <1>1, <1>4 DEF Match, Tx
  <2>3. ~Done(s)
    BY <1>1, <2>2, InProgress
  <2>4. Steady(s)
    BY <2>2, <2>3, SignupAssumption DEF Steady, Local, Chosen
  <2> QED
    BY <2>1, <2>4 DEF Kind
<1>5. CASE CreateLocation(s) \/ UpdateLocation(s)
  <2>1. PICK row : WriteLocation(s, row)
    BY <1>5 DEF CreateLocation, UpdateLocation
  <2>2. tx[s].pc \in Chosen /\ Local
    BY <1>5 DEF CreateLocation, UpdateLocation, Chosen
  <2>3. Kind(s)
    BY <1>1, <2>1, <2>2, ExecuteKind DEF WriteLocation
  <2> QED
    BY <1>5, <2>3, LocationShape
<1>6. CASE Subscribe(s)
  <2>1. tx[s].pc \in Chosen /\ Local /\ Execute(s, Writes(s), "on", "method")
    BY <1>6 DEF Subscribe, Chosen
  <2> QED
    BY <1>1, <1>6, <2>1, SubscribeShape, ExecuteKind
<1>7. CASE UpsertMethod(s)
  <2>1. PICK pc : Execute(s, Writes(s), "on", pc)
    BY <1>7 DEF UpsertMethod
  <2>2. tx[s].pc \in Chosen /\ Local
    BY <1>7 DEF UpsertMethod, Chosen
  <2> QED
    BY <1>1, <1>7, <2>1, <2>2, MethodShape, ExecuteKind
<1>8. CASE UpsertSettings(s)
  <2>1. tx[s].pc \in Chosen /\ Local /\ Execute(s, Writes(s), s, "commit")
    BY <1>8 DEF UpsertSettings, Chosen
  <2> QED
    BY <1>1, <1>8, <2>1, SettingShape, ExecuteKind
<1> QED
  BY <1>2, <1>3, <1>4, <1>5, <1>6, <1>7, <1>8 DEF SignupStep

LEMMA OptOutStepKind ==
  ASSUME Shape, NEW o \in OptOuts, OptOutStep(o)
  PROVE  Shape' /\ Kind(o)
<1>1. o \in Requests /\ tx[o] \in Tx /\ tx \in [Requests -> Tx]
  BY DEF Shape, WellTyped, Requests
<1> DEFINE found == {u \in Signups : Destination(u) \in Variants(o) /\ db[<<"method", u>>] = "on"}
<1>2. CASE ListMethods(o) /\ Ends(o, "notFound") /\ UNCHANGED span
  <2>1. tx[o].pc = "list" /\ "notFound" \in Outcome /\ faults' \in Nat
    BY <1>2 DEF ListMethods, Outcome, Shape, WellTyped
  <2>2. typed' = typed /\ db' = db /\ commits' = commits /\ span' = span
    BY <1>2 DEF ListMethods
  <2> QED
    BY <1>1, <1>2, <2>1, <2>2, EndingKind
<1>3. CASE /\ ListMethods(o) /\ Opens(o)
           /\ tx' = [tx EXCEPT ![o].pc = "users", ![o].users = found]
  <2>1. Shape'
    BY <1>3, ListShape
  <2>2. /\ typed' = typed /\ db' = db /\ commits' = commits
        /\ \A q \in Requests \ {o} : tx'[q] = tx[q]
        /\ tx'[o].pc = "users" /\ tx'[o].users = found
    BY <1>1, <1>3 DEF ListMethods, Tx
  <2>3. ~Done(o) /\ span[o].to = 0
    BY <1>1, <1>3, InProgress DEF ListMethods
  <2>4. span' = [span EXCEPT ![o].from = commits] /\ span \in [Requests -> [from : Nat, to : Nat]]
    BY <1>3 DEF Opens, Shape, WellTyped
  <2>5. span'[o].from = commits /\ span'[o].to = 0 /\ \A q \in Requests \ {o} : span'[q] = span[q]
    BY <1>1, <2>3, <2>4
  <2>6. Looks(o)
    BY <2>2, <2>3, <2>5 DEF Looks, Done
  <2> QED
    BY <2>1, <2>6 DEF Kind
<1>4. CASE DeactivateUsers(o) \/ DeactivateMethods(o)
  <2>1. PICK pc : Execute(o, Writes(o), "off", pc)
    BY <1>4 DEF DeactivateUsers, DeactivateMethods
  <2>2. tx[o].pc \in Listed /\ Local
    BY <1>4 DEF DeactivateUsers, DeactivateMethods, Listed
  <2> QED
    BY <1>1, <1>4, <2>1, <2>2, DeactivateShape, ExecuteKind
<1>5. CASE DisableThunderCall(o)
  <2>1. tx[o].pc \in Listed /\ Local /\ Execute(o, Writes(o), "off", "commit")
    BY <1>5 DEF DisableThunderCall, Listed
  <2> QED
    BY <1>1, <1>5, <2>1, DisableShape, ExecuteKind
<1>6. ListMethods(o) => \/ Ends(o, "notFound") /\ UNCHANGED span
                        \/ Opens(o) /\ tx' = [tx EXCEPT ![o].pc = "users", ![o].users = found]
  BY DEF ListMethods
<1> QED
  BY <1>2, <1>3, <1>4, <1>5, <1>6 DEF OptOutStep

LEMMA StepKind ==
  ASSUME Shape, Next
  PROVE  Shape' /\ \E t \in Requests : Kind(t)
<1>1. PICK t \in Requests : Arrive(t) \/ Proceed(t) \/ StatementFails(t)
  BY DEF Next
<1>2. CASE Arrive(t)
  BY <1>2, ArriveKind
<1>3. CASE t \in Signups /\ SignupStep(t)
  BY <1>3, SignupStepKind
<1>4. CASE t \in OptOuts /\ OptOutStep(t)
  BY <1>4, OptOutStepKind
<1>5. CASE Commit(t)
  <2>1. PICK outcome \in {"created", "stopped"} : Ends(t, outcome)
    BY <1>5 DEF Commit
  <2>2. tx[t].pc = "commit" /\ Committed(t) /\ typed' = typed /\ faults' \in Nat
    BY <1>5 DEF Commit, Shape, WellTyped
  <2>3. outcome \in Outcome
    BY DEF Outcome
  <2> QED
    BY <2>1, <2>2, <2>3, CommittedKind
<1>6. CASE RollBack(t)
  <2>1. tx[t].pc # "done"
    BY <1>6, WaitingIsOpen DEF RollBack
  <2>2. /\ Ends(t, "failed") /\ "failed" \in Outcome /\ faults' \in Nat
        /\ typed' = typed /\ db' = db /\ commits' = commits /\ span' = span
    BY <1>6 DEF RollBack, Local, Outcome, Shape, WellTyped
  <2> QED
    BY <2>1, <2>2, EndingKind
<1>7. CASE StatementFails(t)
  <2>1. /\ tx[t].pc # "done" /\ Ends(t, "failed") /\ "failed" \in Outcome /\ faults' \in Nat
        /\ typed' = typed
    BY <1>7 DEF StatementFails, Outcome, Shape, WellTyped
  <2>2. CASE UNCHANGED <<db, span, commits>>
    <3>1. db' = db /\ span' = span /\ commits' = commits
      BY <2>2
    <3> QED
      BY <2>1, <3>1, EndingKind
  <2>3. CASE tx[t].pc = "commit" /\ Committed(t)
    BY <2>1, <2>3, CommittedKind
  <2> QED
    BY <1>7, <2>2, <2>3 DEF StatementFails
<1> QED
  BY <1>1, <1>2, <1>3, <1>4, <1>5, <1>6, <1>7 DEF Proceed

(* What is done stays done, and nothing else becomes so but by a commit.   *)
LEMMA DoneStays ==
  ASSUME Shape, NEW t \in Requests, Kind(t)
  PROVE  /\ ~Done(t) /\ typed' = typed
         /\ \A q \in Requests \ {t} : tx'[q] = tx[q] /\ span'[q] = span[q]
         /\ \A q \in Requests : Done(q) => q # t /\ Done(q)' /\ tx'[q] = tx[q] /\ span'[q] = span[q]
         /\ \A q \in Requests : Done(q)' => Done(q) \/ (q = t /\ Commits(t))
<1>1. /\ ~Done(t) /\ typed' = typed
      /\ \A q \in Requests \ {t} : tx'[q] = tx[q] /\ span'[q] = span[q]
      /\ Done(t)' => Commits(t)
  BY DEF Kind, Steady, Looks, Searches, Commits, Done
<1> QED
  BY <1>1 DEF Done

LEMMA ClockType ==
  ASSUME Shape, NEW t \in Requests
  PROVE  /\ commits \in Nat /\ span[t].from \in 0..commits /\ span[t].to \in 0..commits
         /\ Done(t) => span[t].from < span[t].to
<1>1. span[t] \in [from : Nat, to : Nat] /\ commits \in Nat /\ Clock(t)
  BY DEF Shape, WellTyped, Fits
<1> QED
  BY <1>1 DEF Clock

LEMMA StepShape ==
  ASSUME Shape, [Next]_vars
  PROVE  Shape'
<1>1. CASE UNCHANGED vars
  <2>1. \A t \in Requests : Fits(t)'
    <3>1. /\ typed' = typed /\ db' = db /\ tx' = tx /\ span' = span /\ commits' = commits
      BY <1>1 DEF vars
    <3>2. Grows /\ commits' \in Nat /\ commits' >= commits
      BY <3>1 DEF Grows, Shape, WellTyped
    <3> QED
      BY <3>1, <3>2, OthersFit
  <2>2. WellTyped' /\ References'
    BY <1>1 DEF vars, Shape, WellTyped, RowsTyped, References, Done
  <2> QED
    BY <2>1, <2>2 DEF Shape
<1> QED
  BY <1>1, StepKind

(* Everything has its type, and rows refer to rows that exist.             *)
THEOREM TypesRight == Spec => []TypeOK
<1>1. Init => Shape
  BY InitShape
<1>2. Shape /\ [Next]_vars => Shape'
  BY StepShape
<1>3. Shape => TypeOK
  BY ShapeTypeOK
<1> QED
  BY <1>1, <1>2, <1>3, PTL DEF Spec

-----------------------------------------------------------------------------
(* Opt-outs hold. *)

(* A signup for the user committed after the opt-out had looked.           *)
Later(o, u) ==
  \E s \in Signups : Done(s) /\ tx[s].user = u /\ span[s].to > span[o].from

(* A user with the phone whose method is on without the opt-out being      *)
(* about to switch it off came back later.                                 *)
StopKept(o, u) ==
  /\ tx[o].pc \in Listed \/ Done(o)
  /\ Destination(u) \in Variants(o)
  /\ u \in tx[o].users => Done(o)
  /\ db[<<"method", u>>] = "on"
  => Later(o, u)

StopInv == Shape /\ \A o \in OptOuts : \A u \in Signups : StopKept(o, u)

LEMMA LaterStays ==
  ASSUME Shape, NEW t \in Requests, Kind(t), NEW o \in OptOuts, NEW u \in Signups,
         span'[o].from = span[o].from, Later(o, u)
  PROVE  Later(o, u)'
<1>1. PICK s \in Signups : Done(s) /\ tx[s].user = u /\ span[s].to > span[o].from
  BY DEF Later
<1>2. Done(s)' /\ tx'[s] = tx[s] /\ span'[s] = span[s]
  BY <1>1, DoneStays DEF Requests
<1> QED
  BY <1>1, <1>2 DEF Later

LEMMA StopStep ==
  ASSUME StopInv, Shape', NEW t \in Requests, Kind(t), NEW o \in OptOuts, NEW u \in Signups
  PROVE  StopKept(o, u)'
<1>1. Shape /\ o \in Requests /\ u \in Requests /\ StopKept(o, u)
  BY DEF StopInv, Requests
<1>2. /\ ~Done(t) /\ typed' = typed
      /\ \A q \in Requests \ {t} : tx'[q] = tx[q] /\ span'[q] = span[q]
  BY <1>1, DoneStays
<1>3. SUFFICES ASSUME tx'[o].pc \in Listed \/ Done(o)', Destination(u)' \in Variants(o)',
                      u \in tx'[o].users => Done(o)', db'[<<"method", u>>] = "on"
               PROVE  Later(o, u)'
  BY DEF StopKept
<1>4. Destination(u) \in Variants(o)
  BY <1>2, <1>3 DEF Destination, Variants
<1>5. CASE Steady(t)
  <2>1. span'[o] = span[o] /\ db' = db /\ (Done(o)' <=> Done(o))
    BY <1>5 DEF Steady, Done
  <2>2. (tx[o].pc \in Listed \/ Done(o)) /\ (u \in tx[o].users => Done(o))
    <3>1. CASE o = t
      BY <1>2, <1>3, <1>5, <2>1, <3>1 DEF Steady
    <3>2. CASE o # t
      BY <1>1, <1>2, <1>3, <2>1, <3>2
    <3> QED
      BY <3>1, <3>2
  <2> QED
    BY <1>1, <1>3, <1>4, <2>1, <2>2, LaterStays DEF StopKept
<1>6. CASE t \in OptOuts /\ Looks(t)
  <2>1. db' = db
    BY <1>6 DEF Looks
  <2>2. o # t
    BY <1>3, <1>4, <1>6, <2>1 DEF Looks
  <2> QED
    BY <1>1, <1>2, <1>3, <1>4, <2>1, <2>2, LaterStays DEF StopKept, Done
<1>7. CASE t \in Signups /\ Searches(t)
  <2>1. db' = db /\ o # t
    BY <1>7, SignupAssumption DEF Searches
  <2> QED
    BY <1>1, <1>2, <1>3, <1>4, <2>1, LaterStays DEF StopKept, Done
<1>8. CASE t \in Signups /\ Commits(t)
  <2>1. /\ o # t /\ tx'[o] = tx[o] /\ span'[o] = span[o]
        /\ SignupCommits(t) /\ Done(t)' /\ span'[t].to = commits + 1 /\ tx'[t].user = tx[t].user
    BY <1>1, <1>2, <1>8, SignupAssumption DEF Commits
  <2>2. CASE u = tx[t].user
    <3>1. span'[t].to > span'[o].from
      BY <1>1, <2>1, ClockType
    <3> QED
      BY <1>8, <2>1, <2>2, <3>1 DEF Later
  <2>3. CASE u # tx[t].user
    <3>1. db[<<"method", u>>] = "on"
      BY <1>3, <2>1, <2>3 DEF SignupCommits
    <3> QED
      BY <1>1, <1>3, <1>4, <2>1, <3>1, LaterStays DEF StopKept, Done
  <2> QED
    BY <2>2, <2>3
<1>9. CASE t \in OptOuts /\ Commits(t)
  <2>1. /\ OptOutCommits(t) /\ span'[t].from = span[t].from /\ tx[t].pc = "commit"
        /\ tx'[t].users = tx[t].users
    BY <1>9 DEF Commits
  <2>2. u \notin tx[t].users /\ db[<<"method", u>>] = "on"
    BY <1>3, <2>1 DEF OptOutCommits
  <2>3. CASE o = t
    BY <1>1, <1>4, <2>1, <2>2, <2>3, LaterStays DEF StopKept, Listed
  <2>4. CASE o # t
    BY <1>1, <1>2, <1>3, <1>4, <2>2, <2>4, LaterStays DEF StopKept, Done
  <2> QED
    BY <2>3, <2>4
<1> QED
  BY <1>5, <1>6, <1>7, <1>8, <1>9 DEF Kind, Requests

(* After an opt-out a user is reached on the phone only by a signup that   *)
(* committed after the opt-out had looked: deactivateVoiceRecipientsByPhone *)
(* leaves nobody out, whoever signs up or stops meanwhile.                 *)
THEOREM OptOutsHold == Spec => []OptOutHolds
<1>1. Init => StopInv
  <2> SUFFICES ASSUME Init
               PROVE  StopInv
    OBVIOUS
  <2>1. \A t \in Requests : tx[t].pc = "new" /\ ~Done(t)
    BY DEF Init, Begun, Done
  <2> QED
    BY <2>1, InitShape DEF StopInv, StopKept, Listed, Requests
<1>2. StopInv /\ [Next]_vars => StopInv'
  <2> SUFFICES ASSUME StopInv, [Next]_vars
               PROVE  StopInv'
    OBVIOUS
  <2>1. Shape /\ Shape'
    BY StepShape DEF StopInv
  <2>2. CASE Next
    <3>1. PICK t \in Requests : Kind(t)
      BY <2>1, <2>2, StepKind
    <3> QED
      BY <2>1, <3>1, StopStep DEF StopInv
  <2>3. CASE UNCHANGED vars
    BY <2>1, <2>3 DEF StopInv, StopKept, Later, Done, Destination, Variants, vars
  <2> QED
    BY <2>2, <2>3
<1>3. StopInv => OptOutHolds
  BY DEF StopInv, StopKept, OptOutHolds, Later, Reached, Callable
<1> QED
  BY <1>1, <1>2, <1>3, PTL DEF Spec

-----------------------------------------------------------------------------
(* Signups hold. *)

(* A signup that ran together with s and knew no area wrote s's location.  *)
Lost(s) ==
  \E z \in Signups : Overlap(s, z) /\ ~tx[z].geocoded /\ tx[z].location = tx[s].location

MethodKept(s) ==
  Done(s) /\ ~StoppedAfter(s) => /\ db[<<"method", tx[s].user>>] = "on"
                                 /\ db[<<"subscription", tx[s].location>>] = "on"

SettingKept(s) ==
  Done(s) /\ s \notin Dashboard =>
    LET c == db[<<"setting", tx[s].user>>]
    IN  c \in Signups /\ Done(c) /\ tx[c].user = tx[s].user /\ span[c].to >= span[s].to

(* Who will write a location from a snapshot made after s has read what s  *)
(* wrote, or what somebody wrote who ran together with s.                  *)
AreaKept(s) ==
  Done(s) /\ tx[s].geocoded =>
    /\ db[<<"location", tx[s].location>>].area \/ Lost(s)
    /\ \A z \in Signups : tx[z].pc \in Chosen /\ span[s].to <= span[z].from
         => tx[z].view[<<"location", tx[s].location>>].area \/ Lost(s)

KeptInv == Shape /\ \A s \in Signups : MethodKept(s) /\ SettingKept(s) /\ AreaKept(s)

LEMMA StoppedStays ==
  ASSUME Shape, NEW t \in Requests, Kind(t), NEW s \in Signups, Done(s), StoppedAfter(s)
  PROVE  StoppedAfter(s)'
<1>1. PICK o \in OptOuts : Done(o) /\ tx[s].user \in tx[o].users /\ span[o].to > span[s].to
  BY DEF StoppedAfter
<1>2. Done(o)' /\ tx'[o] = tx[o] /\ span'[o] = span[o] /\ tx'[s] = tx[s] /\ span'[s] = span[s]
  BY <1>1, DoneStays DEF Requests
<1> QED
  BY <1>1, <1>2 DEF StoppedAfter

LEMMA LostStays ==
  ASSUME Shape, NEW t \in Requests, Kind(t), NEW s \in Signups, Lost(s)
  PROVE  Lost(s)'
<1>1. PICK z \in Signups : Overlap(s, z) /\ ~tx[z].geocoded /\ tx[z].location = tx[s].location
  BY DEF Lost
<1>2. /\ Done(z)' /\ tx'[z] = tx[z] /\ span'[z] = span[z]
      /\ Done(s)' /\ tx'[s] = tx[s] /\ span'[s] = span[s]
  BY <1>1, DoneStays DEF Requests, Overlap
<1> QED
  BY <1>1, <1>2 DEF Lost, Overlap

(* What a signup that is over left. *)
LEMMA DoneRows ==
  ASSUME Shape, NEW s \in Signups, Done(s)
  PROVE  /\ tx[s].user \in Signups /\ tx[s].location \in Signups
         /\ Destination(tx[s].user) = Destination(s) /\ accountOf[tx[s].user] = accountOf[s]
         /\ db[<<"location", tx[s].location>>] # Absent
         /\ db[<<"location", tx[s].location>>].user = tx[s].user
         /\ Done(tx[s].location)
<1>1. SignupOf(s)
  BY DEF Shape, Requests, Fits
<1>2. /\ tx[s].user \in Signups /\ tx[s].location \in Signups
      /\ Destination(tx[s].user) = Destination(s) /\ accountOf[tx[s].user] = accountOf[s]
      /\ db[<<"location", tx[s].location>>] # Absent
      /\ db[<<"location", tx[s].location>>].user = tx[s].user
  BY <1>1 DEF SignupOf
<1> QED
  BY <1>2 DEF Shape, References

LEMMA MethodStep ==
  ASSUME KeptInv, NEW t \in Requests, Kind(t), NEW s \in Signups
  PROVE  MethodKept(s)'
<1>1. Shape /\ s \in Requests /\ MethodKept(s)
  BY DEF KeptInv, Requests
<1>2. SUFFICES ASSUME Done(s)', ~StoppedAfter(s)'
               PROVE  /\ db'[<<"method", tx'[s].user>>] = "on"
                      /\ db'[<<"subscription", tx'[s].location>>] = "on"
  BY DEF MethodKept
<1>3. CASE s = t
  <2>1. /\ Commits(t) /\ SignupCommits(t)
        /\ tx'[s].user = tx[s].user /\ tx'[s].location = tx[s].location
    BY <1>1, <1>2, <1>3, DoneStays DEF Commits
  <2>2. tx[s].user \in Signups /\ tx[s].location \in Signups
    <3>1. SignupOf(s) /\ tx[s].pc = "commit"
      BY <1>1, <1>3, <2>1 DEF Shape, Fits, Commits
    <3> QED
      BY <3>1 DEF SignupOf, Chosen, Placed
  <2> QED
    BY <1>3, <2>1, <2>2 DEF SignupCommits
<1>4. CASE s # t
  <2>1. Done(s) /\ tx'[s] = tx[s] /\ span'[s] = span[s] /\ ~StoppedAfter(s)
    BY <1>1, <1>2, <1>4, DoneStays, StoppedStays
  <2>2. /\ db[<<"method", tx[s].user>>] = "on" /\ db[<<"subscription", tx[s].location>>] = "on"
        /\ tx[s].user \in Signups /\ tx[s].location \in Signups
        /\ db[<<"location", tx[s].location>>].user = tx[s].user
    BY <1>1, <2>1, DoneRows DEF MethodKept
  <2>3. CASE db' = db
    BY <2>1, <2>2, <2>3
  <2>4. CASE t \in Signups /\ Commits(t)
    <3>1. SignupCommits(t)
      BY <2>4 DEF Commits
    <3>2. \A u \in Signups :
            /\ db'[<<"method", u>>] \in {"on", db[<<"method", u>>]}
            /\ db'[<<"subscription", u>>] \in {"on", db[<<"subscription", u>>]}
      BY <3>1 DEF SignupCommits
    <3>3. /\ db'[<<"method", tx[s].user>>] \in {"on", db[<<"method", tx[s].user>>]}
          /\ db'[<<"subscription", tx[s].location>>] \in {"on", db[<<"subscription", tx[s].location>>]}
      BY <2>2, <3>2
    <3> QED
      BY <2>1, <2>2, <3>3
  <2>5. CASE t \in OptOuts /\ Commits(t)
    <3>1. /\ OptOutCommits(t) /\ Done(t)' /\ span'[t].to = commits + 1 /\ tx'[t].users = tx[t].users
      BY <2>5 DEF Commits
    <3>2. span'[t].to > span'[s].to
      BY <1>1, <2>1, <3>1, ClockType
    <3>3. tx[s].user \notin tx[t].users
      BY <1>2, <2>1, <2>5, <3>1, <3>2 DEF StoppedAfter
    <3> QED
      BY <2>1, <2>2, <3>1, <3>3, ZenonT(40) DEF OptOutCommits
  <2> QED
    BY <2>3, <2>4, <2>5 DEF Kind, Steady, Looks, Searches, Requests
<1> QED
  BY <1>3, <1>4

LEMMA SettingStep ==
  ASSUME KeptInv, NEW t \in Requests, Kind(t), NEW s \in Signups
  PROVE  SettingKept(s)'
<1>1. Shape /\ s \in Requests /\ SettingKept(s)
  BY DEF KeptInv, Requests
<1> DEFINE next == db'[<<"setting", tx'[s].user>>]
<1>2. SUFFICES ASSUME Done(s)', s \notin Dashboard
               PROVE  /\ next \in Signups /\ span'[next].to > 0 /\ tx'[next].user = tx'[s].user
                      /\ span'[next].to >= span'[s].to
  BY DEF SettingKept, Done
<1>3. CASE s = t
  <2>1. /\ Commits(t) /\ SignupCommits(t) /\ Done(t)' /\ span'[t].to = commits + 1
        /\ tx'[s].user = tx[s].user
    BY <1>1, <1>2, <1>3, DoneStays DEF Commits
  <2>2. next = s
    BY <1>2, <1>3, <2>1 DEF SignupCommits
  <2>3. commits \in Nat
    BY <1>1, ClockType
  <2> QED
    BY <1>3, <2>1, <2>2, <2>3 DEF Done
<1>4. CASE s # t
  <2>1. Done(s) /\ tx'[s] = tx[s] /\ span'[s] = span[s] /\ tx[s].user \in Signups
    BY <1>1, <1>2, <1>4, DoneStays, DoneRows, ZenonT(40)
  <2>2. PICK c \in Signups :
          /\ c = db[<<"setting", tx[s].user>>]
          /\ Done(c) /\ tx[c].user = tx[s].user /\ span[c].to >= span[s].to
    BY <1>1, <1>2, <2>1 DEF SettingKept
  <2>3. Done(c)' /\ tx'[c] = tx[c] /\ span'[c] = span[c]
    BY <1>1, <2>2, DoneStays DEF Requests
  <2>4. CASE next = c
    BY <2>1, <2>2, <2>3, <2>4 DEF Done
  <2>5. CASE db' = db
    BY <2>1, <2>2, <2>4, <2>5
  <2>6. CASE t \in Signups /\ Commits(t)
    <3>1. /\ SignupCommits(t) /\ Done(t)' /\ span'[t].to = commits + 1 /\ tx'[t].user = tx[t].user
      BY <2>6 DEF Commits
    <3>2. next = c \/ (tx[s].user = tx[t].user /\ next = t)
      BY <2>1, <2>2, <3>1 DEF SignupCommits
    <3>3. CASE tx[s].user = tx[t].user /\ next = t
      <4>1. span[s].to \in 0..commits /\ commits \in Nat
        BY <1>1, ClockType
      <4> QED
        BY <2>1, <2>6, <3>1, <3>3, <4>1 DEF Done
    <3> QED
      BY <2>4, <3>2, <3>3
  <2>7. CASE t \in OptOuts /\ Commits(t)
    BY <2>1, <2>2, <2>4, <2>7 DEF Commits, OptOutCommits
  <2> QED
    BY <2>5, <2>6, <2>7 DEF Kind, Steady, Looks, Searches, Requests
<1> QED
  BY <1>3, <1>4

LEMMA AreaStep ==
  ASSUME KeptInv, NEW t \in Requests, Kind(t), NEW s \in Signups
  PROVE  AreaKept(s)'
<1>1. Shape /\ s \in Requests /\ AreaKept(s)
  BY DEF KeptInv, Requests
<1>2. SUFFICES ASSUME Done(s)', tx'[s].geocoded
               PROVE  /\ db'[<<"location", tx'[s].location>>].area \/ Lost(s)'
                      /\ \A z \in Signups : tx'[z].pc \in Chosen /\ span'[s].to <= span'[z].from
                           => tx'[z].view[<<"location", tx'[s].location>>].area \/ Lost(s)'
  BY DEF AreaKept
<1>3. CASE s = t
  <2>1. /\ Commits(t) /\ SignupCommits(t) /\ span'[t].to = commits + 1 /\ tx'[t].pc = "done"
        /\ tx'[s].location = tx[s].location /\ tx'[s].geocoded = tx[s].geocoded
    BY <1>1, <1>2, <1>3, DoneStays DEF Commits
  <2>2. db'[<<"location", tx[s].location>>].area
    BY <1>2, <1>3, <2>1 DEF SignupCommits
  <2>3. ASSUME NEW z \in Signups, tx'[z].pc \in Chosen
        PROVE  ~(span'[s].to <= span'[z].from)
    <3>1. z # t /\ z \in Requests
      BY <2>1, <2>3 DEF Chosen, Requests
    <3>2. span'[z] = span[z] /\ span[z].from \in 0..commits /\ commits \in Nat
      BY <1>1, <2>1, <3>1, ClockType DEF Commits
    <3> QED
      BY <1>3, <2>1, <3>2
  <2> QED
    BY <2>1, <2>2, <2>3
<1>4. CASE s # t
  <2>1. /\ Done(s) /\ tx'[s] = tx[s] /\ span'[s] = span[s] /\ tx[s].location \in Signups
        /\ Done(tx[s].location) /\ (Lost(s) => Lost(s)')
    BY <1>1, <1>2, <1>4, DoneStays, DoneRows, LostStays
  <2>2. PICK l \in Signups : l = tx[s].location
    BY <2>1
  <2>3. /\ db[<<"location", l>>].area \/ Lost(s)
        /\ \A z \in Signups : tx[z].pc \in Chosen /\ span[s].to <= span[z].from
             => tx[z].view[<<"location", l>>].area \/ Lost(s)
    BY <1>1, <1>2, <2>1, <2>2 DEF AreaKept
  <2>4. db'[<<"location", l>>].area \/ Lost(s)'
    <3>1. CASE db'[<<"location", l>>] = db[<<"location", l>>]
      BY <2>1, <2>3, <3>1
    <3>2. CASE t \in Signups /\ Commits(t) /\ l = tx[t].location
      <4>1. /\ SignupCommits(t) /\ Done(t)' /\ ~Done(t) /\ tx[t].pc = "commit"
            /\ span'[t].to = commits + 1 /\ span'[t].from = span[t].from
            /\ tx'[t].location = tx[t].location /\ tx'[t].geocoded = tx[t].geocoded
        BY <3>2 DEF Commits
      <4>2. l # t
        BY <2>1, <2>2, <4>1
      <4>3. db'[<<"location", l>>].area = (tx[t].geocoded \/ (l # t /\ tx[t].view[<<"location", l>>].area))
        BY <3>2, <4>1 DEF SignupCommits
      <4>4. CASE tx[t].geocoded \/ tx[t].view[<<"location", l>>].area
        BY <4>2, <4>3, <4>4
      <4>5. CASE span[s].to <= span[t].from
        <5>1. tx[t].view[<<"location", l>>].area \/ Lost(s)
          BY <2>3, <3>2, <4>1, <4>5 DEF Chosen
        <5> QED
          BY <2>1, <4>4, <5>1
      <4>6. CASE ~tx[t].geocoded /\ ~(span[s].to <= span[t].from)
        <5>1. /\ span[s].from \in 0..commits /\ span[s].to \in 0..commits
              /\ span[t].from \in 0..commits /\ commits \in Nat
          BY <1>1, ClockType
        <5>2. Overlap(s, t)'
          BY <1>2, <1>4, <2>1, <4>1, <4>6, <5>1 DEF Overlap
        <5> QED
          BY <2>1, <2>2, <3>2, <4>1, <4>6, <5>2 DEF Lost
      <4> QED
        BY <4>4, <4>5, <4>6
    <3>3. CASE t \in Signups /\ Commits(t) /\ l # tx[t].location
      BY <3>1, <3>3 DEF Commits, SignupCommits
    <3>4. CASE t \in OptOuts /\ Commits(t)
      BY <3>1, <3>4 DEF Commits, OptOutCommits
    <3>5. CASE db' = db
      BY <3>1, <3>5
    <3> QED
      BY <3>2, <3>3, <3>4, <3>5 DEF Kind, Steady, Looks, Searches, Requests
  <2>5. ASSUME NEW z \in Signups, tx'[z].pc \in Chosen, span[s].to <= span'[z].from
        PROVE  tx'[z].view[<<"location", l>>].area \/ Lost(s)'
    <3>1. CASE z # t
      <4>1. z \in Requests \ {t}
        BY <3>1 DEF Requests
      <4>2. tx'[z] = tx[z] /\ span'[z] = span[z]
        BY <1>1, <4>1, DoneStays
      <4> QED
        BY <2>1, <2>3, <2>5, <4>2
    <3>2. CASE z = t /\ Steady(t)
      <4>1. tx[z].pc \in Chosen /\ tx'[z].view = tx[z].view /\ span'[z] = span[z]
        BY <2>5, <3>2 DEF Steady
      <4> QED
        BY <2>1, <2>3, <2>5, <4>1
    <3>3. CASE z = t /\ Searches(t)
      BY <2>1, <2>3, <3>3 DEF Searches
    <3>4. CASE z = t /\ t \notin OptOuts /\ Commits(t)
      BY <2>5, <3>4 DEF Commits, Chosen
    <3> QED
      BY <2>5, <3>1, <3>2, <3>3, <3>4, SignupAssumption DEF Kind, Requests
  <2> QED
    BY <2>1, <2>2, <2>4, <2>5
<1> QED
  BY <1>3, <1>4

(* What a signup wrote stays (createUserWithSignupLocation): until an      *)
(* opt-out that commits after it, its user has the method and the          *)
(* subscription; the settings are those of the user's last signup; and a   *)
(* location on the map leaves it only by a signup that ran together with   *)
(* it and knew no area.                                                    *)
THEOREM SignupsHold == Spec => []SignupHolds
<1>1. Init => KeptInv
  <2> SUFFICES ASSUME Init
               PROVE  KeptInv
    OBVIOUS
  <2>1. \A s \in Signups : ~Done(s)
    BY DEF Init, Done, Requests
  <2> QED
    BY <2>1, InitShape DEF KeptInv, MethodKept, SettingKept, AreaKept
<1>2. KeptInv /\ [Next]_vars => KeptInv'
  <2> SUFFICES ASSUME KeptInv, [Next]_vars
               PROVE  KeptInv'
    OBVIOUS
  <2>1. Shape /\ Shape'
    BY StepShape DEF KeptInv
  <2>2. CASE Next
    <3>1. PICK t \in Requests : Kind(t)
      BY <2>1, <2>2, StepKind
    <3> QED
      BY <2>1, <3>1, MethodStep, SettingStep, AreaStep DEF KeptInv
  <2>3. CASE UNCHANGED vars
    <3>1. ASSUME NEW s \in Signups
          PROVE  MethodKept(s)' /\ SettingKept(s)' /\ AreaKept(s)'
      <4>1. MethodKept(s) /\ SettingKept(s) /\ AreaKept(s)
        BY DEF KeptInv
      <4>2. db' = db /\ tx' = tx /\ span' = span
        BY <2>3 DEF vars
      <4> QED
        BY <4>1, <4>2 DEF MethodKept, SettingKept, AreaKept, StoppedAfter, Lost, Overlap, Done
    <3> QED
      BY <2>1, <3>1 DEF KeptInv
  <2> QED
    BY <2>2, <2>3
<1>3. KeptInv => SignupHolds
  <2> SUFFICES ASSUME KeptInv, NEW s \in Signups, Done(s)
               PROVE  /\ ~StoppedAfter(s) => /\ db[<<"method", tx[s].user>>] = "on"
                                             /\ db[<<"subscription", tx[s].location>>] = "on"
                      /\ s \notin Dashboard =>
                           LET c == db[<<"setting", tx[s].user>>]
                           IN  c # Absent /\ tx[c].user = tx[s].user /\ span[c].to >= span[s].to
                      /\ tx[s].geocoded /\ ~db[<<"location", tx[s].location>>].area
                           => Lost(s)
    BY DEF SignupHolds, Lost
  <2>1. MethodKept(s) /\ SettingKept(s) /\ AreaKept(s)
    BY DEF KeptInv
  <2> QED
    BY <2>1, AbsentApart DEF MethodKept, SettingKept, AreaKept
<1> QED
  BY <1>1, <1>2, <1>3, PTL DEF Spec

-----------------------------------------------------------------------------
(* One active user per destination. *)

Same(u, v) ==
  u # v /\ Destination(u) = Destination(v) /\ accountOf[u] = accountOf[v]

(* A signup for u committed after v had looked, and not later than v, when *)
(* v has committed, could have been told of it.                            *)
Woken(u, v) ==
  \E s \in Signups :
    /\ Done(s) /\ tx[s].user = u /\ span[s].to > span[v].from
    /\ Done(v) => span[s].from < span[v].to

(* v made a user of its own though u was there: u was not active then.  If *)
(* it is now, or was when a later signup found it, it was woken in between. *)
PhoneKept(u, v) ==
  /\ tx[v].user = v /\ (tx[v].pc \in Chosen \/ Done(v))
  /\ Same(u, v) /\ Done(u) /\ span[u].to <= span[v].from
  => /\ Active(db, u) => Woken(u, v)
     /\ Done(v) => \A s \in Signups :
          s # u /\ tx[s].pc \in Chosen /\ tx[s].user = u /\ span[s].from >= span[v].to
            => Woken(u, v)

PhoneInv == Shape /\ \A u \in Signups : \A v \in Signups : PhoneKept(u, v)

LEMMA WokenStays ==
  ASSUME Shape, NEW t \in Requests, Kind(t), NEW u \in Signups, NEW v \in Signups,
         span'[v].from = span[v].from, Woken(u, v)
  PROVE  Woken(u, v)'
<1>1. PICK s \in Signups :
        /\ Done(s) /\ tx[s].user = u /\ span[s].to > span[v].from
        /\ Done(v) => span[s].from < span[v].to
  BY DEF Woken
<1>2. Done(s)' /\ tx'[s] = tx[s] /\ span'[s] = span[s] /\ v \in Requests
  BY <1>1, DoneStays DEF Requests
<1>3. ASSUME Done(v)'
      PROVE  span'[s].from < span'[v].to
  <2>1. CASE Done(v)
    BY <1>1, <1>2, <2>1, DoneStays
  <2>2. CASE v = t /\ Commits(t)
    <3>1. /\ span[s].from < span[s].to /\ span[s].from \in 0..commits
          /\ span[s].to \in 0..commits /\ commits \in Nat
      BY <1>1, ClockType DEF Requests
    <3> QED
      BY <1>2, <2>2, <3>1 DEF Commits
  <2> QED
    BY <1>2, <1>3, <2>1, <2>2, DoneStays
<1> QED
  BY <1>1, <1>2, <1>3 DEF Woken

(* u becomes active only by a commit that wakes it. *)
LEMMA Wakes ==
  ASSUME Shape, NEW t \in Requests, Kind(t), NEW u \in Signups, Active(db', u)
  PROVE  Active(db, u) \/ (t \in Signups /\ Commits(t) /\ tx[t].user = u)
<1>1. CASE db' = db
  BY <1>1
<1>2. CASE t \in OptOuts /\ Commits(t)
  BY <1>2 DEF Active, Commits, OptOutCommits
<1>3. CASE t \in Signups /\ Commits(t) /\ tx[t].user # u
  BY <1>3 DEF Active, Commits, SignupCommits
<1> QED
  BY <1>1, <1>2, <1>3 DEF Kind, Steady, Looks, Searches, Requests

LEMMA PhoneStep ==
  ASSUME PhoneInv, NEW t \in Requests, Kind(t), NEW u \in Signups, NEW v \in Signups
  PROVE  PhoneKept(u, v)'
<1>1. Shape /\ u \in Requests /\ v \in Requests /\ PhoneKept(u, v)
  BY DEF PhoneInv, Requests
<1>2. /\ ~Done(t) /\ typed' = typed
      /\ \A q \in Requests \ {t} : tx'[q] = tx[q] /\ span'[q] = span[q]
      /\ \A q \in Requests : Done(q) => q # t /\ Done(q)' /\ tx'[q] = tx[q] /\ span'[q] = span[q]
      /\ \A q \in Requests : Done(q)' => Done(q) \/ (q = t /\ Commits(t))
  BY <1>1, DoneStays
<1>3. SUFFICES ASSUME tx'[v].user = v, tx'[v].pc \in Chosen \/ Done(v)',
                      Same(u, v)', Done(u)', span'[u].to <= span'[v].from
               PROVE  /\ Active(db', u) => Woken(u, v)'
                      /\ Done(v)' => \A s \in Signups :
                           s # u /\ tx'[s].pc \in Chosen /\ tx'[s].user = u
                             /\ span'[s].from >= span'[v].to
                             => Woken(u, v)'
  BY DEF PhoneKept, Active
<1>4. Same(u, v) /\ u # v
  BY <1>2, <1>3 DEF Same, Destination
<1>5. Done(u) /\ u # t /\ span'[u] = span[u]
  <2>1. ASSUME u = t, Commits(t)
        PROVE  FALSE
    <3>1. span'[u].to = commits + 1 /\ span'[v] = span[v]
      BY <1>1, <1>2, <1>4, <2>1 DEF Commits
    <3> QED
      BY <1>1, <1>3, <3>1, ClockType
  <2> QED
    BY <1>1, <1>2, <1>3, <2>1
<1>6. CASE v = t /\ Searches(t)
  <2>1. UsersWith(v, db) = {} /\ db' = db /\ ~Done(v)'
    BY <1>3, <1>6 DEF Searches
  <2>2. ~Active(db, u)
    BY <1>4, <2>1 DEF UsersWith, Same
  <2> QED
    BY <2>1, <2>2
<1>7. CASE ~(v = t /\ Searches(t))
  <2>1. /\ span'[v].from = span[v].from /\ tx[v].user = v /\ (tx[v].pc \in Chosen \/ Done(v))
    <3>1. CASE v # t
      BY <1>1, <1>2, <1>3, <3>1 DEF Done
    <3>2. CASE v = t /\ Steady(t)
      BY <1>2, <1>3, <3>2 DEF Steady, Done
    <3>3. CASE v = t /\ Commits(t)
      BY <1>3, <3>3 DEF Commits, Chosen
    <3> QED
      BY <1>7, <3>1, <3>2, <3>3, SignupAssumption DEF Kind
  <2>2. /\ Active(db, u) => Woken(u, v)
        /\ Done(v) => \A s \in Signups :
             s # u /\ tx[s].pc \in Chosen /\ tx[s].user = u /\ span[s].from >= span[v].to
               => Woken(u, v)
    BY <1>1, <1>3, <1>4, <1>5, <2>1 DEF PhoneKept
  <2>3. Woken(u, v) => Woken(u, v)'
    BY <1>1, <2>1, WokenStays
  <2>4. ASSUME Active(db', u)
        PROVE  Woken(u, v)'
    <3>1. CASE Active(db, u)
      BY <2>2, <2>3, <3>1
    <3>2. CASE t \in Signups /\ Commits(t) /\ tx[t].user = u
      <4>1. /\ t # v /\ t # u /\ tx[t].pc = "commit" /\ Done(t)' /\ tx'[t].user = u
            /\ span'[t].to = commits + 1 /\ span'[t].from = span[t].from
        BY <1>4, <1>5, <2>1, <3>2 DEF Commits
      <4>2. span'[v] = span[v] /\ (Done(v)' <=> Done(v))
        BY <1>1, <1>2, <4>1 DEF Done
      <4>3. CASE Done(v) /\ span[t].from >= span[v].to
        BY <2>2, <2>3, <3>2, <4>1, <4>3 DEF Chosen
      <4>4. CASE ~(Done(v) /\ span[t].from >= span[v].to)
        <5>1. /\ span[t].from \in 0..commits /\ span[v].to \in 0..commits
              /\ span[v].from \in 0..commits /\ commits \in Nat
          BY <1>1, ClockType
        <5>2. span'[t].to > span'[v].from /\ (Done(v)' => span'[t].from < span'[v].to)
          BY <4>1, <4>2, <4>4, <5>1
        <5> QED
          BY <3>2, <4>1, <5>2 DEF Woken
      <4> QED
        BY <4>3, <4>4
    <3> QED
      BY <1>1, <2>4, <3>1, <3>2, Wakes
  <2>5. ASSUME Done(v)', NEW s \in Signups, s # u, tx'[s].pc \in Chosen, tx'[s].user = u,
               span'[s].from >= span'[v].to
        PROVE  Woken(u, v)'
    <3>1. s \in Requests
      BY DEF Requests
    <3>2. Done(v)
      <4>1. ASSUME v = t, Commits(t)
            PROVE  FALSE
        <5>1. span'[v].to = commits + 1 /\ tx'[t].pc = "done"
          BY <4>1 DEF Commits
        <5>2. s # t
          BY <2>5, <5>1 DEF Chosen
        <5>3. span'[s] = span[s] /\ span[s].from \in 0..commits /\ commits \in Nat
          BY <1>1, <1>2, <3>1, <5>2, ClockType
        <5> QED
          BY <2>5, <5>1, <5>3
      <4> QED
        BY <1>1, <1>2, <2>5, <4>1
    <3>3. span'[v] = span[v]
      BY <1>1, <1>2, <3>2
    <3>4. CASE s # t
      BY <1>2, <2>2, <2>3, <2>5, <3>1, <3>2, <3>3, <3>4
    <3>5. CASE s = t /\ Steady(t)
      BY <2>2, <2>3, <2>5, <3>2, <3>3, <3>5 DEF Steady
    <3>6. CASE s = t /\ Searches(t)
      <4>1. Active(db, u)
        BY <2>5, <3>6 DEF Searches, UsersWith
      <4> QED
        BY <2>2, <2>3, <4>1
    <3>7. CASE s = t /\ Commits(t)
      BY <2>5, <3>7 DEF Commits, Chosen
    <3> QED
      BY <3>4, <3>5, <3>6, <3>7, SignupAssumption DEF Kind
  <2> QED
    BY <2>4, <2>5
<1> QED
  BY <1>6, <1>7

(* If v made a user of its own after u had committed, and both are active, *)
(* a signup for u ran together with v.                                     *)
LEMMA WokenTogether ==
  ASSUME PhoneInv, NEW u \in Signups, NEW v \in Signups, Same(u, v),
         Done(u), Done(v), tx[v].user = v, span[u].to <= span[v].from, Active(db, u)
  PROVE  \E s \in Signups : tx[s].user = u /\ phoneOf[v] = phoneOf[s] /\ Overlap(s, v)
<1>1. Shape /\ PhoneKept(u, v)
  BY DEF PhoneInv
<1>2. Woken(u, v)
  BY <1>1 DEF PhoneKept
<1>3. PICK s \in Signups :
        /\ Done(s) /\ tx[s].user = u /\ span[s].to > span[v].from
        /\ span[s].from < span[v].to
  BY <1>2 DEF Woken
<1>4. s # v
  BY <1>3 DEF Same
<1>5. span[s] \in [from : Nat, to : Nat] /\ span[v] \in [from : Nat, to : Nat]
  BY <1>1 DEF Shape, WellTyped, Requests
<1>6. Overlap(s, v)
  BY <1>3, <1>4, <1>5 DEF Overlap
<1>7. Destination(u) = Destination(s)
  BY <1>1, <1>3, DoneRows
<1>8. phoneOf[v] = phoneOf[s]
  BY <1>7 DEF Same, Destination
<1> QED
  BY <1>3, <1>6, <1>8

(* Two active users of one account have the same destination only if a     *)
(* signup of one of them ran together with another request for the phone:  *)
(* of the users stored under the phone as it is written now, the lookup of *)
(* findOrCreateSignupUser, which locks nothing, misses nobody else.        *)
THEOREM OneUser == Spec => []OneUserPerDestination
<1>1. Init => PhoneInv
  <2> SUFFICES ASSUME Init
               PROVE  PhoneInv
    OBVIOUS
  <2>1. \A s \in Signups : ~Done(s)
    BY DEF Init, Done, Requests
  <2> QED
    BY <2>1, InitShape DEF PhoneInv, PhoneKept
<1>2. PhoneInv /\ [Next]_vars => PhoneInv'
  <2> SUFFICES ASSUME PhoneInv, [Next]_vars
               PROVE  PhoneInv'
    OBVIOUS
  <2>1. Shape /\ Shape'
    BY StepShape DEF PhoneInv
  <2>2. CASE Next
    <3>1. PICK t \in Requests : Kind(t)
      BY <2>1, <2>2, StepKind
    <3> QED
      BY <2>1, <3>1, PhoneStep DEF PhoneInv
  <2>3. CASE UNCHANGED vars
    <3>1. ASSUME NEW u \in Signups, NEW v \in Signups
          PROVE  PhoneKept(u, v)'
      <4>1. PhoneKept(u, v)
        BY DEF PhoneInv
      <4>2. db' = db /\ tx' = tx /\ span' = span /\ typed' = typed
        BY <2>3 DEF vars
      <4> QED
        BY <4>1, <4>2 DEF PhoneKept, Woken, Same, Active, Destination, Done
    <3> QED
      BY <2>1, <3>1 DEF PhoneInv
  <2> QED
    BY <2>2, <2>3
<1>3. PhoneInv => OneUserPerDestination
  <2> SUFFICES ASSUME PhoneInv, NEW u \in Signups, NEW v \in Signups, Same(u, v),
                      Active(db, u), Active(db, v)
               PROVE  \E s \in Signups : \E t \in Requests :
                        tx[s].user \in {u, v} /\ phoneOf[t] = phoneOf[s] /\ Overlap(s, t)
    BY DEF OneUserPerDestination, Same
  <2>1. Shape /\ u \in Requests /\ v \in Requests
    BY DEF PhoneInv, Requests
  <2>2. Done(u) /\ tx[u].user = u /\ Done(v) /\ tx[v].user = v
    BY <2>1, AbsentApart DEF Active, Shape, References
  <2>3. /\ span[u].from \in Nat /\ span[u].to \in Nat /\ span[v].from \in Nat /\ span[v].to \in Nat
    BY <2>1 DEF Shape, WellTyped
  <2>4. CASE span[u].to <= span[v].from
    BY <2>1, <2>2, <2>4, WokenTogether
  <2>5. CASE span[v].to <= span[u].from
    <3>1. Same(v, u)
      BY DEF Same
    <3> QED
      BY <2>1, <2>2, <2>5, <3>1, WokenTogether
  <2>6. CASE span[u].from < span[v].to /\ span[v].from < span[u].to
    <3>1. Overlap(u, v)
      BY <2>2, <2>6 DEF Overlap, Same
    <3>2. phoneOf[v] = phoneOf[u]
      BY DEF Same, Destination
    <3> QED
      BY <2>1, <2>2, <3>1, <3>2
  <2> QED
    BY <2>3, <2>4, <2>5, <2>6
<1> QED
  BY <1>1, <1>2, <1>3, PTL DEF Spec
=============================================================================
