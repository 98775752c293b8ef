------------------------------- MODULE Signup -------------------------------
(***************************************************************************)
(* How recipients come and go: a signup (createUserWithSignupLocation, for *)
(* the public form and the dashboard) finds or makes the user of a phone,  *)
(* a location, a subscription, a contact method and settings; an opt-out   *)
(* (deactivateVoiceRecipientsByPhone) switches off whoever has the phone.  *)
(* Each is one transaction; any number of them run at the same time.       *)
(*                                                                         *)
(* A transaction's SELECTs read the snapshot its first SELECT made, and    *)
(* its own writes; its UPDATEs write the latest row and wait for whoever   *)
(* else wrote it; inserting a row of a user shares the lock on the user's. *)
(* A deadlock is broken by rolling one of the transactions back.           *)
(*                                                                         *)
(* The rows a signup inserts have its own name.  A location belongs to the *)
(* signup's user alone, and its only subscription has its name; a user's   *)
(* only voice method is for the destination the user was first made with.  *)
(* A destination is a phone and how it is written: "e164" (+1 and the ten  *)
(* digits), "long" (1 and the digits), "national" (the digits) or "free".  *)
(* External ids, titles, e-mail methods and the primary flags are left     *)
(* out: nothing that decides who is called reads them.                     *)
(***************************************************************************)
EXTENDS Integers, FiniteSets

CONSTANTS
  Signups,     (* requests that create a record                           *)
  OptOuts,     (* requests to stop the calls                              *)
  phoneOf,     (* the phone of a request                                  *)
  Typings,     (* how the requests may write it                           *)
  accountOf,   (* the account of a signup                                 *)
  renames,     (* the signups whose names differ from those in the row    *)
  spelled,     (* the address of a signup as it was typed,                *)
  canonical,   (* and as the geocoder spells it                           *)
  Dashboard,   (* the signups of handleCreateUser: no settings            *)
  MaxFaults,   (* bound on failed statements                              *)
  None

ASSUME SignupAssumption ==
  /\ Signups \cap OptOuts = {}
  /\ DOMAIN phoneOf = Signups \cup OptOuts
  /\ Typings \subseteq [Signups \cup OptOuts -> {"e164", "long", "national", "free"}]
  /\ DOMAIN accountOf = Signups /\ DOMAIN spelled = Signups /\ DOMAIN canonical = Signups
  /\ renames \subseteq Signups /\ Dashboard \subseteq Signups
  /\ MaxFaults \in Nat

Requests == Signups \cup OptOuts
Tables == {"user", "method", "location", "subscription", "setting"}
Rows == Tables \X Signups

VARIABLES
  typed,     (* how each request writes its phone                         *)
  db,        (* the committed rows                                        *)
  tx,        (* where each request is, and what its transaction did       *)
  span,      (* history: commits before its snapshot, its own commit      *)
  commits,   (* history: how many transactions have committed             *)
  faults

vars == <<typed, db, tx, span, commits, faults>>

Absent == None
Spellings == {spelled[s] : s \in Signups} \cup {canonical[s] : s \in Signups}
Location == [user : Signups, key : Spellings, area : BOOLEAN]
Values(table) ==
  CASE table = "location" -> Location
    [] table = "setting" -> Signups       (* whose choices they are       *)
    [] OTHER -> {"on", "off"}

ASSUME AbsentAssumption == \A table \in Tables : Absent \notin Values(table)

Outcome == {"none", "created", "rejected", "failed", "notFound", "stopped"}
Pc == {"new", "find", "createUser", "updateUser", "match", "location", "subscription",
       "method", "setting", "list", "users", "methods", "subscriptions", "commit", "done"}

NoRows == [r \in Rows |-> Absent]
Begun == [pc |-> "new", outcome |-> "none", own |-> <<>>, view |-> NoRows, shared |-> {},
          geocoded |-> FALSE, user |-> None, location |-> None, users |-> {}]

Init ==
  /\ typed \in Typings
  /\ db = NoRows
  /\ tx = [t \in Requests |-> Begun]
  /\ span = [t \in Requests |-> [from |-> 0, to |-> 0]]
  /\ commits = 0
  /\ faults = 0

-----------------------------------------------------------------------------
(* Rows, locks and transactions. *)

Wrote(t, r) == r \in DOMAIN tx[t].own
Seen(t, r) == IF Wrote(t, r) THEN tx[t].own[r] ELSE tx[t].view[r]
Latest(t, r) == IF Wrote(t, r) THEN tx[t].own[r] ELSE db[r]

UserRow(t) == <<"user", tx[t].user>>
LocationsOf(t, users) ==
  {l \in Signups : LET r == Latest(t, <<"location", l>>) IN r # Absent /\ r.user \in users}


(* The rows a request's next statement writes, and the users whose rows it *)
(* shares because it inserts rows that refer to them.                      *)
Writes(t) ==
  LET x == tx[t] IN
  CASE x.pc = "updateUser"    -> {UserRow(t)}
    [] x.pc = "location"      -> {<<"location", x.location>>}
    [] x.pc = "subscription"  -> {<<"subscription", x.location>>}
    [] x.pc \in {"method", "setting"} -> {<<x.pc, x.user>>}
    [] x.pc = "users"         -> {"user"} \X x.users
    [] x.pc = "methods"       -> {"method"} \X x.users
    [] x.pc = "subscriptions" -> {"subscription"} \X LocationsOf(t, x.users)
    [] OTHER -> {}
Shares(t) ==
  IF tx[t].pc \in {"subscription", "method", "setting"}
     /\ \A r \in Writes(t) : Latest(t, r) = Absent
  THEN {tx[t].user} ELSE {}

WaitsFor(t, o) ==
  /\ o # t
  /\ \/ \E r \in Writes(t) : Wrote(o, r)
     \/ \E u \in Shares(t) : Wrote(o, <<"user", u>>)
     \/ \E u \in tx[o].shared : <<"user", u>> \in Writes(t)
Free(t) == \A o \in Requests : ~WaitsFor(t, o)

(* One statement: it writes rows and goes on. *)
Execute(t, rows, value, pc) ==
  tx' = [tx EXCEPT ![t] =
    [tx[t] EXCEPT !.own = [r \in rows \cup DOMAIN tx[t].own |->
                            IF r \in rows THEN value ELSE tx[t].own[r]],
                  !.shared = tx[t].shared \cup Shares(t),
                  !.pc = pc]]

Ends(t, outcome) ==
  tx' = [tx EXCEPT ![t] = [Begun EXCEPT !.pc = "done", !.outcome = outcome,
    !.geocoded = tx[t].geocoded, !.user = tx[t].user, !.location = tx[t].location,
    !.users = tx[t].users]]

Local == UNCHANGED <<typed, db, span, commits, faults>>

-----------------------------------------------------------------------------
(* The signup, statement by statement. *)

(* The checks before the transaction (form, proxy, rate limit, account)    *)
(* let a request through or not.                                           *)
Reject(s) ==
  /\ tx[s].pc = "new"
  /\ Ends(s, "rejected")
  /\ Local

(* completePublicSignup: a signup goes on without the geocoder's answer.   *)
SignUp(s) ==
  /\ tx[s].pc = "new" /\ s \notin Dashboard
  /\ \E found \in BOOLEAN : tx' = [tx EXCEPT ![s].pc = "find", ![s].geocoded = found]
  /\ Local

(* handleCreateUser: the dashboard does not.                               *)
CreateFromDashboard(s) ==
  /\ tx[s].pc = "new" /\ s \in Dashboard
  /\ tx' = [tx EXCEPT ![s].pc = "find", ![s].geocoded = TRUE]
  /\ Local

(* canonicalSignupAddress, signupLocationKey *)
Key(s) == IF tx[s].geocoded THEN canonical[s] ELSE spelled[s]

(* normalizePublicSignupPhone; the dashboard stores what was typed. *)
Destination(s) == <<phoneOf[s], IF s \in Dashboard THEN typed[s] ELSE "e164">>

(* publicPhoneLookupVariants *)
Variants(o) == {phoneOf[o]} \X {typed[o], "national", "long", "e164"}

Opens(t) == span' = [span EXCEPT ![t].from = commits]

Active(view, u) == view[<<"user", u>>] = "on" /\ view[<<"method", u>>] = "on"

(* Mutant: only verified methods are looked for; a signup's never are. *)
UsersWithVerified(s, view) == {}

(* FindActiveUserIDByAccountAndChannelDestination *)
UsersWith(s, view) ==
  {u \in Signups : Active(view, u) /\ Destination(u) = Destination(s) /\ accountOf[u] = accountOf[s]}

(* mergeSignupUser *)
Merges(s) == s \in renames

(* Of several users the code takes the one inserted first; which that is   *)
(* is left open.                                                           *)
Find(s) ==
  /\ tx[s].pc = "find"
  /\ Opens(s)
  /\ LET x == [tx[s] EXCEPT !.view = db]
         found == UsersWith(s, db)
     IN  \/ /\ found = {}
            /\ tx' = [tx EXCEPT ![s] = [x EXCEPT !.pc = "createUser", !.user = s]]
         \/ \E u \in found :
              tx' = [tx EXCEPT ![s] =
                [x EXCEPT !.pc = IF Merges(s) THEN "updateUser" ELSE "match", !.user = u]]
  /\ UNCHANGED <<typed, db, commits, faults>>

CreateUser(s) ==
  /\ tx[s].pc = "createUser"
  /\ Execute(s, {UserRow(s)}, "on", "match")
  /\ Local

(* mergeSignupUser found the user active, so that is what is written back. *)
UpdateUser(s) ==
  /\ tx[s].pc = "updateUser" /\ Free(s)
  /\ Execute(s, {UserRow(s)}, "on", "match")
  /\ Local

(* findMatchingSignupLocation *)
Matching(s) ==
  {l \in Signups : LET r == Seen(s, <<"location", l>>)
                   IN  r # Absent /\ r.user = tx[s].user /\ r.key = Key(s)}

Match(s) ==
  /\ tx[s].pc = "match"
  /\ \E l \in IF Matching(s) = {} THEN {s} ELSE Matching(s) :
       tx' = [tx EXCEPT ![s].pc = "location", ![s].location = l]
  /\ Local

(* Mutant: what the geocoder did not tell is forgotten. *)
AreaForgotten(s, row) == tx[s].geocoded

(* applySignupLocationUpdate *)
AreaOf(s, row) == tx[s].geocoded \/ (row # Absent /\ row.area)

WriteLocation(s, row) ==
  Execute(s, Writes(s), [user |-> tx[s].user, key |-> Key(s), area |-> AreaOf(s, row)],
          "subscription")

CreateLocation(s) ==
  /\ tx[s].pc = "location" /\ tx[s].location = s
  /\ WriteLocation(s, Absent)
  /\ Local

(* Every column is written back as it was read from the snapshot. *)
UpdateLocation(s) ==
  /\ tx[s].pc = "location" /\ tx[s].location # s /\ Free(s)
  /\ WriteLocation(s, Seen(s, <<"location", tx[s].location>>))
  /\ Local

Subscribe(s) ==
  /\ tx[s].pc = "subscription" /\ Free(s)
  /\ Execute(s, Writes(s), "on", "method")
  /\ Local

UpsertMethod(s) ==
  /\ tx[s].pc = "method" /\ Free(s)
  /\ Execute(s, Writes(s), "on", IF s \in Dashboard THEN "commit" ELSE "setting")
  /\ Local

(* All types, in order; the lock on the contact method keeps others out.   *)
UpsertSettings(s) ==
  /\ tx[s].pc = "setting" /\ Free(s)
  /\ Execute(s, Writes(s), s, "commit")
  /\ Local

-----------------------------------------------------------------------------
(* The opt-out. *)

ReceiveOptOut(o) ==
  /\ tx[o].pc = "new"
  /\ tx' = [tx EXCEPT ![o].pc = "list"]
  /\ Local

(* Mutant: the first user with the phone is taken for the only one. *)
ListOneMethod(o) ==
  /\ tx[o].pc = "list"
  /\ LET found == {u \in Signups : Destination(u) \in Variants(o) /\ db[<<"method", u>>] = "on"} IN
       \/ found = {} /\ Ends(o, "notFound") /\ UNCHANGED span
       \/ \E u \in found :
            /\ tx' = [tx EXCEPT ![o].pc = "users", ![o].users = {u}]
            /\ Opens(o)
  /\ UNCHANGED <<typed, db, commits, faults>>

(* ListActiveByChannelAndDestinations, of every account. *)
ListMethods(o) ==
  /\ tx[o].pc = "list"
  /\ LET found == {u \in Signups : Destination(u) \in Variants(o) /\ db[<<"method", u>>] = "on"} IN
       IF found = {}
       THEN Ends(o, "notFound") /\ UNCHANGED span
       ELSE /\ tx' = [tx EXCEPT ![o].pc = "users", ![o].users = found]
            /\ Opens(o)
  /\ UNCHANGED <<typed, db, commits, faults>>

DeactivateUsers(o) ==
  /\ tx[o].pc = "users" /\ Free(o)
  /\ Execute(o, Writes(o), "off", "methods")
  /\ Local

DeactivateMethods(o) ==
  /\ tx[o].pc = "methods" /\ Free(o)
  /\ Execute(o, Writes(o), "off", "subscriptions")
  /\ Local

DisableThunderCall(o) ==
  /\ tx[o].pc = "subscriptions" /\ Free(o)
  /\ Execute(o, Writes(o), "off", "commit")
  /\ Local

-----------------------------------------------------------------------------
Committed(t) ==
  /\ db' = [r \in Rows |-> Latest(t, r)]
  /\ commits' = commits + 1
  /\ span' = [span EXCEPT ![t].to = commits + 1]

Commit(t) ==
  /\ tx[t].pc = "commit"
  /\ Committed(t)
  /\ Ends(t, IF t \in Signups THEN "created" ELSE "stopped")
  /\ UNCHANGED <<typed, faults>>

(* Mutant: the location stays when its subscription fails. *)
StatementFailsKeeping(t) ==
  /\ tx[t].pc = "subscription"
  /\ faults < MaxFaults /\ faults' = faults + 1
  /\ Ends(t, "failed")
  /\ Committed(t)
  /\ UNCHANGED typed

(* A statement fails; if it is the COMMIT, it may have been done. *)
StatementFails(t) ==
  /\ tx[t].pc \notin {"new", "done"}
  /\ faults < MaxFaults /\ faults' = faults + 1
  /\ Ends(t, "failed")
  /\ \/ UNCHANGED <<db, span, commits>>
     \/ tx[t].pc = "commit" /\ Committed(t)
  /\ UNCHANGED typed

(* t is one of a ring of requests that wait for each other. *)
Deadlocked(t) ==
  LET waits == {e \in Requests \X Requests : WaitsFor(e[1], e[2])}
  IN  \E ring \in SUBSET Requests :
        /\ t \in ring
        /\ \A p \in ring : \E o, q \in ring : <<p, o>> \in waits /\ <<q, p>> \in waits

RollBack(t) ==
  /\ ~Free(t) /\ Deadlocked(t)
  /\ Ends(t, "failed")
  /\ Local

SignupStep(s) ==
  \/ Find(s) \/ CreateUser(s) \/ UpdateUser(s) \/ Match(s)
  \/ CreateLocation(s) \/ UpdateLocation(s)
  \/ Subscribe(s) \/ UpsertMethod(s) \/ UpsertSettings(s)

OptOutStep(o) ==
  ListMethods(o) \/ DeactivateUsers(o) \/ DeactivateMethods(o) \/ DisableThunderCall(o)

Arrive(t) ==
  \/ t \in Signups /\ (Reject(t) \/ SignUp(t) \/ CreateFromDashboard(t))
  \/ t \in OptOuts /\ ReceiveOptOut(t)

Proceed(t) ==
  \/ t \in Signups /\ SignupStep(t)
  \/ t \in OptOuts /\ OptOutStep(t)
  \/ Commit(t)
  \/ RollBack(t)

Next == \E t \in Requests : Arrive(t) \/ Proceed(t) \/ StatementFails(t)

Spec == Init /\ [][Next]_vars

-----------------------------------------------------------------------------
(* Properties. *)

Done(t) == span[t].to > 0
Overlap(s, t) == s # t /\ Done(s) /\ Done(t) /\ span[s].from < span[t].to /\ span[t].from < span[s].to

(* ResolveRecipients and the planner's contact method: the location is on  *)
(* the map, its subscription and the method are on.  users.active is asked *)
(* by neither.                                                             *)
Callable(u) == db[<<"method", u>>] = "on"                (* ListByUserIDs *)
OnTheMap(l) == db[<<"location", l>>] # Absent /\ db[<<"location", l>>].area   (* MatchForMessage *)
Subscribed(u, l) ==                                   (* ListByLocationIDs *)
  db[<<"location", l>>].user = u /\ db[<<"subscription", l>>] = "on"
Reached(u) == Callable(u) /\ \E l \in Signups : OnTheMap(l) /\ Subscribed(u, l)

(* Everything has its type, and rows refer to rows that exist. *)
TypeOK ==
  /\ typed \in Typings
  /\ \A r \in Rows : db[r] \in Values(r[1]) \cup {Absent}
  /\ \A t \in Requests :
       /\ tx[t].pc \in Pc /\ tx[t].outcome \in Outcome
       /\ tx[t].user \in Signups \cup {None} /\ tx[t].location \in Signups \cup {None}
       /\ tx[t].shared \subseteq Signups /\ tx[t].users \subseteq Signups
  /\ \A s \in Signups :
       /\ db[<<"location", s>>] # Absent => db[<<"user", db[<<"location", s>>].user>>] # Absent
       /\ \A table \in {"method", "setting"} :
            db[<<table, s>>] # Absent => db[<<"user", s>>] # Absent
       /\ db[<<"subscription", s>>] # Absent <=> db[<<"location", s>>] # Absent

(* After an opt-out a user is reached on the phone only by a signup that   *)
(* committed after the opt-out had looked (deactivateVoiceRecipientsByPhone *)
(* switches off everyone it finds, and stale signups come back later).     *)
OptOutHolds ==
  \A o \in OptOuts, u \in Signups :
    Done(o) /\ Destination(u) \in Variants(o) /\ Reached(u)
      => \E s \in Signups : Done(s) /\ tx[s].user = u /\ span[s].to > span[o].from

(* What a signup wrote stays (createUserWithSignupLocation): until an      *)
(* opt-out that commits after it, its user has the method and the          *)
(* subscription; the settings are those of the user's last signup; and a   *)
(* location on the map leaves it only by a signup that read it before.     *)
StoppedAfter(s) == \E o \in OptOuts : Done(o) /\ tx[s].user \in tx[o].users /\ span[o].to > span[s].to
SignupHolds ==
  \A s \in Signups : Done(s) =>
    /\ ~StoppedAfter(s) => /\ db[<<"method", tx[s].user>>] = "on"
                           /\ db[<<"subscription", tx[s].location>>] = "on"
    /\ s \notin Dashboard => LET c == db[<<"setting", tx[s].user>>]
                            IN  c # Absent /\ tx[c].user = tx[s].user /\ span[c].to >= span[s].to
    /\ tx[s].geocoded /\ ~db[<<"location", tx[s].location>>].area
         => \E z \in Signups : Overlap(s, z) /\ ~tx[z].geocoded /\ tx[z].location = tx[s].location

(* Two active users of one account have the same destination only if a     *)
(* signup of one of them ran together with another request for the phone   *)
(* (findOrCreateSignupUser locks nothing).  One way of writing a phone is  *)
(* meant: the public form's lookup misses what the dashboard stored as it  *)
(* was typed (location_handlers.go:252), and a phone written two ways has  *)
(* two users without any overlap.                                          *)
OneUserPerDestination ==
  \A u, v \in Signups :
    u # v /\ Destination(u) = Destination(v) /\ accountOf[u] = accountOf[v] /\ Active(db, u) /\ Active(db, v)
      => \E s \in Signups, t \in Requests :
           tx[s].user \in {u, v} /\ phoneOf[t] = phoneOf[s] /\ Overlap(s, t)

(* Signups alone never wait for each other in a circle, unless one of them *)
(* inserts its user's first settings (createUserWithSignupLocation takes   *)
(* the user, the location, the subscription and the method in this order;  *)
(* the first settings come back to the user's row).                        *)
FirstSettings(s) == tx[s].pc = "setting" /\ Shares(s) # {}
=============================================================================
