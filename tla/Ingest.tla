------------------------------- MODULE Ingest -------------------------------
(***************************************************************************)
(* The ingest process: sessions with the NWWS room (NWWSConsumer) and, for *)
(* every stanza, the handler that stores it (Service.ProcessEnvelope).     *)
(*                                                                         *)
(* A session that ends is left and closed by goroutines of their own while *)
(* the next one joins, so stanzas reach both for a while and two handlers  *)
(* may work side by side, on the same stanza or on stanzas of one event.   *)
(* The room repeats nothing (MaxHistory(0)), and an error of the handler   *)
(* is only logged: what is not stored now is not stored at all.            *)
(*                                                                         *)
(* A handler's transaction writes to rows of its own until it commits.  It *)
(* holds the index entries it wrote, shares those on which an INSERT of    *)
(* its failed, and reads by the snapshot of its first SELECT.              *)
(***************************************************************************)
EXTENDS Bulletin

CONSTANTS
  Stanzas,      (* 1 .. n, in the order the room sends them               *)
  Sessions,     (* 1 .. m, in the order they join: bounds the reconnects  *)
  Envelopes,    (* what a stanza may be, by number: attr (category by its *)
                (* AWIPS attribute), issue (day or None), payload, as the  *)
                (* room sends it; and, of the world, issued and seen: the  *)
                (* days it was issued and came in                         *)
  Programmes,   (* what the room may send: the number of each stanza      *)
  Products,     (* allowedProducts; {} allows all                         *)
  Etns,         (* an event is known by its ETN and year                  *)
  MaxFaults     (* bound on failed statements and crashes                 *)

ASSUME IngestAssumption ==
  /\ IsFiniteSet(Stanzas) /\ Stanzas = 1 .. Cardinality(Stanzas)
  /\ IsFiniteSet(Sessions) /\ Sessions = 1 .. Cardinality(Sessions) /\ 1 \in Sessions
  /\ \A n \in DOMAIN Envelopes : LET envelope == Envelopes[n] IN
       /\ envelope.payload \in Seq(Line(Etns))
       /\ envelope.issue \in Days \cup {None} /\ envelope.seen \in Days
  /\ Programmes \subseteq [Stanzas -> DOMAIN Envelopes]
  /\ MaxFaults \in Nat
  /\ None \notin Nat \cup Actions \cup (Etns \X {1, 2}) \cup Products

VARIABLES
  env,       (* the stanzas of this behaviour, as they are read           *)
  sent,      (* how many the room has sent                                *)
  session,
  handler,   (* the Serve loop of each session                            *)
  source,    (* source_messages: the status of a stanza's row             *)
  event,     (* nws_events                                                *)
  message,   (* messages                                                  *)
  outbox,    (* outbox_events                                             *)
  commits,   (* history: the number of commits                            *)
  fate,      (* history: what became of a stanza in a session             *)
  faults

tables == <<source, event, message, outbox>>
vars == <<env, sent, session, handler, source, event, message, outbox, commits, fate, faults>>

Keys == Etns \X {1, 2}                    (* uq_nws_events_event_key *)
Absent == [action |-> None, begins |-> None, ends |-> None, first |-> None, last |-> None]
NoRows == [k \in Keys |-> Absent]

Idle == [pc |-> "idle", stanza |-> None, segment |-> 0, event |-> None, fresh |-> Absent,
         own |-> NoRows, shared |-> {}, view |-> None, rows |-> {}, began |-> 0]
Pc == {"idle", "lookup", "source", "segment", "find", "create", "get", "update",
       "store", "commit"}
SessionState == {"none", "open", "left", "closed"}
Fate == {"none", "dropped", "ignored", "invalid", "duplicate", "stored", "failed",
         "conflict", "crashed"}

Coalesce(a, b) == IF a = None THEN b ELSE a

(* A stanza as it is read: pure, and done twice by the code. *)
Stanza(envelope, text, parsed) ==
  [payload  |-> envelope.payload, issued |-> envelope.issued, text |-> text,
   category |-> Coalesce(parsed.category, envelope.attr),
   requests |-> Normalize(parsed, envelope.seen)]
Received(envelope) ==
  LET text == Decode(Delivered(envelope.payload))
  IN  Stanza(envelope, text, Parse(text, Coalesce(envelope.issue, envelope.seen)))

(* A header has the day of issue, and the stanza comes within 13 days: of  *)
(* two months with that day the nearer one is then right.                  *)
ASSUME PunctualAssumption ==
  \A n \in DOMAIN Envelopes :
    LET envelope == Envelopes[n]
        b == Decode(Delivered(envelope.payload))
        header == Trim(b, 1)
    IN  Kind(b, header) = "wmo" =>
          /\ envelope.issued \in Days /\ b[header].at = DayOfMonth(envelope.issued)
          /\ Distance(envelope.issued, Coalesce(envelope.issue, envelope.seen)) <= 13

(* A bulletin that begins with its codes is a single warning: what stands  *)
(* before its issuance line, if it has one, is its own.                    *)
ASSUME CodesFirstAssumption ==
  \A n \in DOMAIN Envelopes :
    LET b == Decode(Delivered(Envelopes[n].payload))
        body == Body(b)
        issuance == First(b, SegmentHeader(b, body).rest, {"issued"})
    IN  Kind(b, body) = "ugc" /\ issuance \in DOMAIN b =>
          \A i \in body .. issuance : Kind(b, i) # "end"

Init ==
  /\ env \in {[e \in Stanzas |-> Received(Envelopes[p[e]])] : p \in Programmes}
  /\ sent = 0
  /\ session = [s \in Sessions |-> [state |-> "none", inbox |-> <<>>]]
  /\ handler = [s \in Sessions |-> Idle]
  /\ source = [e \in Stanzas |-> "none"]
  /\ event = NoRows
  /\ message = {}
  /\ outbox = {}
  /\ commits = 0
  /\ fate = [p \in Sessions \X Stanzas |-> "none"]
  /\ faults = 0

-----------------------------------------------------------------------------
(* What is to be done with a stanza. *)

Allowed(product) == Products = {} \/ product \in Products     (* productAllowed *)

Text(e) == env[e].text
Requests(e) == env[e].requests
Loadable(e, i) == Allowed(env[e].category) /\ ShouldLoad(Requests(e)[i])
Loadables(e) == {i \in DOMAIN Requests(e) : Loadable(e, i)}

(* decodeNWWSGroupChat: a stanza without a payload is none of NWWS. *)
Dropped(e) == Blank(Delivered(env[e].payload))

(* The checks before the transaction.  Without a text the parser fails,    *)
(* and the stanza of an allowed product is stored all the same: the error  *)
(* is overwritten by the lookup's before it is asked for.  (The consumer   *)
(* drops such a stanza.)                                                   *)
Verdict(e) ==
  IF Dropped(e) THEN "dropped"
  ELSE IF Blank(Text(e)) THEN
    IF env[e].category # None /\ Allowed(env[e].category) THEN "store" ELSE "ignored"
  ELSE IF \E i \in Loadables(e) : ~Valid(Requests(e)[i]) THEN "invalid"
  ELSE IF Loadables(e) = {} THEN "ignored"
  ELSE "store"

-----------------------------------------------------------------------------
(* The statements' view of the tables. *)

Request(s) == Requests(handler[s].stanza)[handler[s].segment]
InTransaction(s) ==
  handler[s].pc \in {"segment", "find", "create", "get", "update", "store", "commit"}
Others(s) == {t \in Sessions \ {s} : InTransaction(t)}

(* The row as the transaction itself would change it. *)
Latest(s, k) == IF handler[s].own[k] # Absent THEN handler[s].own[k] ELSE event[k]
(* Mutant: a transaction does not see what it wrote. *)
SeenByOthers(s, view, k) == view[k]

(* The row as its SELECTs show it. *)
Seen(s, view, k) == IF handler[s].own[k] # Absent THEN handler[s].own[k] ELSE view[k]

Holds(t, k) == handler[t].own[k] # Absent

(* Whose transaction a statement waits for: an INSERT for one that wrote   *)
(* the same key, an UPDATE also for those that share it.                   *)
Blocks(t, s) ==
  /\ t \in Others(s)
  /\ \/ handler[s].pc = "source" /\ handler[t].stanza = handler[s].stanza
     \/ handler[s].pc \in {"create", "update"} /\ Holds(t, handler[s].event)
     \/ handler[s].pc = "update" /\ handler[s].event \in handler[t].shared
Free(s) == \A t \in Sessions : ~Blocks(t, s)

KeyOf(vtec, year) == <<vtec.etn, year>>

Move(s, pc) == handler' = [handler EXCEPT ![s].pc = pc]
Ends(s, f) ==
  /\ fate' = [fate EXCEPT ![<<s, handler[s].stanza>>] = f]
  /\ handler' = [handler EXCEPT ![s] = Idle]
(* The deferred Rollback: the locks go and nothing is kept. *)
RolledBack(s, f) ==
  /\ Ends(s, f)
  /\ UNCHANGED <<env, sent, session, tables, commits>>
Local == UNCHANGED <<env, sent, session, tables, commits, fate, faults>>

-----------------------------------------------------------------------------
(* The handler, statement by statement. *)

Receive(s) ==
  /\ handler[s].pc = "idle"
  /\ session[s].state \in {"open", "left"} /\ session[s].inbox # <<>>
  /\ LET e == Head(session[s].inbox) IN
       /\ session' = [session EXCEPT ![s].inbox = Tail(@)]
       /\ IF Verdict(e) = "store"
          THEN /\ handler' = [handler EXCEPT ![s] =
                                [Idle EXCEPT !.pc = "lookup", !.stanza = e, !.began = commits]]
               /\ UNCHANGED fate
          ELSE /\ fate' = [fate EXCEPT ![<<s, e>>] = Verdict(e)]
               /\ UNCHANGED handler
  /\ UNCHANGED <<env, sent, tables, commits, faults>>

Known(e) == source[e] # "none"                (* GetBySourceAndExternalID *)

Lookup(s) ==
  /\ handler[s].pc = "lookup"
  /\ IF Known(handler[s].stanza)
     THEN Ends(s, "duplicate")
     ELSE Move(s, "source") /\ UNCHANGED fate
  /\ UNCHANGED <<env, sent, session, tables, commits, faults>>

(* Mutant: a row of the stanza stops the handler no more. *)
InsertSourceAgain(s) ==
  /\ handler[s].pc = "source"
  /\ handler' = [handler EXCEPT ![s].pc = "segment", ![s].segment = 1]
  /\ Local

(* The INSERT into source_messages waits for one that is not committed. *)
InsertSource(s) ==
  /\ handler[s].pc = "source" /\ Free(s)
  /\ IF Known(handler[s].stanza)
     THEN Ends(s, "duplicate")
     ELSE /\ handler' = [handler EXCEPT ![s].pc = "segment", ![s].segment = 1]
          /\ UNCHANGED fate
  /\ UNCHANGED <<env, sent, session, tables, commits, faults>>

(* The loop over requests, and resolveNWSEvent's choice: a VTEC that says  *)
(* when the event begins names its row, one that does not must find it.    *)
NextSegment(s) ==
  /\ handler[s].pc = "segment"
  /\ LET h == handler[s]
         r == Request(s)
         begins == r.vtec.begins
     IN  handler' = [handler EXCEPT ![s] =
           IF h.segment \notin DOMAIN Requests(h.stanza) THEN [h EXCEPT !.pc = "commit"]
           ELSE IF ~Loadable(h.stanza, h.segment) THEN [h EXCEPT !.segment = @ + 1]
           ELSE IF r.vtec = None THEN [h EXCEPT !.pc = "store", !.event = None]
           ELSE IF begins = None THEN [h EXCEPT !.pc = "find"]
           ELSE [h EXCEPT !.pc = "create", !.event = KeyOf(r.vtec, YearOf(begins))]]
  /\ Local

(* newNWSEvent *)
NewRow(r) == [action |-> r.vtec.action, begins |-> r.vtec.begins, ends |-> r.vtec.ends,
              first |-> r.issued, last |-> r.issued]

ViewOf(s) == IF handler[s].view = None THEN event ELSE handler[s].view

(* Mutant: only the year of issuance is looked at. *)
FoundThisYear(s, r) ==
  {k \in {KeyOf(r.vtec, YearOf(r.issued))} : Seen(s, ViewOf(s), k) # Absent}

GetByNaturalKey(s, vtec, year) == Seen(s, ViewOf(s), KeyOf(vtec, year))

(* candidateEventYears: this year's row, or last year's. *)
Found(s, r) ==
  LET year == YearOf(r.issued)
      hits == {y \in {year, year - 1} \cap {1, 2} : GetByNaturalKey(s, r.vtec, y) # Absent}
  IN  {KeyOf(r.vtec, y) : y \in {h \in hits : \A g \in hits : g <= h}}

Find(s) ==
  /\ handler[s].pc = "find"
  /\ LET r == Request(s)
         found == Found(s, r)
         h == [handler[s] EXCEPT !.view = ViewOf(s)]
     IN  handler' = [handler EXCEPT ![s] =
           IF found = {}
           THEN [h EXCEPT !.pc = "create", !.event = KeyOf(r.vtec, YearOf(r.issued))]
           ELSE [h EXCEPT !.pc = "update", !.event = CHOOSE k \in found : TRUE,
                          !.fresh = NewRow(r)]]
  /\ Local

(* CreateOrGet's INSERT.  A duplicate leaves a shared lock behind. *)
Create(s) ==
  /\ handler[s].pc = "create" /\ Free(s)
  /\ LET h == handler[s]
         k == h.event
     IN  handler' = [handler EXCEPT ![s] =
           IF Latest(s, k) = Absent
           THEN [h EXCEPT !.pc = "store", !.own[k] = NewRow(Request(s))]
           ELSE [h EXCEPT !.pc = "get", !.shared = h.shared \cup {k}]]
  /\ Local

(* Mutant: a row that is not there is tried again. *)
GetRetrying(s) ==
  /\ handler[s].pc = "get"
  /\ LET row == Seen(s, ViewOf(s), handler[s].event)
     IN  handler' = [handler EXCEPT ![s] =
           IF row = Absent THEN [@ EXCEPT !.pc = "create"]
           ELSE [@ EXCEPT !.pc = "update", !.fresh = row, !.view = ViewOf(s)]]
  /\ Local

(* CreateOrGet's SELECT.  The row that made the INSERT fail may be younger *)
(* than the snapshot; then the handler gives up.  The row found replaces   *)
(* the one in hand, so its own values are what UpdateLifecycle gets.       *)
Get(s) ==
  /\ handler[s].pc = "get"
  /\ LET row == Seen(s, ViewOf(s), handler[s].event)
     IN  IF row = Absent
         THEN RolledBack(s, "conflict")
         ELSE /\ handler' = [handler EXCEPT ![s].pc = "update", ![s].fresh = row,
                                            ![s].view = ViewOf(s)]
              /\ UNCHANGED <<env, sent, session, tables, commits, fate>>
  /\ UNCHANGED faults

(* Mutant: what the message leaves out is kept from the row. *)
UpdateLifecycleKeeping(row, fresh) ==
  [action |-> fresh.action,
   begins |-> Coalesce(row.begins, fresh.begins),
   ends   |-> Coalesce(row.ends, fresh.ends),
   first  |-> Coalesce(row.first, fresh.last),
   last   |-> fresh.last]

UpdateLifecycle(row, fresh) ==
  [action |-> fresh.action,
   begins |-> Coalesce(row.begins, fresh.begins),
   ends   |-> fresh.ends,
   first  |-> Coalesce(row.first, fresh.last),
   last   |-> fresh.last]

Update(s) ==
  /\ handler[s].pc = "update" /\ Free(s)
  /\ LET h == handler[s]
         k == h.event
     IN  handler' = [handler EXCEPT ![s] =
           [h EXCEPT !.pc = "store", !.own[k] = UpdateLifecycle(Latest(s, k), h.fresh)]]
  /\ Local

(* The messages row and its outbox row. *)
Store(s) ==
  /\ handler[s].pc = "store"
  /\ LET h == handler[s]
         r == Request(s)
         row == [stanza |-> h.stanza, segment |-> h.segment, event |-> h.event,
                 type |-> AlertTypeFromEvent(AlertEventCode(r)),
                 began |-> h.began, stored |-> 0]
     IN  handler' = [handler EXCEPT ![s] =
           [h EXCEPT !.pc = "segment", !.segment = @ + 1, !.event = None, !.fresh = Absent,
                     !.rows = @ \cup {row}]]
  /\ Local

(* Mutant: the status the row was inserted with stays. *)
StatusReceived(h) == "received"

StatusOf(h) ==
  IF h.rows = {} /\ DOMAIN Requests(h.stanza) # {} THEN "ignored" ELSE "parsed"

(* The source row's status and COMMIT. *)
Committed(s) ==
  LET h == handler[s]
  IN  /\ source' = [source EXCEPT ![h.stanza] = StatusOf(h)]
      /\ event' = [k \in Keys |-> Latest(s, k)]
      /\ message' = message \cup {[row EXCEPT !.stored = commits + 1] : row \in h.rows}
      /\ outbox' = outbox \cup {<<row.stanza, row.segment>> : row \in h.rows}
      /\ commits' = commits + 1

Commit(s) ==
  /\ handler[s].pc = "commit"
  /\ Committed(s)
  /\ Ends(s, "stored")
  /\ UNCHANGED <<env, sent, session, faults>>

Fault == faults < MaxFaults /\ faults' = faults + 1

(* A statement fails; if it is the COMMIT, it may have been done. *)
StatementFails(s) ==
  /\ handler[s].pc \notin {"idle", "segment"}
  /\ Fault
  /\ \/ RolledBack(s, "failed")
     \/ /\ handler[s].pc = "commit"
        /\ Committed(s)
        /\ Ends(s, "failed")
        /\ UNCHANGED <<env, sent, session>>

(* The database breaks a deadlock by failing one of the statements in it. *)
Deadlocked(s) ==
  \E C \in SUBSET Sessions : s \in C /\ \A u \in C : \E t \in C : Blocks(t, u)

BreakDeadlock(s) ==
  /\ Deadlocked(s)
  /\ RolledBack(s, "conflict")
  /\ UNCHANGED faults

-----------------------------------------------------------------------------
(* Sessions. *)

Listening(s) == session[s].state \in {"open", "left"}
Bounded(s) == s + 1 \in Sessions   (* one more session may join *)

(* RunForever, runSession: dial and join, once the session before is left. *)
Join(s) ==
  /\ session[s].state = "none"
  /\ \A t \in Sessions : t < s => session[t].state \in {"left", "closed"}
  /\ session' = [session EXCEPT ![s].state = "open"]
  /\ UNCHANGED <<env, sent, handler, tables, commits, fate, faults>>

(* The room sends a stanza to whoever is in it. *)
Send ==
  /\ sent + 1 \in Stanzas
  /\ sent' = sent + 1
  /\ session' = [s \in Sessions |->
       IF Listening(s) THEN [session[s] EXCEPT !.inbox = Append(@, sent + 1)] ELSE session[s]]
  /\ UNCHANGED <<env, handler, tables, commits, fate, faults>>

(* monitorNWWSIdleSession: nothing was read for a while, be it that the    *)
(* room is quiet or that a handler takes long.  The session is left in the *)
(* background.                                                             *)
IdleTimeout(s) ==
  /\ session[s].state = "open" /\ Bounded(s)
  /\ session' = [session EXCEPT ![s].state = "left"]
  /\ UNCHANGED <<env, sent, handler, tables, commits, fate, faults>>

(* closeIOAsync comes to its end, or Serve does.  The handler goes on with *)
(* the stanza it is at; what was not read is gone.                         *)
Close(s) ==
  /\ \/ session[s].state = "left"
     \/ session[s].state = "open" /\ Bounded(s)
  /\ session' = [session EXCEPT ![s] = [state |-> "closed", inbox |-> <<>>]]
  /\ UNCHANGED <<env, sent, handler, tables, commits, fate, faults>>

(* The process dies, and starts again with the next session. *)
Crash ==
  /\ Fault
  /\ \A s \in Sessions : session[s].state = "open" => Bounded(s)
  /\ session' = [s \in Sessions |->
       IF session[s].state = "none" THEN session[s]
       ELSE [state |-> "closed", inbox |-> <<>>]]
  /\ fate' = [p \in Sessions \X Stanzas |->
       IF handler[p[1]].stanza = p[2] THEN "crashed" ELSE fate[p]]
  /\ handler' = [s \in Sessions |-> Idle]
  /\ UNCHANGED <<env, sent, tables, commits>>

Handle(s) ==
  \/ Receive(s) \/ Lookup(s) \/ InsertSource(s) \/ NextSegment(s) \/ Find(s) \/ Create(s)
  \/ Get(s) \/ Update(s) \/ Store(s) \/ Commit(s) \/ BreakDeadlock(s)

Next ==
  \/ Send \/ Crash
  \/ \E s \in Sessions :
       Handle(s) \/ StatementFails(s) \/ Join(s) \/ IdleTimeout(s) \/ Close(s)

Spec == Init /\ [][Next]_vars

(* Statements return, deadlocks are broken, RunForever joins again and the *)
(* goroutines that close a session end.  Nothing makes the room send.      *)
FairSpec ==
  /\ Spec
  /\ \A s \in Sessions :
       WF_vars(Handle(s)) /\ WF_vars(Join(s))
       /\ WF_vars(session[s].state = "left" /\ Close(s))

-----------------------------------------------------------------------------
(* Correctness. *)

Row == [action : Actions \cup {None}, begins : Nat \cup {None}, ends : Nat \cup {None},
        first : Nat \cup {None}, last : Nat \cup {None}]
MessageRow(r) ==
  /\ r.stanza \in Stanzas /\ r.segment \in DOMAIN Requests(r.stanza)
  /\ r.event \in Keys \cup {None}

(* Every variable has its type. *)
TypeOK ==
  /\ \A e \in Stanzas : env[e].text \in Seq(Line(Etns))
  /\ sent \in 0 .. Cardinality(Stanzas)
  /\ \A s \in Sessions :
       /\ session[s].state \in SessionState
       /\ session[s].inbox \in Seq(Stanzas)
       /\ handler[s].pc \in Pc
       /\ handler[s].stanza \in Stanzas \cup {None}
       /\ handler[s].event \in Keys \cup {None}
       /\ handler[s].shared \subseteq Keys
       /\ handler[s].own \in [Keys -> Row]
       /\ \A r \in handler[s].rows : MessageRow(r)
  /\ source \in [Stanzas -> {"none", "parsed", "ignored"}]
  /\ event \in [Keys -> Row]
  /\ \A r \in message : MessageRow(r)
  /\ fate \in [Sessions \X Stanzas -> Fate]
  /\ faults \in 0 .. MaxFaults

RequestOf(m) == Requests(m.stanza)[m.segment]
RowsOf(e) == {m \in message : m.stanza = e}

(* A stanza is stored whole or not at all, once, whoever handled it and    *)
(* wherever a handler failed: its source row, one valid message for each   *)
(* loadable segment, and one outbox row for each message.                  *)
StoredWhole ==
  /\ outbox = {<<m.stanza, m.segment>> : m \in message}
  /\ \A m, n \in message : m.stanza = n.stanza /\ m.segment = n.segment => m = n
  /\ \A e \in Stanzas :
       IF source[e] = "none" THEN RowsOf(e) = {}
       ELSE /\ {m.segment : m \in RowsOf(e)} = Loadables(e)
            /\ \A m \in RowsOf(e) : Valid(RequestOf(m))

(* What stands between two terminators, told without the parser. *)
EndsOf(b) == {i \in DOMAIN b : b[i].k = "end"}
Places(b, c) == {j \in DOMAIN b : Cardinality({x \in EndsOf(b) : x < j}) = c - 1}
Between(b, c) == {b[i] : i \in Places(b, c)}
CodesIn(lines) == UNION {Codes(l.ranges) : l \in {u \in lines : u.k = "ugc"}}
NumbersIn(lines) == UNION {{l.nums[i] : i \in DOMAIN l.nums} :
                             l \in {n \in lines : n.k \in {"latlon", "nums"}}}

(* The counties, zones, polygon and event a message is sent for are those  *)
(* of one segment of the bulletin; a neighbour's never slip in.  (Its text *)
(* is another matter.  Nor is it so of a bulletin that begins with its     *)
(* codes but has its issuance line in a later segment: MNDHeader reads     *)
(* over the terminators before it.  CodesFirstAssumption excludes those.)  *)
OwnSegment ==
  \A m \in message : \E c \in 1 .. (Cardinality(EndsOf(Text(m.stanza))) + 1) :
    LET lines == Between(Text(m.stanza), c)
        r == RequestOf(m)
    IN  /\ r.fips \cup r.zones \subseteq CodesIn(lines)
        /\ r.vtec # None => r.vtec \in lines
        /\ \A i \in DOMAIN r.polygon :
             r.polygon[i][1] \in NumbersIn(lines) /\ r.polygon[i][2] \in NumbersIn(lines)

(* A message has the day its bulletin was issued, although the header only *)
(* has the day of the month: over the turn of a month or of the year, and  *)
(* whether the stanza says when it was sent or not.                        *)
IssuedOnTime ==
  \A m \in message :
    LET b == Text(m.stanza) IN
      Kind(b, Trim(b, 1)) = "wmo" => RequestOf(m).issued = env[m.stanza].issued

Continuations == {n \in message : n.event # None /\ RequestOf(n).vtec.begins = None}

(* A continuation that says no longer when its event began opens no event  *)
(* beside one that has messages from before, also over the turn of the     *)
(* year: a recipient is not called again for it.  It is put with those, or *)
(* with the event of the next year when that has another message.          *)
ContinuationsJoin ==
  \A n \in Continuations : \A m \in message :
    /\ m.event # None /\ m.event[1] = n.event[1] /\ m.stored <= n.began
    /\ YearOf(RequestOf(n).issued) \in {m.event[2], m.event[2] + 1}
    => \/ n.event = m.event
       \/ n.event[2] > m.event[2] /\ \E x \in message \ {n} : x.event = n.event

(* An event's row tells the state of one message stored with it, never a   *)
(* mixture, whichever of the two ways it was updated and by how many.      *)
LifecycleOfOneMessage ==
  \A k \in Keys : event[k] # Absent =>
    /\ \E m \in message : /\ m.event = k
                          /\ event[k].action = RequestOf(m).vtec.action
                          /\ event[k].ends = RequestOf(m).vtec.ends
                          /\ event[k].last = RequestOf(m).issued
    /\ \E m \in message : m.event = k /\ event[k].first = RequestOf(m).issued

(* A bulletin as the weather service writes it: the two headers, the       *)
(* issuance line, then segments that begin with their codes, have a text   *)
(* and end with $$.  Something may follow the last.                        *)
WellFormed(b) ==
  /\ Kind(b, 1) = "wmo" /\ Kind(b, 2) = "awips" /\ EndsOf(b) # {}
  /\ \E i \in DOMAIN b : /\ \A j \in DOMAIN b : b[j].k = "issued" <=> j = i
                         /\ \A e \in EndsOf(b) : i < e
  /\ \A c \in 1 .. Cardinality(EndsOf(b)) : \E n \in Places(b, c) :
       /\ \A j \in Places(b, c) : b[j].k = "ugc" <=> j = n
       /\ Codes(b[n].ranges) # {}
       /\ \E t \in Places(b, c) : n < t /\ b[t].k = "text"
       /\ \E s \in 1 .. (n - 1) : /\ b[s].k \in {"issued", "end"}
                                 /\ \A j \in (s + 1) .. (n - 1) : b[j].k = "blank"

(* The bulletin in the stanza as the room sends it, and whether its codes  *)
(* come in ranges.                                                         *)
Sent(e) == Decode(env[e].payload)
InRanges(e) == \E i \in DOMAIN env[e].payload : Ranged(env[e].payload[i])

(* The bulletin is stored with all its segments, each with its own codes. *)
AllStored(e) ==
  \A c \in 1 .. Cardinality(EndsOf(Sent(e))) :
    \E m \in RowsOf(e) :
      m.segment = c /\ RequestOf(m).fips \cup RequestOf(m).zones = CodesIn(Between(Sent(e), c))

(* It is a well-formed one of a supported product, and was handled as long *)
(* as there was one session only and nothing had failed.                   *)
HandledAlone(e) ==
  /\ faults = 0 /\ \A s \in Sessions \ {1} : session[s].state = "none"
  /\ fate[<<1, e>>] # "none"
  /\ WellFormed(Sent(e)) /\ Sent(e)[2].cat \in Products \ {"NPW"}

(* Then nothing of it is lost, if it names its codes one by one. *)
NothingLostAlone ==
  \A e \in Stanzas : HandledAlone(e) /\ ~InRanges(e) => AllStored(e)

(* docs/README.md has UGC lines with ranges, and parser_test.go expects    *)
(* parseUGC to expand them; but the consumer never hands it one.           *)
RangesExpanded == \A e \in Stanzas : HandledAlone(e) => AllStored(e)

Has(s, e) == handler[s].stanza = e \/ \E i \in DOMAIN session[s].inbox : session[s].inbox[i] = e

(* Every stanza that reached a session is done with one day, whatever came *)
(* with it: there is always a time to come when nothing is left to handle, *)
(* so two handlers that wait for each other's rows do not wait for ever.   *)
EveryStanzaSettles == []<>(\A s \in Sessions, e \in Stanzas : ~Has(s, e))
=============================================================================
