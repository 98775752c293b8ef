------------------------------ MODULE Bulletin ------------------------------
(***************************************************************************)
(* From the text of an NWWS stanza to the requests ingest stores: what the *)
(* consumer makes of the text, the envelope's decoding, Parser.Parse,      *)
(* Normalize and the tests a request must pass.                            *)
(*                                                                         *)
(* A text is a sequence of lines, and a line is a record whose k says what *)
(* the parser's regular expressions take it for:                           *)
(*   blank, cdata (the CDATA markers), count (the byte count)              *)
(*   wmo      at: day of the month of the header                           *)
(*   awips    cat: product category                                        *)
(*   bcast    a line with one of the broadcast words                       *)
(*   issued   an issuance date and time                                    *)
(*   ugc      ranges: sequence of [fmt, state, first, last], a single code *)
(*            with last = first, a range 'first>last' else; ALL is 0       *)
(*   vtec     [action, code, etn, begins, ends], with its hydrologic line; *)
(*            begins or ends is None for 000000T0000Z                      *)
(*   names, cities                                                         *)
(*   latlon   LAT...LON, and nums: the fields that follow on its line      *)
(*   nums     a line of numeric fields                                     *)
(*   text     anything else; fog: it says Dense Fog Advisory               *)
(*   end      $$ (the only line but blank ones of less than three letters) *)
(* "The rest of the message" is a position in it.  Times are days of a     *)
(* calendar that MonthStart gives month by month; hours are left out.      *)
(***************************************************************************)
EXTENDS Integers, Sequences, FiniteSets

CONSTANTS
  MonthStart,    (* the day each month begins, and the day after the last *)
  January,       (* the month of it with which its second year begins     *)
  LastCode,      (* the last UGC code of a state (999)                    *)
  None

ASSUME CalendarAssumption ==
  /\ MonthStart \in Seq(Nat) /\ Len(MonthStart) > 1
  /\ \A m \in 1 .. (Len(MonthStart) - 1) : MonthStart[m + 1] - MonthStart[m] \in 28 .. 31
  /\ January \in 1 .. (Len(MonthStart) - 1)
  /\ LastCode \in Nat

-----------------------------------------------------------------------------
(* The calendar. *)

Months == 1 .. (Len(MonthStart) - 1)
Days == MonthStart[1] .. (MonthStart[Len(MonthStart)] - 1)
MonthLength(m) == MonthStart[m + 1] - MonthStart[m]
MonthOf(d) == CHOOSE m \in Months : d \in MonthStart[m] .. (MonthStart[m + 1] - 1)
DayOfMonth(d) == d - MonthStart[MonthOf(d)] + 1
YearOf(d) == IF MonthOf(d) < January THEN 1 ELSE 2

Distance(d, e) == IF d < e THEN e - d ELSE d - e

(* Mutant: the month of the reference is the month of the bulletin. *)
CandidatesOfMonth(day, reference) == {MonthStart[MonthOf(reference)] + day - 1}

(* candidateDayHourMinuteTimes: the day in the month before, of and after  *)
(* the reference, where that month has it.                                 *)
Candidates(day, reference) ==
  {MonthStart[m] + day - 1 :
     m \in {n \in (MonthOf(reference) - 1) .. (MonthOf(reference) + 1) \cap Months :
              day <= MonthLength(n)}}

(* parseDayHourMinute: the nearest; of two as near, the later. *)
ResolveDay(day, reference) ==
  LET all == Candidates(day, reference)
  IN  IF all = {} THEN None
      ELSE CHOOSE d \in all : \A e \in all :
             \/ Distance(d, reference) < Distance(e, reference)
             \/ Distance(d, reference) = Distance(e, reference) /\ d >= e

-----------------------------------------------------------------------------
(* Lines. *)

Actions == {"NEW", "CON", "EXT", "CAN"}
PrimaryVTEC(etns) ==         (* parsePrimaryVTEC; a hydrologic line adds nothing *)
  [k : {"vtec"}, action : Actions, code : STRING, etn : etns,
   begins : Nat \cup {None}, ends : Nat \cup {None}]
UGCCode ==
  [k : {"ugc"}, ranges : Seq([fmt : {"C", "Z"}, state : STRING,
                              first : 0 .. LastCode, last : 0 .. LastCode])]
BroadcastInstruction == [k : {"bcast"}]
IssuanceDateTime == [k : {"issued"}]
Line(etns) ==
  PrimaryVTEC(etns) \cup UGCCode \cup BroadcastInstruction \cup IssuanceDateTime
  \cup [k : {"wmo"}, at : 1 .. 31] \cup [k : {"awips"}, cat : STRING]
  \cup [k : {"latlon", "nums"}, nums : Seq(Nat)] \cup [k : {"text"}, fog : BOOLEAN]
  \cup [k : {"blank", "cdata", "count", "names", "cities", "end"}]

Kind(b, n) == IF n \in DOMAIN b THEN b[n].k ELSE "eof"
After(b, n) == IF n \in DOMAIN b THEN n + 1 ELSE n        (* parseLine *)
First(b, n, kinds) ==                    (* strings.Index: a line of these kinds *)
  CHOOSE i \in n .. (Len(b) + 1) :
    /\ Kind(b, i) \in kinds \cup {"eof"}
    /\ \A j \in n .. (i - 1) : Kind(b, j) \notin kinds
Trim(b, n) ==                                            (* trimWhitespace *)
  CHOOSE i \in n .. (Len(b) + 1) :
    Kind(b, i) # "blank" /\ \A j \in n .. (i - 1) : Kind(b, j) = "blank"
Blank(b) == \A i \in DOMAIN b : b[i].k = "blank"

(* decodeNWWSGroupChat encodes the stanza's tokens anew and reads them raw: *)
(* no CDATA marker is left, and the '>' of a range has become '&gt;', with *)
(* which the line is none of codes any more (ugcExpression).               *)
Ranged(line) ==
  line.k = "ugc" /\ \E i \in DOMAIN line.ranges : line.ranges[i].first # line.ranges[i].last
Reencoded(line) ==
  IF line.k = "cdata" THEN [k |-> "blank"]
  ELSE IF Ranged(line) THEN [k |-> "text", fog |-> FALSE]
  ELSE line
Delivered(payload) == [i \in DOMAIN payload |-> Reencoded(payload[i])]

(* decodeEnvelopeExtension: a marker taken out leaves a blank line, and a  *)
(* count is one only with something behind it.                             *)
Unmarked(payload) ==
  [i \in DOMAIN payload |-> IF payload[i].k = "cdata" THEN [k |-> "blank"] ELSE payload[i]]
Decode(payload) ==
  LET inner == Unmarked(payload)
      start == Trim(inner, 1)
      body == IF Kind(inner, start) = "count" /\ ~Blank(SubSeq(inner, start + 1, Len(inner)))
              THEN start + 1 ELSE start
  IN  SubSeq(inner, body, Len(inner))

-----------------------------------------------------------------------------
(* The parts of a bulletin; each returns what it found and the rest. *)

(* parseUGC: a range (of a text that did not come by the consumer) that    *)
(* ends before it starts names no code.                                    *)
Codes(ranges) ==
  UNION {LET r == ranges[i]
         IN  {<<r.fmt, r.state, c>> :
                c \in IF r.first = 0 THEN 0 .. LastCode ELSE r.first .. r.last} :
         i \in DOMAIN ranges}

(* parseVTECPairs: the VTEC lines that follow one another, by position. *)
VTECPairs(b, n) ==
  LET after == CHOOSE i \in n .. (Len(b) + 1) :
                 /\ Kind(b, i) \notin {"vtec", "blank"}
                 /\ \A j \in n .. (i - 1) : Kind(b, j) \in {"vtec", "blank"}
  IN  [lines |-> [i \in {j \in n .. (after - 1) : Kind(b, j) = "vtec"} |-> b[i]],
       rest |-> after]

(* What may be there or not: names, cities, an issuance line. *)
Past(b, n, kind) == Trim(b, IF Kind(b, n) = kind THEN n + 1 ELSE n)

(* parseSegmentHeader *)
SegmentHeader(b, n) ==
  LET ugc == Trim(b, n)
      hasUGC == Kind(b, ugc) = "ugc"
      vtecs == VTECPairs(b, Past(b, ugc, "ugc"))
  IN  [codes |-> IF hasUGC THEN Codes(b[ugc].ranges) ELSE {},
       vtecs |-> vtecs.lines,
       rest  |-> Past(b, Past(b, Past(b, vtecs.rest, "names"), "cities"), "issued")]

(* parseMNDHeader: everything up to the issuance line, or all there is;    *)
(* the last broadcast line is kept.                                        *)
MNDHeader(b, n) ==
  LET stop == First(b, n, {"issued"})
      casts == {i \in n .. (stop - 1) : Kind(b, i) = "bcast"}
  IN  [bcast |-> {b[i] : i \in {c \in casts : \A d \in casts : d <= c}},
       rest  |-> Trim(b, After(b, stop))]

(* parseProductHeaderOverview: the lines up to a blank one. *)
Overview(b, n) ==
  LET stop == First(b, n, {"blank"})
  IN  IF Kind(b, n) \in {"eof", "ugc"} THEN [lines |-> {}, rest |-> n]
      ELSE [lines |-> {b[i] : i \in n .. (stop - 1)}, rest |-> Trim(b, stop)]

(* Mutant: a segment's text goes on behind its terminator. *)
SegmentRunningOn(b, header, stop) ==
  [codes |-> header.codes, vtecs |-> header.vtecs,
   text |-> SubSeq(b, header.rest, Len(b))]

Segment(b, header, stop) ==
  [codes |-> header.codes, vtecs |-> header.vtecs,
   text |-> SubSeq(b, header.rest, stop - 1)]

(* The loop over segments: one without its terminator is the footer. *)
Segments(b, start) ==
  LET From[n \in Nat] ==
        LET header == SegmentHeader(b, n)
            stop == First(b, header.rest, {"end"})
            others == From[Trim(b, stop + 1)]
        IN  IF n > Len(b) THEN [list |-> <<>>, footer |-> {}]
            ELSE IF stop > Len(b) THEN
              [list |-> <<>>, footer |-> {b[i] : i \in header.rest .. Len(b)}]
            ELSE [list |-> <<Segment(b, header, stop)>> \o others.list,
                  footer |-> others.footer]
  IN  From[start]

WMOHeader(b, n, reference) ==          (* parseWMOHeader: the time of issue *)
  IF Kind(b, n) = "wmo" THEN ResolveDay(b[n].at, reference) ELSE None

AWIPSIdentifier(b, n) ==        (* parseAWIPSIdentifier: the product category *)
  IF Kind(b, n) \in {"eof", "end"} THEN None
  ELSE IF b[n].k = "awips" THEN b[n].cat ELSE "other"

(* The first two lines are taken for the WMO header and the AWIPS          *)
(* identifier whatever they are; the body is what comes after them.        *)
Identifier(b) == Trim(b, After(b, Trim(b, 1)))
Body(b) == Trim(b, After(b, Identifier(b)))

(* Parser.Parse *)
Parse(b, reference) ==
  LET wmo == Trim(b, 1)
      awips == Identifier(b)
      body == Body(b)
      Parsed(mnd, overview, list, footer) ==
        [category |-> AWIPSIdentifier(b, awips), issued |-> WMOHeader(b, wmo, reference),
         segments |-> list,
         common |-> mnd \cup overview \cup footer]
  IN  IF Kind(b, body) = "eof" THEN Parsed({}, {}, <<>>, {})
      ELSE IF Kind(b, body) # "ugc" THEN
        LET mnd == MNDHeader(b, body)
            overview == Overview(b, mnd.rest)
            segments == Segments(b, overview.rest)
        IN  Parsed(mnd.bcast, overview.lines, segments.list, segments.footer)
      ELSE  (* a single segment, with or without its terminator *)
        LET header == SegmentHeader(b, body)
            mnd == MNDHeader(b, header.rest)
            stop == First(b, mnd.rest, {"end"})
        IN  Parsed(mnd.bcast, {}, <<Segment(b, [header EXCEPT !.rest = mnd.rest], stop)>>, {})

-----------------------------------------------------------------------------
(* Normalize: a request for each segment. *)

Joined(pieces) ==
  LET UpTo[n \in 0 .. Len(pieces)] == IF n = 0 THEN <<>> ELSE UpTo[n - 1] \o pieces[n]
  IN  UpTo[Len(pieces)]

(* findPolygon: the fields behind the first LAT...LON, up to a line that   *)
(* is not numeric, in pairs; a pair with a field of three digits or less   *)
(* is left out.                                                            *)
Points(text) ==
  LET start == First(text, 1, {"latlon"})
      stop == CHOOSE i \in (start + 1) .. (Len(text) + 1) :
                /\ Kind(text, i) \notin {"nums", "blank"}
                /\ \A j \in (start + 1) .. (i - 1) : Kind(text, j) \in {"nums", "blank"}
      fields == Joined([i \in 1 .. (stop - start) |->
                  IF Kind(text, start + i - 1) = "blank" THEN <<>> ELSE text[start + i - 1].nums])
      Pair(i) == <<fields[2 * i - 1], fields[2 * i]>>
  IN  IF start > Len(text) THEN <<>>
      ELSE Joined([i \in 1 .. (Len(fields) \div 2) |->
             IF Pair(i)[1] > 999 /\ Pair(i)[2] > 999 THEN <<Pair(i)>> ELSE <<>>])

(* wellKnownPolygon, closePolygonRing *)
Ring(points) ==
  IF Len(points) < 3 \/ points[1] = points[Len(points)] THEN points
  ELSE Append(points, points[1])

(* buildMessageBody: what all segments have in common, and the segment's text. *)
MessageBody(parsed, segment) ==
  {l \in parsed.common \cup {segment.text[i] : i \in DOMAIN segment.text} : l.k # "blank"}

Normalize(parsed, now) ==
  [i \in DOMAIN parsed.segments |->
    LET segment == parsed.segments[i]
        vtecs == segment.vtecs
    IN  [event   |-> parsed.category,
         vtec    |-> IF Cardinality(DOMAIN vtecs) = 1
                    THEN vtecs[CHOOSE n \in DOMAIN vtecs : TRUE] ELSE None,
         issued  |-> IF parsed.issued = None THEN now ELSE parsed.issued,
         polygon |-> Ring(Points(segment.text)),
         fips    |-> {c \in segment.codes : c[1] = "C"},
         zones   |-> {c \in segment.codes : c[1] = "Z"},
         body    |-> MessageBody(parsed, segment)]]

(* ShouldLoadNWWSMessage *)
ShouldLoad(r) ==
  r.event = "NPW" => \E line \in r.body : line.k = "text" /\ line.fog

(* IncomingMessageRequest.Validate *)
Valid(r) ==
  /\ r.event # None
  /\ r.body # {}
  /\ r.polygon # <<>> \/ r.fips # {} \/ r.zones # {}

(* AlertEventCode: with a single VTEC its phenomenon and significance. *)
AlertEventCode(r) == IF r.vtec # None THEN r.vtec.code ELSE r.event

(* Prefixes of the code, which has three letters: TS with any significance. *)
AlertTypeFromEvent(code) ==
  CASE code = "FFW" -> "flash_flood_warning"
    [] code = "NPW" -> "special_weather_statement"
    [] code = "FZW" -> "freeze_warning"
    [] code = "SVR" -> "severe_thunderstorm_warning"
    [] code = "TOR" -> "tornado_warning"
    [] code \in {"TSU", "TSW", "TSA", "TSY", "TSS", "TSO", "TSN", "TSF"} -> "tropical_storm"
    [] code = "WSW" -> "winter_storm_warning"
    [] OTHER -> "unknown"
=============================================================================
