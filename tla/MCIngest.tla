------------------------------ MODULE MCIngest ------------------------------
(* Bulletins and values for the constants of Ingest. *)
EXTENDS Ingest, TLC

\* November 2026 to March 2027.  Day 61 is the 31st of December, 63 the 2nd of January.
Winter == <<1, 31, 62, 93, 121, 152>>

TwoStanzas == {1, 2}
TwoSessions == {1, 2}
Supported == {"SVR", "FFW", "TOR", "WSW", "NPW"}
AB == {"a", "b"}

Wmo(day) == [k |-> "wmo", at |-> DayOfMonth(day)]
Awips(cat) == [k |-> "awips", cat |-> cat]
Issued == [k |-> "issued"]
Bcast == [k |-> "bcast"]
Blk == [k |-> "blank"]
End == [k |-> "end"]
Count == [k |-> "count"]
CData == [k |-> "cdata"]
Text0 == [k |-> "text", fog |-> FALSE]
Fog == [k |-> "text", fog |-> TRUE]
Code(fmt, n) == [fmt |-> fmt, state |-> "IA", first |-> n, last |-> n]
Ugc(fmt, n) == [k |-> "ugc", ranges |-> <<Code(fmt, n), Code(fmt, n + 1)>>]
Range3(fmt, n) == [k |-> "ugc", ranges |-> <<[Code(fmt, n) EXCEPT !.last = n + 2]>>]
Vtec(action, code, etn, begins, ends) ==
  [k |-> "vtec", action |-> action, code |-> code, etn |-> etn, begins |-> begins, ends |-> ends]
LatLon == [k |-> "latlon", nums |-> <<4153, 9421, 4164, 9382>>]
More == [k |-> "nums", nums |-> <<4137, 9369, 41, 9406>>]

Head1(day, cat) == <<CData, Count, Wmo(day), Awips(cat), Blk, Bcast, Text0, Issued, Blk>>
At(day, issue, payload) ==
  [attr |-> "TOR", issue |-> issue, payload |-> payload, issued |-> day, seen |-> day + 2]

\* A new event of New Year's Eve, and its cancellation two days later.
Eve == At(61, 61, Head1(61, "TOR") \o
  <<Ugc("C", 1), Vtec("NEW", "TOW", "a", 61, 62), Text0, LatLon, More, Text0, End>>)
Cancelled == At(63, None, Head1(63, "TOR") \o
  <<Ugc("C", 1), Vtec("CAN", "TOW", "a", None, None), Text0, End, Text0>>)
\* Two segments of two events, one of which begins in the new year, and the
\* other way round.
AThenB == At(61, None, Head1(61, "TOR") \o
  <<Ugc("C", 3), Vtec("NEW", "TOW", "a", 61, 62), Text0, LatLon, Blk, End, Blk,
    Ugc("Z", 5), Vtec("NEW", "TOW", "b", 62, 63), Text0, End>>)
BThenA == At(61, 61, Head1(61, "TOR") \o
  <<Ugc("Z", 5), Vtec("EXT", "TOW", "b", 62, 64), Text0, End,
    Ugc("C", 1), Vtec("CON", "TOW", "a", None, 62), Text0, LatLon, More, End>>)
\* Two segments of one event.
Twice == At(61, 61, Head1(61, "TOR") \o
  <<Ugc("C", 3), Vtec("NEW", "TOW", "a", 61, 62), Text0, End,
    Ugc("C", 5), Vtec("CON", "TOW", "a", None, 62), Text0, End>>)
\* The same number in the new year, begun and continued in one bulletin.
NextYear == At(63, 63, Head1(63, "TOR") \o
  <<Ugc("C", 3), Vtec("NEW", "TOW", "a", 62, 64), Text0, End,
    Ugc("C", 5), Vtec("CON", "TOW", "a", None, 64), Text0, End>>)
\* Without codes for its second segment; codes first; nothing but fog; no text.
Broken == At(61, 61, Head1(61, "TOR") \o <<Ugc("C", 1), Text0, End, Text0, End>>)
CodesFirst == At(61, 61, <<Wmo(61), Awips("WSW"), Ugc("Z", 1), Text0, Issued, Text0, End,
  Ugc("Z", 7), Text0, End>>)
Foggy == At(61, 61, Head1(61, "NPW") \o <<Ugc("Z", 1), Fog, End, Ugc("Z", 5), Text0, End>>)
NoText == At(61, 61, <<CData>>)
NoPayload == At(61, 61, <<>>)
\* A range of codes, with a polygon; and in the second of two segments, without.
Drawn == At(61, 61, Head1(61, "TOR") \o
  <<Range3("C", 3), Vtec("NEW", "TOW", "a", 61, 62), Blk, Text0, LatLon, End>>)
ByZones == At(61, 61, Head1(61, "WSW") \o
  <<Ugc("Z", 1), Text0, End, Range3("Z", 3), Text0, End>>)
AllEnvelopes ==
  <<Eve, Cancelled, AThenB, BThenA, Twice, Broken, CodesFirst, Foggy, NoText, NoPayload,
    NextYear, Drawn, ByZones>>
\* Two bulletins of the same events, in the order of issue and not; then one
\* of another form, or with a range, followed by one of an event.
Pairs == {<<1, 2>>, <<2, 1>>, <<3, 4>>, <<4, 3>>, <<3, 2>>, <<5, 2>>, <<5, 5>>, <<4, 4>>, <<1, 11>>,
            <<11, 2>>}
           \cup {<<f, 1>> : f \in (6 .. 10) \cup {12, 13}}
=============================================================================
