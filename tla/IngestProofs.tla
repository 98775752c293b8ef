---------------------------- MODULE IngestProofs ----------------------------
(***************************************************************************)
(* Proofs about ingest, for any bulletins, stanzas, sessions and faults.   *)
(* First of the parser: it ends, and the requests it makes have the types  *)
(* that the tables have.  Then of the sessions and their transactions.     *)
(* Last of what the parser makes of a text: the day of issue, segments     *)
(* that are kept apart, and nothing left out of a well-formed bulletin.    *)
(***************************************************************************)
EXTENDS Ingest, FiniteSetTheorems, WellFoundedInduction, TLAPS

-----------------------------------------------------------------------------
(* Reading a bulletin.                                                     *)

LEMMA LeastIn ==
  ASSUME NEW S \in SUBSET Nat, S # {}
  PROVE  \E x \in S : \A y \in S : x <= y
  <1> DEFINE R == {p \in Nat \X Nat : p[1] < p[2]}
  <1>1. IsWellFoundedOn(R, Nat)
    BY NatLessThanWellFounded, Zenon DEF OpToRel
  <1>2. PICK x \in S : \A y \in S : <<y, x>> \notin R
    <2> HIDE DEF R
    <2> QED
      BY <1>1, WFMin
  <1>3. ASSUME NEW y \in S PROVE x <= y
    <2>1. <<y, x>> \notin R /\ y \in Nat /\ x \in Nat
      BY <1>2
    <2> QED
      BY <2>1
  <1> QED
    BY <1>3

(* There is a first place whose line satisfies what the end of the text    *)
(* satisfies.                                                              *)
LEMMA Stops ==
  ASSUME NEW L, NEW b \in Seq(L), NEW n \in Nat, n <= Len(b) + 1, NEW kinds, "eof" \notin kinds
  PROVE  \E i \in n .. (Len(b) + 1) :
           Kind(b, i) \notin kinds /\ \A j \in n .. (i - 1) : Kind(b, j) \in kinds
  <1> DEFINE S == {i \in n .. (Len(b) + 1) : Kind(b, i) \notin kinds}
  <1>1. Len(b) + 1 \in S
    BY DEF Kind
  <1>2. S \in SUBSET Nat /\ S # {}
    BY <1>1
  <1>3. PICK i \in S : \A j \in S : i <= j
    BY <1>2, LeastIn
  <1>4. ASSUME NEW j \in n .. (i - 1) PROVE Kind(b, j) \in kinds
    <2>1. j \in n .. (Len(b) + 1) /\ ~(i <= j)
      BY <1>2
    <2> QED
      BY <1>3, <2>1
  <1> QED
    BY <1>3, <1>4

LEMMA TrimIs ==
  ASSUME NEW L, NEW b \in Seq(L), NEW n \in Nat, n <= Len(b) + 1
  PROVE  /\ Trim(b, n) \in n .. (Len(b) + 1) /\ Kind(b, Trim(b, n)) # "blank"
         /\ \A j \in n .. (Trim(b, n) - 1) : Kind(b, j) = "blank"
  <1>1. \E i \in n .. (Len(b) + 1) :
          Kind(b, i) # "blank" /\ \A j \in n .. (i - 1) : Kind(b, j) = "blank"
    <2>1. "eof" \notin {"blank"}
      OBVIOUS
    <2>2. PICK i \in n .. (Len(b) + 1) :
            Kind(b, i) \notin {"blank"} /\ \A j \in n .. (i - 1) : Kind(b, j) \in {"blank"}
      BY <2>1, Stops
    <2> QED
      BY <2>2
  <1> QED
    BY <1>1 DEF Trim

LEMMA TrimIn ==
  ASSUME NEW L, NEW b \in Seq(L), NEW n \in Nat, n <= Len(b) + 1
  PROVE  Trim(b, n) \in n .. (Len(b) + 1) /\ Kind(b, Trim(b, n)) # "blank"
  BY TrimIs

LEMMA FirstIs ==
  ASSUME NEW L, NEW b \in Seq(L), NEW n \in Nat, n <= Len(b) + 1, NEW kinds
  PROVE  /\ First(b, n, kinds) \in n .. (Len(b) + 1)
         /\ Kind(b, First(b, n, kinds)) \in kinds \cup {"eof"}
         /\ \A j \in n .. (First(b, n, kinds) - 1) : Kind(b, j) \notin kinds
  <1> DEFINE S == {i \in n .. (Len(b) + 1) : Kind(b, i) \in kinds \cup {"eof"}}
  <1>1. Len(b) + 1 \in S
    BY DEF Kind
  <1>2. S \in SUBSET Nat /\ S # {}
    BY <1>1
  <1>3. PICK i \in S : \A j \in S : i <= j
    BY <1>2, LeastIn
  <1>4. ASSUME NEW j \in n .. (i - 1) PROVE Kind(b, j) \notin kinds
    <2>1. j \in n .. (Len(b) + 1) /\ ~(i <= j)
      BY <1>2
    <2> QED
      BY <1>3, <2>1
  <1>5. \E x \in n .. (Len(b) + 1) :
          Kind(b, x) \in kinds \cup {"eof"} /\ \A j \in n .. (x - 1) : Kind(b, j) \notin kinds
    BY <1>3, <1>4
  <1> QED
    BY <1>5 DEF First

LEMMA FirstIn ==
  ASSUME NEW L, NEW b \in Seq(L), NEW n \in Nat, n <= Len(b) + 1, NEW kinds
  PROVE  First(b, n, kinds) \in n .. (Len(b) + 1)
  BY FirstIs

LEMMA PairsIn ==
  ASSUME NEW L, NEW b \in Seq(L), NEW n \in Nat, n <= Len(b) + 1
  PROVE  /\ VTECPairs(b, n).rest \in n .. (Len(b) + 1)
         /\ \A j \in n .. (VTECPairs(b, n).rest - 1) : Kind(b, j) \in {"vtec", "blank"}
         /\ \A i \in DOMAIN VTECPairs(b, n).lines :
              /\ i \in DOMAIN b /\ b[i].k = "vtec" /\ VTECPairs(b, n).lines[i] = b[i]
              /\ i \in n .. (VTECPairs(b, n).rest - 1)
  <1> DEFINE Stop(i) == /\ Kind(b, i) \notin {"vtec", "blank"}
                        /\ \A j \in n .. (i - 1) : Kind(b, j) \in {"vtec", "blank"}
             after == CHOOSE i \in n .. (Len(b) + 1) : Stop(i)
             at == {j \in n .. (after - 1) : Kind(b, j) = "vtec"}
  <1>1. \E i \in n .. (Len(b) + 1) : Stop(i)
    <2>1. "eof" \notin {"vtec", "blank"}
      OBVIOUS
    <2> QED
      BY <2>1, Stops
  <1>2. after \in n .. (Len(b) + 1) /\ Stop(after)
    <2> HIDE DEF Stop
    <2> QED
      BY <1>1
  <1>3. VTECPairs(b, n) = [lines |-> [i \in at |-> b[i]], rest |-> after]
    BY DEF VTECPairs
  <1>4. ASSUME NEW i \in at PROVE i \in DOMAIN b /\ b[i].k = "vtec" /\ i \in n .. (after - 1)
    BY DEF Kind
  <1> HIDE DEF at, after
  <1> QED
    BY <1>2, <1>3, <1>4

LEMMA PastIn ==
  ASSUME NEW L, NEW b \in Seq(L), NEW n \in Nat, n <= Len(b) + 1, NEW kind, kind # "eof"
  PROVE  /\ Past(b, n, kind) \in n .. (Len(b) + 1)
         /\ Kind(b, n) = kind => n < Past(b, n, kind)
         /\ \A j \in n .. (Past(b, n, kind) - 1) : Kind(b, j) \in {"blank", kind}
  <1> DEFINE m == IF Kind(b, n) = kind THEN n + 1 ELSE n
  <1>1. m \in Nat /\ n <= m /\ m <= Len(b) + 1
    BY DEF Kind
  <1>2. /\ Trim(b, m) \in m .. (Len(b) + 1)
        /\ \A j \in m .. (Trim(b, m) - 1) : Kind(b, j) = "blank"
    BY <1>1, TrimIs
  <1>3. \A j \in n .. (m - 1) : Kind(b, j) = kind
    OBVIOUS
  <1>4. Past(b, n, kind) = Trim(b, m)
    BY DEF Past
  <1>5. Kind(b, n) = kind => m = n + 1
    OBVIOUS
  <1> HIDE DEF m
  <1> QED
    BY <1>1, <1>2, <1>3, <1>4, <1>5

(* What a segment begins with. *)
Opening == {"blank", "ugc", "vtec", "names", "cities", "issued"}

LEMMA HeaderIn ==
  ASSUME NEW L, NEW b \in Seq(L), NEW n \in Nat, n <= Len(b) + 1
  PROVE  LET header == SegmentHeader(b, n) IN
         /\ header.rest \in n .. (Len(b) + 1)
         /\ \A j \in n .. (header.rest - 1) : Kind(b, j) \in Opening
         /\ \A i \in DOMAIN header.vtecs :
              /\ i \in DOMAIN b /\ b[i].k = "vtec" /\ header.vtecs[i] = b[i]
              /\ i \in n .. (header.rest - 1)
         /\ IF Kind(b, Trim(b, n)) = "ugc"
            THEN Trim(b, n) < header.rest /\ header.codes = Codes(b[Trim(b, n)].ranges)
            ELSE header.codes = {}
  <1> DEFINE N == Len(b) + 1
             ugc == Trim(b, n)
             first == Past(b, ugc, "ugc")
             vtecs == VTECPairs(b, first)
             names == Past(b, vtecs.rest, "names")
             cities == Past(b, names, "cities")
             issued == Past(b, cities, "issued")
             Skipped(i, j) == \A k \in i .. (j - 1) : Kind(b, k) \in Opening
  <1>0. N \in Nat
    OBVIOUS
  <1>1. ugc \in n .. N /\ Skipped(n, ugc)
    BY TrimIs DEF Opening
  <1>2. first \in ugc .. N /\ Skipped(ugc, first) /\ (Kind(b, ugc) = "ugc" => ugc < first)
    <2>1. ugc \in Nat /\ ugc <= N
      BY <1>1
    <2> QED
      BY <2>1, PastIn DEF Opening
  <1>3. /\ vtecs.rest \in first .. N /\ Skipped(first, vtecs.rest)
        /\ \A i \in DOMAIN vtecs.lines :
             /\ i \in DOMAIN b /\ b[i].k = "vtec" /\ vtecs.lines[i] = b[i]
             /\ i \in first .. (vtecs.rest - 1)
    <2>1. first \in Nat /\ first <= N
      BY <1>1, <1>2
    <2> QED
      BY <2>1, PairsIn DEF Opening
  <1>7. /\ SegmentHeader(b, n).rest = issued /\ SegmentHeader(b, n).vtecs = vtecs.lines
        /\ SegmentHeader(b, n).codes = IF Kind(b, ugc) = "ugc" THEN Codes(b[ugc].ranges) ELSE {}
    BY DEF SegmentHeader, vtecs
  <1> DEFINE header == SegmentHeader(b, n)
  <1> HIDE DEF ugc, first, vtecs, header
  <1>4. names \in vtecs.rest .. N /\ Skipped(vtecs.rest, names)
    <2>1. vtecs.rest \in Nat /\ vtecs.rest <= N
      BY <1>1, <1>2, <1>3
    <2> QED
      BY <2>1, PastIn DEF Opening
  <1> HIDE DEF names
  <1>5. cities \in names .. N /\ Skipped(names, cities)
    <2>1. names \in Nat /\ names <= N
      BY <1>1, <1>2, <1>3, <1>4
    <2> QED
      BY <2>1, PastIn DEF Opening
  <1> HIDE DEF cities
  <1>6. issued \in cities .. N /\ Skipped(cities, issued)
    <2>1. cities \in Nat /\ cities <= N
      BY <1>1, <1>2, <1>3, <1>4, <1>5
    <2> QED
      BY <2>1, PastIn DEF Opening
  <1> HIDE DEF issued, N
  <1>8. Skipped(n, issued) /\ issued \in n .. N
    BY <1>0, <1>1, <1>2, <1>3, <1>4, <1>5, <1>6
  <1>9. /\ \A i \in DOMAIN vtecs.lines : i \in n .. (issued - 1)
        /\ Kind(b, ugc) = "ugc" => ugc < issued
    BY <1>0, <1>1, <1>2, <1>3, <1>4, <1>5, <1>6
  <1>10. /\ header.rest = issued /\ header.vtecs = vtecs.lines
         /\ header.codes = IF Kind(b, ugc) = "ugc" THEN Codes(b[ugc].ranges) ELSE {}
    BY <1>7 DEF header, issued, ugc
  <1> HIDE DEF Skipped
  <1>11. /\ header.rest \in n .. N
         /\ \A j \in n .. (header.rest - 1) : Kind(b, j) \in Opening
         /\ \A i \in DOMAIN header.vtecs :
              /\ i \in DOMAIN b /\ b[i].k = "vtec" /\ header.vtecs[i] = b[i]
              /\ i \in n .. (header.rest - 1)
         /\ IF Kind(b, ugc) = "ugc"
            THEN ugc < header.rest /\ header.codes = Codes(b[ugc].ranges)
            ELSE header.codes = {}
    BY <1>3, <1>8, <1>9, <1>10 DEF Skipped
  <1> QED
    BY <1>11 DEF header, ugc, N

Texts == Seq(Line(Etns))

LEMMA LineKinds ==
  ASSUME NEW line \in Line(Etns)
  PROVE  /\ line.k = "vtec" => line \in PrimaryVTEC(Etns)
         /\ line.k = "wmo" => line.at \in 1 .. 31
         /\ line.k \in {"latlon", "nums"} => line.nums \in Seq(Nat)
         /\ line.k # "eof"
  BY DEF Line, PrimaryVTEC, UGCCode, BroadcastInstruction, IssuanceDateTime

(* The loop over segments is a recursive function: that there is one which *)
(* satisfies its equation is shown from the end of the text on.            *)
SegmentAt(b, n) == LET header == SegmentHeader(b, n)
                   IN  Segment(b, header, First(b, header.rest, {"end"}))

Part(b, f, n) ==
  LET header == SegmentHeader(b, n)
      stop == First(b, header.rest, {"end"})
      others == f[Trim(b, stop + 1)]
  IN  IF n > Len(b) THEN [list |-> <<>>, footer |-> {}]
      ELSE IF stop > Len(b) THEN
        [list |-> <<>>, footer |-> {b[i] : i \in header.rest .. Len(b)}]
      ELSE [list |-> <<Segment(b, header, stop)>> \o others.list,
            footer |-> others.footer]

Walk(b) == CHOOSE f : f = [n \in Nat |-> Part(b, f, n)]

LEMMA WalkIs == ASSUME NEW b, NEW start PROVE Segments(b, start) = Walk(b)[start]
  BY DEF Segments, Walk, Part

(* Where the next segment begins. *)
LEMMA GoesOn ==
  ASSUME NEW L, NEW b \in Seq(L), NEW n \in Nat, n <= Len(b),
         First(b, SegmentHeader(b, n).rest, {"end"}) <= Len(b)
  PROVE  LET next == Trim(b, First(b, SegmentHeader(b, n).rest, {"end"}) + 1)
         IN  next \in Nat /\ next > n /\ next <= Len(b) + 1
  <1> DEFINE rest == SegmentHeader(b, n).rest
             stop == First(b, rest, {"end"})
  <1>1. rest \in n .. (Len(b) + 1)
    BY HeaderIn
  <1>2. stop \in rest .. (Len(b) + 1)
    BY <1>1, FirstIn
  <1>3. stop + 1 \in Nat /\ stop + 1 <= Len(b) + 1
    BY <1>1, <1>2
  <1>4. Trim(b, stop + 1) \in (stop + 1) .. (Len(b) + 1)
    BY <1>3, TrimIn
  <1> QED
    BY <1>1, <1>2, <1>4

LEMMA PartLooksAhead ==
  ASSUME NEW L, NEW b \in Seq(L), NEW f, NEW g, NEW n \in Nat,
         \A m \in Nat : m > n => f[m] = g[m]
  PROVE  Part(b, f, n) = Part(b, g, n)
  <1> DEFINE stop == First(b, SegmentHeader(b, n).rest, {"end"})
  <1>1. CASE n > Len(b)
    BY <1>1 DEF Part
  <1>2. CASE ~(n > Len(b)) /\ stop > Len(b)
    BY <1>2 DEF Part
  <1>3. CASE ~(n > Len(b)) /\ ~(stop > Len(b))
    <2>1. n <= Len(b) /\ stop <= Len(b)
      <3>1. SegmentHeader(b, n).rest \in n .. (Len(b) + 1)
        BY <1>3, HeaderIn
      <3>2. stop \in SegmentHeader(b, n).rest .. (Len(b) + 1)
        BY <3>1, FirstIn
      <3> QED
        BY <1>3, <3>1, <3>2
    <2>2. Trim(b, stop + 1) \in Nat /\ Trim(b, stop + 1) > n
      BY <2>1, GoesOn
    <2>3. f[Trim(b, stop + 1)] = g[Trim(b, stop + 1)]
      BY <2>2
    <2> QED
      BY <1>3, <2>3 DEF Part
  <1> QED
    BY <1>1, <1>2, <1>3

LEMMA WalkEnds ==
  ASSUME NEW L, NEW b \in Seq(L)
  PROVE  Walk(b) = [n \in Nat |-> Part(b, Walk(b), n)]
  <1> DEFINE From(k) == {n \in Nat : n >= k}
             Partial(k) == \E f : f = [n \in From(k) |-> Part(b, f, n)]
             N == Len(b) + 1
             Bad == {d \in 0 .. N : ~Partial(N - d)}
  <1>1. Partial(N)
    <2> DEFINE f == [n \in From(N) |-> [list |-> <<>>, footer |-> {}]]
    <2>1. \A n \in From(N) : Part(b, f, n) = [list |-> <<>>, footer |-> {}]
      BY DEF Part
    <2> QED
      BY <2>1
  <1>2. ASSUME NEW k \in Nat, k < N, Partial(k + 1) PROVE Partial(k)
    <2>1. PICK f : f = [n \in From(k + 1) |-> Part(b, f, n)]
      BY <1>2
    <2> DEFINE g == [n \in From(k) |-> IF n = k THEN Part(b, f, k) ELSE f[n]]
    <2>2. ASSUME NEW n \in From(k) PROVE g[n] = Part(b, g, n)
      <3>1. ASSUME NEW m \in Nat, m > n PROVE f[m] = g[m]
        BY <2>2, <3>1
      <3>2. Part(b, f, n) = Part(b, g, n)
        <4> HIDE DEF g
        <4> QED
          BY <3>1, PartLooksAhead
      <3>3. CASE n = k
        BY <3>2, <3>3
      <3>4. CASE n # k
        <4>1. n \in From(k + 1) /\ g[n] = f[n]
          BY <3>4
        <4>2. f[n] = Part(b, f, n)
          <5> HIDE DEF g
          <5> QED
            BY <2>1, <4>1
        <4> QED
          BY <3>2, <4>1, <4>2
      <3> QED
        BY <3>3, <3>4
    <2>3. g = [n \in From(k) |-> Part(b, g, n)]
      <3>1. g = [n \in From(k) |-> g[n]]
        OBVIOUS
      <3> HIDE DEF g
      <3> QED
        BY <2>2, <3>1
    <2> QED
      BY <2>3
  <1>3. Bad = {}
    <2> SUFFICES ASSUME Bad # {} PROVE FALSE
      OBVIOUS
    <2>1. Bad \in SUBSET Nat
      OBVIOUS
    <2>2. PICK d \in Bad : \A e \in Bad : d <= e
      <3> HIDE DEF Bad
      <3> QED
        BY <2>1, LeastIn
    <2>3. d # 0
      <3>1. N - 0 = N
        OBVIOUS
      <3> HIDE DEF Partial
      <3> QED
        BY <1>1, <3>1
    <2>4. d - 1 \in 0 .. N /\ ~(d <= d - 1)
      BY <2>3
    <2>5. Partial(N - (d - 1))
      BY <2>2, <2>4
    <2>6. /\ N - d \in Nat /\ N - d < N /\ N - (d - 1) = (N - d) + 1
      BY <2>3
    <2> HIDE DEF Partial
    <2>7. Partial((N - d) + 1)
      BY <2>5, <2>6
    <2> QED
      BY <1>2, <2>6, <2>7
  <1>4. Partial(0)
    <2>1. N \in 0 .. N /\ N - N = 0
      OBVIOUS
    <2> HIDE DEF Partial
    <2> QED
      BY <1>3, <2>1
  <1>5. From(0) = Nat
    OBVIOUS
  <1> QED
    BY <1>4, <1>5 DEF Walk

SegmentsOf(b) == {SegmentAt(b, n) : n \in 1 .. Len(b)}

EndsBefore(b, n) == {x \in EndsOf(b) : x < n}
EndsFrom(b, n) == {x \in EndsOf(b) : x >= n}
Terminator(b, n) == First(b, SegmentHeader(b, n).rest, {"end"})

LEMMA EndsFinite ==
  ASSUME NEW L, NEW b \in Seq(L), NEW n
  PROVE  /\ IsFiniteSet(EndsOf(b)) /\ Cardinality(EndsOf(b)) \in Nat
         /\ IsFiniteSet(EndsBefore(b, n)) /\ Cardinality(EndsBefore(b, n)) \in Nat
         /\ Cardinality(EndsBefore(b, n)) <= Cardinality(EndsOf(b))
         /\ IsFiniteSet(EndsFrom(b, n)) /\ Cardinality(EndsFrom(b, n)) \in Nat
  <1>1. IsFiniteSet(1 .. Len(b))
    BY FS_Interval
  <1>2. EndsOf(b) \subseteq 1 .. Len(b)
    BY DEF EndsOf
  <1>3. IsFiniteSet(EndsOf(b))
    BY <1>1, <1>2, FS_Subset
  <1>4. EndsBefore(b, n) \subseteq EndsOf(b) /\ EndsFrom(b, n) \subseteq EndsOf(b)
    BY DEF EndsBefore, EndsFrom
  <1> QED
    BY <1>3, <1>4, FS_Subset, FS_CardinalityType

(* A segment ends with the first terminator after its beginning. *)
LEMMA EndsThere ==
  ASSUME NEW b \in Texts, NEW n \in 1 .. Len(b)
  PROVE  /\ Terminator(b, n) \in n .. (Len(b) + 1)
         /\ SegmentHeader(b, n).rest <= Terminator(b, n)
         /\ \A j \in n .. (Terminator(b, n) - 1) : Kind(b, j) # "end"
         /\ Terminator(b, n) <= Len(b) => Terminator(b, n) \in EndsOf(b)
  <1> DEFINE rest == SegmentHeader(b, n).rest
             stop == First(b, rest, {"end"})
             N == Len(b) + 1
  <1>1. rest \in n .. N /\ \A j \in n .. (rest - 1) : Kind(b, j) # "end"
    BY HeaderIn DEF Opening, Texts
  <1> HIDE DEF rest
  <1>2. /\ stop \in rest .. N /\ Kind(b, stop) \in {"end", "eof"}
        /\ \A j \in rest .. (stop - 1) : Kind(b, j) # "end"
    BY <1>1, FirstIs DEF Texts
  <1> HIDE DEF stop
  <1>3. \A j \in n .. (stop - 1) : Kind(b, j) # "end"
    BY <1>1, <1>2
  <1>4. stop <= Len(b) => stop \in EndsOf(b)
    <2> SUFFICES ASSUME stop <= Len(b) PROVE stop \in EndsOf(b)
      OBVIOUS
    <2>1. stop \in DOMAIN b /\ b[stop].k \in {"end", "eof"} /\ b[stop] \in Line(Etns)
      BY <1>1, <1>2 DEF Kind, Texts
    <2> QED
      BY <2>1, LineKinds DEF EndsOf
  <1>5. stop = Terminator(b, n)
    BY DEF stop, rest, Terminator
  <1> QED
    BY <1>1, <1>2, <1>3, <1>4, <1>5 DEF rest

(* The next segment begins behind it. *)
LEMMA EndsNext ==
  ASSUME NEW b \in Texts, NEW n \in 1 .. Len(b), Terminator(b, n) <= Len(b)
  PROVE  LET stop == Terminator(b, n)
             next == Trim(b, stop + 1)
         IN  /\ next \in (n + 1) .. (Len(b) + 1)
             /\ stop \in EndsOf(b)
             /\ Cardinality(EndsBefore(b, next)) = Cardinality(EndsBefore(b, n)) + 1
             /\ Cardinality(EndsFrom(b, n)) = Cardinality(EndsFrom(b, next)) + 1
  <1> DEFINE stop == Terminator(b, n)
             next == Trim(b, stop + 1)
  <1>1. /\ stop \in n .. Len(b) /\ stop \in EndsOf(b)
        /\ \A j \in n .. (stop - 1) : j \notin EndsOf(b)
    <2>1. /\ stop \in n .. (Len(b) + 1) /\ stop \in EndsOf(b)
          /\ \A j \in n .. (stop - 1) : Kind(b, j) # "end"
      BY EndsThere
    <2> HIDE DEF stop
    <2> QED
      BY <2>1 DEF Kind, EndsOf
  <1>2. /\ next \in (stop + 1) .. (Len(b) + 1)
        /\ \A j \in (stop + 1) .. (next - 1) : j \notin EndsOf(b)
    <2> HIDE DEF stop
    <2>1. /\ next \in (stop + 1) .. (Len(b) + 1)
          /\ \A j \in (stop + 1) .. (next - 1) : Kind(b, j) = "blank"
      BY <1>1, TrimIs DEF Texts
    <2> HIDE DEF next
    <2> QED
      BY <2>1 DEF Kind, EndsOf
  <1> HIDE DEF stop, next
  <1>3. EndsOf(b) \subseteq Nat
    BY DEF EndsOf, Texts
  <1>4. EndsBefore(b, next) = EndsBefore(b, n) \cup {stop} /\ stop \notin EndsBefore(b, n)
    BY <1>1, <1>2, <1>3 DEF EndsBefore
  <1>5. EndsFrom(b, n) = EndsFrom(b, next) \cup {stop} /\ stop \notin EndsFrom(b, next)
    BY <1>1, <1>2, <1>3 DEF EndsFrom
  <1>6. /\ Cardinality(EndsBefore(b, next)) = Cardinality(EndsBefore(b, n)) + 1
        /\ Cardinality(EndsFrom(b, n)) = Cardinality(EndsFrom(b, next)) + 1
    BY <1>4, <1>5, EndsFinite, FS_AddElement DEF Texts
  <1> QED
    BY <1>1, <1>2, <1>6 DEF stop, next

(* What the loop returns from a place on: the segments, in order, as many  *)
(* as terminators follow.                                                  *)
Reads(b, n) ==
  LET list == Walk(b)[n].list IN
    /\ list \in Seq(SegmentsOf(b))
    /\ Len(list) = Cardinality(EndsFrom(b, n))
    /\ \A i \in DOMAIN list : \E m \in n .. Len(b) :
         /\ m = n \/ \E e \in EndsOf(b) : m = Trim(b, e + 1)
         /\ Terminator(b, m) <= Len(b) /\ list[i] = SegmentAt(b, m)
         /\ Cardinality(EndsBefore(b, m)) = Cardinality(EndsBefore(b, n)) + i - 1

LEMMA ReadsNone ==
  ASSUME NEW b \in Texts, NEW n \in 1 .. (Len(b) + 1), n > Len(b) \/ Terminator(b, n) > Len(b)
  PROVE  Reads(b, n)
  <1>1. Walk(b)[n] = Part(b, Walk(b), n)
    BY WalkEnds DEF Texts
  <1>2. Part(b, Walk(b), n).list = <<>>
    BY DEF Part, Terminator
  <1>3. Walk(b)[n].list = <<>>
    BY <1>1, <1>2
  <1>4. EndsFrom(b, n) = {}
    <2>1. CASE n > Len(b)
      BY <2>1 DEF EndsFrom, EndsOf, Texts
    <2>2. CASE n <= Len(b)
      <3>1. /\ Terminator(b, n) \in n .. (Len(b) + 1)
            /\ \A j \in n .. (Terminator(b, n) - 1) : Kind(b, j) # "end"
        BY <2>2, EndsThere
      <3>2. \A j \in n .. Len(b) : Kind(b, j) # "end"
        BY <2>2, <3>1
      <3> QED
        BY <3>2 DEF EndsFrom, EndsOf, Kind, Texts
    <2> QED
      BY <2>1, <2>2
  <1> QED
    BY <1>3, <1>4, FS_EmptySet DEF Reads

LEMMA ReadsOne ==
  ASSUME NEW b \in Texts, NEW n \in 1 .. Len(b), Terminator(b, n) <= Len(b),
         Reads(b, Trim(b, Terminator(b, n) + 1))
  PROVE  Reads(b, n)
  <1> DEFINE next == Trim(b, Terminator(b, n) + 1)
             others == Walk(b)[next].list
             list == Walk(b)[n].list
             one == SegmentAt(b, n)
  <1>1. /\ next \in (n + 1) .. (Len(b) + 1) /\ Terminator(b, n) \in EndsOf(b)
        /\ Cardinality(EndsBefore(b, next)) = Cardinality(EndsBefore(b, n)) + 1
        /\ Cardinality(EndsFrom(b, n)) = Cardinality(EndsFrom(b, next)) + 1
    BY EndsNext
  <1>2. Walk(b)[n] = Part(b, Walk(b), n)
    BY WalkEnds DEF Texts
  <1>3. Part(b, Walk(b), n).list = <<one>> \o others
    <2>1. Terminator(b, n) \in Nat /\ Len(b) \in Nat
      BY EndsThere DEF Texts
    <2>2. ~(n > Len(b)) /\ ~(Terminator(b, n) > Len(b))
      BY <2>1
    <2> QED
      BY <2>2 DEF Part, SegmentAt, Terminator
  <1>4. list = <<one>> \o others
    BY <1>2, <1>3
  <1>5. one \in SegmentsOf(b)
    BY DEF SegmentsOf
  <1>6. /\ others \in Seq(SegmentsOf(b)) /\ Len(others) = Cardinality(EndsFrom(b, next))
        /\ \A i \in DOMAIN others : \E m \in next .. Len(b) :
             /\ m = next \/ \E e \in EndsOf(b) : m = Trim(b, e + 1)
             /\ Terminator(b, m) <= Len(b) /\ others[i] = SegmentAt(b, m)
             /\ Cardinality(EndsBefore(b, m)) = Cardinality(EndsBefore(b, next)) + i - 1
    BY DEF Reads
  <1>7. next = Trim(b, Terminator(b, n) + 1)
    OBVIOUS
  <1> HIDE DEF next, others, one, list
  <1>8. /\ list \in Seq(SegmentsOf(b)) /\ Len(list) = Len(others) + 1 /\ list[1] = one
        /\ \A i \in 2 .. Len(list) : i - 1 \in DOMAIN others /\ list[i] = others[i - 1]
    BY <1>4, <1>5, <1>6
  <1>9. Cardinality(EndsBefore(b, n)) \in Nat
    BY EndsFinite DEF Texts
  <1>10. ASSUME NEW i \in DOMAIN list
         PROVE  \E m \in n .. Len(b) :
                  /\ m = n \/ \E e \in EndsOf(b) : m = Trim(b, e + 1)
                  /\ Terminator(b, m) <= Len(b) /\ list[i] = SegmentAt(b, m)
                  /\ Cardinality(EndsBefore(b, m)) = Cardinality(EndsBefore(b, n)) + i - 1
    <2>1. i \in 1 .. Len(list)
      BY <1>8
    <2>2. CASE i = 1
      <3>1. list[i] = SegmentAt(b, n) /\ n \in n .. Len(b)
        BY <1>8, <2>2 DEF one
      <3>2. Cardinality(EndsBefore(b, n)) = Cardinality(EndsBefore(b, n)) + i - 1
        BY <1>9, <2>2
      <3> QED
        BY <3>1, <3>2
    <2>3. CASE i # 1
      <3>1. i \in 2 .. Len(list)
        BY <2>1, <2>3
      <3>2. i - 1 \in DOMAIN others /\ list[i] = others[i - 1]
        BY <1>8, <3>1
      <3>3. PICK m \in next .. Len(b) :
             /\ m = next \/ \E e \in EndsOf(b) : m = Trim(b, e + 1)
             /\ Terminator(b, m) <= Len(b) /\ others[i - 1] = SegmentAt(b, m)
             /\ Cardinality(EndsBefore(b, m)) = Cardinality(EndsBefore(b, next)) + (i - 1) - 1
        BY <1>6, <3>2
      <3>4. \E e \in EndsOf(b) : m = Trim(b, e + 1)
        BY <1>1, <1>7, <3>3
      <3>5. m \in n .. Len(b)
        BY <1>1
      <3>6. Cardinality(EndsBefore(b, m)) = Cardinality(EndsBefore(b, n)) + i - 1
        BY <1>1, <1>9, <2>1, <3>3
      <3> QED
        BY <3>2, <3>3, <3>4, <3>5, <3>6
    <2> QED
      BY <2>2, <2>3
  <1>11. Len(list) = Cardinality(EndsFrom(b, n))
    BY <1>1, <1>6, <1>8
  <1> QED
    BY <1>8, <1>10, <1>11 DEF Reads, list

LEMMA WalkReads ==
  ASSUME NEW b \in Texts, NEW start \in 1 .. (Len(b) + 1)
  PROVE  Reads(b, start)
  <1> DEFINE N == Len(b) + 1
             Bad == {d \in 0 .. (N - 1) : ~Reads(b, N - d)}
  <1>0. N \in Nat /\ N >= 1
    BY DEF Texts
  <1>1. SUFFICES ASSUME Bad # {} PROVE FALSE
    <2>1. N - start \in 0 .. (N - 1) /\ N - (N - start) = start
      BY <1>0
    <2> QED
      BY <2>1
  <1>2. Bad \in SUBSET Nat
    OBVIOUS
  <1>3. PICK d \in Bad : \A e \in Bad : d <= e
    <2> HIDE DEF Bad
    <2> QED
      BY <1>1, <1>2, LeastIn
  <1> DEFINE n == N - d
  <1>4. n \in 1 .. N /\ ~Reads(b, n) /\ d \in Nat /\ N - n = d
    BY <1>0, <1>3
  <1>5. ASSUME NEW m \in (n + 1) .. N PROVE Reads(b, m)
    <2>1. N - m \in 0 .. (N - 1) /\ ~(d <= N - m) /\ N - (N - m) = m
      BY <1>0, <1>4
    <2>2. N - m \notin Bad
      BY <1>3, <2>1
    <2> QED
      BY <2>1, <2>2
  <1> HIDE DEF n, Bad
  <1>6. n <= Len(b) /\ ~(Terminator(b, n) > Len(b))
    BY <1>0, <1>4, ReadsNone
  <1>7. n \in 1 .. Len(b) /\ Terminator(b, n) <= Len(b)
    <2>1. n \in 1 .. Len(b)
      BY <1>0, <1>4, <1>6
    <2>2. Terminator(b, n) \in n .. (Len(b) + 1)
      BY <2>1, EndsThere
    <2> QED
      BY <1>0, <1>6, <2>1, <2>2
  <1>8. Trim(b, Terminator(b, n) + 1) \in (n + 1) .. N
    BY <1>7, EndsNext
  <1> QED
    BY <1>4, <1>5, <1>7, <1>8, ReadsOne

(* The day a header means. *)
LEMMA ResolvedDay ==
  ASSUME NEW day \in 1 .. 31, NEW reference \in Nat
  PROVE  ResolveDay(day, reference) \in Nat \cup {None}
  <1> DEFINE all == Candidates(day, reference)
             Key(d) == 2 * Distance(d, reference) + (IF d < reference THEN 1 ELSE 0)
  <1>1. ASSUME NEW d \in all PROVE d \in Nat
    <2>1. PICK m \in Months : d = MonthStart[m] + day - 1
      BY DEF Candidates
    <2>2. MonthStart[m] \in Nat
      BY CalendarAssumption DEF Months
    <2> QED
      BY <2>1, <2>2
  <1> HIDE DEF all
  <1>2. CASE all = {}
    BY <1>2 DEF ResolveDay, all
  <1>3. CASE all # {}
    <2> DEFINE keys == {Key(d) : d \in all}
    <2>1. \A d \in all : Key(d) \in Nat
      BY <1>1 DEF Distance
    <2>2. keys \in SUBSET Nat /\ keys # {}
      BY <1>3, <2>1
    <2>3. PICK x \in keys : \A y \in keys : x <= y
      <3> HIDE DEF keys
      <3> QED
        BY <2>2, LeastIn
    <2>4. PICK d \in all : x = Key(d)
      BY <2>3
    <2>5. ASSUME NEW e \in all
          PROVE  \/ Distance(d, reference) < Distance(e, reference)
                 \/ Distance(d, reference) = Distance(e, reference) /\ d >= e
      <3>1. Key(d) <= Key(e)
        BY <2>3, <2>4
      <3>2. d \in Nat /\ e \in Nat
        BY <1>1
      <3> QED
        BY <3>1, <3>2 DEF Distance
    <2>6. \E x1 \in all : \A e \in all :
             \/ Distance(x1, reference) < Distance(e, reference)
             \/ Distance(x1, reference) = Distance(e, reference) /\ x1 >= e
      BY <2>5
    <2>7. ResolveDay(day, reference) \in all
      BY <1>3, <2>6 DEF ResolveDay, all
    <2> QED
      BY <1>1, <2>7
  <1> QED
    BY <1>2, <1>3

LEMMA HeaderDay ==
  ASSUME NEW b \in Texts, NEW n \in Nat, NEW reference \in Nat
  PROVE  WMOHeader(b, n, reference) \in Nat \cup {None}
  <1>1. CASE Kind(b, n) = "wmo"
    <2>1. n \in DOMAIN b /\ b[n] \in Line(Etns) /\ b[n].k = "wmo"
      BY <1>1 DEF Kind, Texts
    <2> QED
      BY <1>1, <2>1, LineKinds, ResolvedDay DEF WMOHeader
  <1>2. CASE Kind(b, n) # "wmo"
    BY <1>2 DEF WMOHeader
  <1> QED
    BY <1>1, <1>2

LinesGood(segment) == \A i \in DOMAIN segment.vtecs : segment.vtecs[i] \in PrimaryVTEC(Etns)

LEMMA SegmentGood ==
  ASSUME NEW b \in Texts, NEW n \in Nat, n <= Len(b) + 1, NEW header, NEW stop,
         header.vtecs = SegmentHeader(b, n).vtecs
  PROVE  LinesGood(Segment(b, header, stop))
  <1>1. ASSUME NEW i \in DOMAIN SegmentHeader(b, n).vtecs
        PROVE  SegmentHeader(b, n).vtecs[i] \in PrimaryVTEC(Etns)
    <2>1. i \in DOMAIN b /\ b[i].k = "vtec" /\ SegmentHeader(b, n).vtecs[i] = b[i]
      BY HeaderIn DEF Texts
    <2>2. b[i] \in Line(Etns)
      BY <2>1 DEF Texts
    <2> QED
      BY <2>1, <2>2, LineKinds
  <1>2. Segment(b, header, stop).vtecs = SegmentHeader(b, n).vtecs
    BY DEF Segment
  <1> QED
    BY <1>1, <1>2 DEF LinesGood

(* What Parse returns. *)
Parsed(parsed) ==
  /\ parsed.issued \in Nat \cup {None}
  /\ \E n \in Nat : DOMAIN parsed.segments = 1 .. n
  /\ \A i \in DOMAIN parsed.segments : LinesGood(parsed.segments[i])

LEMMA ListGood ==
  ASSUME NEW b \in Texts, NEW start \in 1 .. (Len(b) + 1)
  PROVE  /\ \E n \in Nat : DOMAIN Segments(b, start).list = 1 .. n
         /\ \A i \in DOMAIN Segments(b, start).list : LinesGood(Segments(b, start).list[i])
  <1> DEFINE list == Segments(b, start).list
  <1>1. list \in Seq(SegmentsOf(b))
    BY WalkIs, WalkReads DEF Reads
  <1>2. ASSUME NEW x \in SegmentsOf(b) PROVE LinesGood(x)
    <2>1. PICK n \in 1 .. Len(b) : x = SegmentAt(b, n)
      BY <1>2 DEF SegmentsOf
    <2>2. Len(b) \in Nat
      BY DEF Texts
    <2>3. n \in Nat /\ n <= Len(b) + 1
      BY <2>2
    <2> QED
      BY <2>1, <2>3, SegmentGood DEF SegmentAt
  <1> HIDE DEF list
  <1>3. DOMAIN list = 1 .. Len(list) /\ Len(list) \in Nat
    BY <1>1
  <1>4. \A i \in DOMAIN list : list[i] \in SegmentsOf(b)
    BY <1>1
  <1> QED
    BY <1>2, <1>3, <1>4 DEF list

LEMMA NextLine ==
  ASSUME NEW b \in Texts, NEW n \in 1 .. (Len(b) + 1)
  PROVE  Trim(b, n) \in 1 .. (Len(b) + 1) /\ Trim(b, After(b, n)) \in 1 .. (Len(b) + 1)
  <1>1. After(b, n) \in 1 .. (Len(b) + 1)
    BY DEF After, Texts
  <1>2. ASSUME NEW m \in 1 .. (Len(b) + 1) PROVE Trim(b, m) \in 1 .. (Len(b) + 1)
    <2>1. Trim(b, m) \in m .. (Len(b) + 1)
      BY TrimIn DEF Texts
    <2> QED
      BY <2>1 DEF Texts
  <1> QED
    BY <1>1, <1>2

LEMMA BodyIn ==
  ASSUME NEW b \in Texts
  PROVE  Identifier(b) \in 1 .. (Len(b) + 1) /\ Body(b) \in 1 .. (Len(b) + 1)
  <1>1. 1 \in 1 .. (Len(b) + 1)
    BY DEF Texts
  <1> QED
    BY <1>1, NextLine DEF Identifier, Body

LEMMA MNDIn ==
  ASSUME NEW b \in Texts, NEW n \in 1 .. (Len(b) + 1)
  PROVE  MNDHeader(b, n).rest \in 1 .. (Len(b) + 1)
  <1> DEFINE stop == First(b, n, {"issued"})
  <1>1. stop \in n .. (Len(b) + 1)
    BY FirstIn DEF Texts
  <1>2. stop \in 1 .. (Len(b) + 1)
    BY <1>1 DEF Texts
  <1>3. MNDHeader(b, n).rest = Trim(b, After(b, stop))
    BY DEF MNDHeader
  <1> HIDE DEF stop
  <1> QED
    BY <1>2, <1>3, NextLine

LEMMA OverviewIn ==
  ASSUME NEW b \in Texts, NEW n \in 1 .. (Len(b) + 1)
  PROVE  Overview(b, n).rest \in 1 .. (Len(b) + 1)
  <1> DEFINE stop == First(b, n, {"blank"})
  <1>1. stop \in n .. (Len(b) + 1)
    BY FirstIn DEF Texts
  <1>2. stop \in 1 .. (Len(b) + 1)
    BY <1>1 DEF Texts
  <1>3. Overview(b, n).rest \in {n, Trim(b, stop)}
    BY DEF Overview
  <1> HIDE DEF stop
  <1> QED
    BY <1>2, <1>3, NextLine

LEMMA ParseGood ==
  ASSUME NEW b \in Texts, NEW reference \in Nat
  PROVE  Parsed(Parse(b, reference))
  <1> DEFINE wmo == Trim(b, 1)
             body == Body(b)
             mnd == MNDHeader(b, body)
             overview == Overview(b, mnd.rest)
             segments == Segments(b, overview.rest)
             header == SegmentHeader(b, body)
             mnd2 == MNDHeader(b, header.rest)
             stop2 == First(b, mnd2.rest, {"end"})
             one == Segment(b, [header EXCEPT !.rest = mnd2.rest], stop2)
             p == Parse(b, reference)
  <1>a. Len(b) \in Nat /\ DOMAIN b = 1 .. Len(b) /\ b \in Seq(Line(Etns))
    BY DEF Texts
  <1>1. wmo \in 1 .. (Len(b) + 1)
    <2>1. 1 \in 1 .. (Len(b) + 1)
      BY <1>a
    <2> QED
      BY <2>1, NextLine
  <1>3. body \in 1 .. (Len(b) + 1)
    BY BodyIn
  <1>4. WMOHeader(b, wmo, reference) \in Nat \cup {None}
    BY <1>a, <1>1, HeaderDay
  <1> HIDE DEF wmo, body
  <1>5. CASE Kind(b, body) = "eof"
    <2>1. p.issued = WMOHeader(b, wmo, reference) /\ p.segments = <<>>
      BY <1>5 DEF Parse, wmo, body
    <2>2. DOMAIN p.segments = 1 .. 0
      BY <2>1
    <2> HIDE DEF p
    <2>3. \E n \in Nat : DOMAIN p.segments = 1 .. n
      BY <2>2
    <2>4. \A i \in DOMAIN p.segments : LinesGood(p.segments[i])
      BY <2>2
    <2>5. p.issued \in Nat \cup {None}
      BY <1>4, <2>1
    <2>6. Parsed(p)
      BY <2>3, <2>4, <2>5 DEF Parsed
    <2> QED
      BY <2>6 DEF p
  <1>6. CASE Kind(b, body) \notin {"eof", "ugc"}
    <2>1. p.issued = WMOHeader(b, wmo, reference) /\ p.segments = segments.list
      BY <1>6 DEF Parse, wmo, body
    <2>2. mnd.rest \in 1 .. (Len(b) + 1)
      BY <1>3, MNDIn
    <2>3. overview.rest \in 1 .. (Len(b) + 1)
      <3> HIDE DEF mnd
      <3> QED
        BY <2>2, OverviewIn
    <2> HIDE DEF p, overview
    <2>4. /\ \E n \in Nat : DOMAIN segments.list = 1 .. n
          /\ \A i \in DOMAIN segments.list : LinesGood(segments.list[i])
      BY <2>3, ListGood
    <2>5. Parsed(p)
      BY <1>4, <2>1, <2>4 DEF Parsed
    <2> QED
      BY <2>5 DEF p
  <1>7. CASE Kind(b, body) = "ugc"
    <2>1. p.issued = WMOHeader(b, wmo, reference) /\ p.segments = <<one>>
      BY <1>7 DEF Parse, wmo, body
    <2>2. DOMAIN p.segments = 1 .. 1 /\ p.segments[1] = one
      BY <2>1
    <2>3. [header EXCEPT !.rest = mnd2.rest].vtecs = header.vtecs
      BY DEF SegmentHeader
    <2>4. LinesGood(one)
      <3> DEFINE h == [header EXCEPT !.rest = mnd2.rest]
      <3>1. h.vtecs = SegmentHeader(b, body).vtecs
        BY <2>3
      <3>2. body \in Nat /\ body <= Len(b) + 1
        BY <1>a, <1>3
      <3> HIDE DEF h
      <3>3. LinesGood(Segment(b, h, stop2))
        BY <3>1, <3>2, SegmentGood
      <3> QED
        BY <3>3 DEF h
    <2> HIDE DEF p, one
    <2>5. \E n \in Nat : DOMAIN p.segments = 1 .. n
      BY <2>2
    <2>6. \A i \in DOMAIN p.segments : LinesGood(p.segments[i])
      BY <2>2, <2>4
    <2>7. p.issued \in Nat \cup {None}
      BY <1>4, <2>1
    <2>8. Parsed(p)
      BY <2>5, <2>6, <2>7 DEF Parsed
    <2> QED
      BY <2>8 DEF p
  <1> QED
    BY <1>5, <1>6, <1>7

LEMMA ParseBlank ==
  ASSUME NEW b \in Texts, NEW reference, Blank(b)
  PROVE  Parse(b, reference).segments = <<>>
  <1> DEFINE N == Len(b) + 1
  <1>1. N \in Nat /\ DOMAIN b = 1 .. (N - 1) /\ b \in Seq(Line(Etns))
    BY DEF Texts
  <1>2. Kind(b, N) = "eof" /\ After(b, N) = N
    BY <1>1 DEF Kind, After
  <1>3. ASSUME NEW n \in 1 .. N PROVE Trim(b, n) = N
    <2>1. Trim(b, n) \in n .. N /\ Kind(b, Trim(b, n)) # "blank"
      BY <1>1, TrimIn
    <2>2. Trim(b, n) \notin DOMAIN b
      BY <2>1 DEF Kind, Blank
    <2> QED
      BY <1>1, <2>1, <2>2
  <1>4. Trim(b, 1) = N /\ Trim(b, After(b, Trim(b, 1))) = N
    BY <1>1, <1>2, <1>3
  <1> HIDE DEF N
  <1> QED
    BY <1>2, <1>4 DEF Parse, Identifier, Body

-----------------------------------------------------------------------------
(* What ingest has of a stanza. *)
Read(x) ==
  /\ x.text \in Seq(Line(Etns))
  /\ \E n \in Nat : DOMAIN x.requests = 1 .. n
  /\ \A i \in DOMAIN x.requests : /\ x.requests[i].vtec \in PrimaryVTEC(Etns) \cup {None}
                                  /\ x.requests[i].issued \in Nat
  /\ Blank(x.text) => DOMAIN x.requests = {}

LEMMA DecodeGood ==
  ASSUME NEW payload \in Texts
  PROVE  Decode(payload) \in Texts
  <1> DEFINE inner == [i \in DOMAIN payload |->
                         IF payload[i].k = "cdata" THEN [k |-> "blank"] ELSE payload[i]]
             start == Trim(inner, 1)
             body == IF /\ Kind(inner, start) = "count"
                        /\ ~Blank(SubSeq(inner, start + 1, Len(inner)))
                     THEN start + 1 ELSE start
  <1>1. [k |-> "blank"] \in Line(Etns)
    BY DEF Line
  <1>2. inner \in Seq(Line(Etns))
    <2>1. DOMAIN payload = 1 .. Len(payload) /\ Len(payload) \in Nat
      BY DEF Texts
    <2>2. \A i \in DOMAIN payload : payload[i] \in Line(Etns)
      BY DEF Texts
    <2>3. \A i \in 1 .. Len(payload) : inner[i] \in Line(Etns)
      BY <1>1, <2>1, <2>2
    <2> QED
      BY <2>1, <2>3
  <1> HIDE DEF inner
  <1>3. start \in 1 .. (Len(inner) + 1)
    BY <1>2, TrimIn
  <1>4. body \in 1 .. (Len(inner) + 1)
    BY <1>2, <1>3 DEF Kind
  <1> HIDE DEF body
  <1>5. SubSeq(inner, body, Len(inner)) \in Seq(Line(Etns))
    BY <1>2, <1>4
  <1> QED
    BY <1>5 DEF Decode, Unmarked, inner, body, Texts

LEMMA DeliveredGood ==
  ASSUME NEW payload \in Texts
  PROVE  Delivered(payload) \in Texts
  <1>1. DOMAIN payload = 1 .. Len(payload) /\ Len(payload) \in Nat
    BY DEF Texts
  <1>2. ASSUME NEW line \in Line(Etns) PROVE Reencoded(line) \in Line(Etns)
    <2>1. [k |-> "blank"] \in Line(Etns)
      BY DEF Line
    <2>2. [k |-> "text", fog |-> FALSE] \in Line(Etns)
      BY DEF Line
    <2> QED
      BY <1>2, <2>1, <2>2 DEF Reencoded
  <1>3. \A i \in 1 .. Len(payload) : Reencoded(payload[i]) \in Line(Etns)
    BY <1>1, <1>2 DEF Texts
  <1> QED
    BY <1>1, <1>3 DEF Delivered, Texts

(* Without a range of codes the consumer changes nothing of the bulletin. *)
LEMMA DeliveredAsSent ==
  ASSUME NEW payload, \A i \in DOMAIN payload : ~Ranged(payload[i])
  PROVE  Decode(Delivered(payload)) = Decode(payload)
  <1>1. DOMAIN Delivered(payload) = DOMAIN payload
    BY DEF Delivered
  <1>2. ASSUME NEW i \in DOMAIN payload
        PROVE  /\ payload[i].k = "cdata" => Delivered(payload)[i] = [k |-> "blank"]
               /\ payload[i].k # "cdata" => Delivered(payload)[i] = payload[i]
    BY DEF Delivered, Reencoded
  <1>3. Unmarked(Delivered(payload)) = Unmarked(payload)
    BY <1>1, <1>2 DEF Unmarked
  <1> QED
    BY <1>3 DEF Decode

LEMMA NormalizeGood ==
  ASSUME NEW parsed, Parsed(parsed), NEW now \in Nat
  PROVE  /\ DOMAIN Normalize(parsed, now) = DOMAIN parsed.segments
         /\ \A i \in DOMAIN parsed.segments :
              /\ Normalize(parsed, now)[i].vtec \in PrimaryVTEC(Etns) \cup {None}
              /\ Normalize(parsed, now)[i].issued \in Nat
  <1>1. DOMAIN Normalize(parsed, now) = DOMAIN parsed.segments
    BY DEF Normalize
  <1>2. ASSUME NEW i \in DOMAIN parsed.segments
        PROVE  /\ Normalize(parsed, now)[i].vtec \in PrimaryVTEC(Etns) \cup {None}
               /\ Normalize(parsed, now)[i].issued \in Nat
    <2> DEFINE vtecs == parsed.segments[i].vtecs
    <2>1. /\ Normalize(parsed, now)[i].vtec =
               IF Cardinality(DOMAIN vtecs) = 1
               THEN vtecs[CHOOSE n \in DOMAIN vtecs : TRUE] ELSE None
          /\ Normalize(parsed, now)[i].issued = IF parsed.issued = None THEN now ELSE parsed.issued
      BY DEF Normalize
    <2>2. parsed.issued \in Nat \cup {None}
      BY DEF Parsed
    <2>3. Cardinality(DOMAIN vtecs) = 1 => DOMAIN vtecs # {}
      BY FS_EmptySet
    <2>4. \A j \in DOMAIN vtecs : vtecs[j] \in PrimaryVTEC(Etns)
      BY <1>2 DEF Parsed, LinesGood
    <2> HIDE DEF vtecs
    <2> QED
      BY <2>1, <2>2, <2>3, <2>4
  <1> QED
    BY <1>1, <1>2

LEMMA ReceivedGood ==
  ASSUME NEW n \in DOMAIN Envelopes
  PROVE  Read(Received(Envelopes[n]))
  <1> DEFINE envelope == Envelopes[n]
             text == Decode(Delivered(envelope.payload))
             reference == Coalesce(envelope.issue, envelope.seen)
             parsed == Parse(text, reference)
             x == Received(envelope)
  <1>1. /\ envelope.payload \in Texts
        /\ envelope.issue \in Days \cup {None} /\ envelope.seen \in Days
    BY IngestAssumption DEF Texts
  <1>2. Days \subseteq Nat
    BY CalendarAssumption DEF Days
  <1>3. reference \in Nat /\ envelope.seen \in Nat
    BY <1>1, <1>2 DEF Coalesce
  <1> HIDE DEF envelope, reference
  <1>4. text \in Texts
    BY <1>1, DeliveredGood, DecodeGood
  <1> HIDE DEF text
  <1>5. Parsed(parsed) /\ (Blank(text) => parsed.segments = <<>>)
    BY <1>3, <1>4, ParseGood, ParseBlank
  <1>6. x.text = text /\ x.requests = Normalize(parsed, envelope.seen)
    BY DEF Received, Stanza, text, reference
  <1> HIDE DEF parsed, x
  <1>7. /\ DOMAIN x.requests = DOMAIN parsed.segments
        /\ \A i \in DOMAIN x.requests : /\ x.requests[i].vtec \in PrimaryVTEC(Etns) \cup {None}
                                        /\ x.requests[i].issued \in Nat
    BY <1>3, <1>5, <1>6, NormalizeGood
  <1>8. Blank(text) => DOMAIN x.requests = {}
    BY <1>5, <1>7
  <1>9. \E m \in Nat : DOMAIN x.requests = 1 .. m
    BY <1>5, <1>7 DEF Parsed
  <1> QED
    BY <1>4, <1>6, <1>7, <1>8, <1>9 DEF Read, Texts, x, envelope

-----------------------------------------------------------------------------
(* What every state has.                                                   *)
AlertTypes ==
  {"flash_flood_warning", "special_weather_statement", "freeze_warning",
   "severe_thunderstorm_warning", "tornado_warning", "tropical_storm",
   "winter_storm_warning", "unknown"}
MessageRec == [stanza : Stanzas, segment : Nat, event : Keys \cup {None}, type : AlertTypes,
               began : Nat, stored : Nat]
HandlerRec == [pc : Pc, stanza : Stanzas \cup {None}, segment : Nat, event : Keys \cup {None},
               fresh : Row, own : [Keys -> Row], shared : SUBSET Keys,
               view : [Keys -> Row] \cup {None}, rows : SUBSET MessageRec, began : Nat]

AtRequest == {"find", "create", "get", "update", "store"}
InTx == AtRequest \cup {"segment", "commit"}

(* A message is one of a request, and has an event only with its VTEC. *)
RowGood(r) ==
  /\ r.segment \in DOMAIN Requests(r.stanza)
  /\ r.event # None => Requests(r.stanza)[r.segment].vtec # None

(* What a handler has in hand at its statement. *)
Placed(h, c) ==
  /\ h.pc # "idle" =>
       h.stanza \in Stanzas /\ Verdict(h.stanza) = "store" /\ h.began <= c
  /\ h.pc \notin InTx => h.rows = {} /\ h.own = NoRows /\ h.view = None
  /\ h.pc \in InTx => h.segment >= 1
  /\ h.pc \in AtRequest =>
       /\ h.segment \in Loadables(h.stanza)
       /\ h.pc # "store" \/ h.event # None => Requests(h.stanza)[h.segment].vtec # None
  /\ h.pc \in {"create", "get", "update"} => h.event \in Keys
  /\ h.pc = "commit" => h.segment \notin DOMAIN Requests(h.stanza)
  /\ \A r \in h.rows : RowGood(r)

Shape ==
  /\ \A e \in Stanzas : Read(env[e])
  /\ sent \in 0 .. Cardinality(Stanzas)
  /\ session \in [Sessions -> [state : SessionState, inbox : Seq(Stanzas)]]
  /\ handler \in [Sessions -> HandlerRec]
  /\ source \in [Stanzas -> {"none", "parsed", "ignored"}]
  /\ event \in [Keys -> Row]
  /\ message \subseteq MessageRec
  /\ commits \in Nat
  /\ fate \in [Sessions \X Stanzas -> Fate]
  /\ faults \in 0 .. MaxFaults
  /\ \A r \in message : RowGood(r)
  /\ \A s \in Sessions : Placed(handler[s], commits)

(* A transaction has a message for each loadable request before the one    *)
(* it is at, and its stanza has no source row yet.                         *)
Underway(h, src) ==
  h.pc \in InTx =>
    /\ src[h.stanza] = "none"
    /\ \A r \in h.rows : r.stanza = h.stanza /\ r.began = h.began
    /\ {r.segment : r \in h.rows} = {i \in Loadables(h.stanza) : i < h.segment}
    /\ \A q \in h.rows : \A r \in h.rows : q.segment = r.segment => q = r

WholeInv ==
  /\ StoredWhole
  /\ \A s \in Sessions : Underway(handler[s], source)
  /\ \A s \in Sessions : \A t \in Sessions :
       /\ handler[s].pc \in InTx /\ handler[t].pc \in InTx
       /\ handler[s].stanza = handler[t].stanza
       => s = t

(* A row of an event tells the state one message gave, among those given. *)
RowTold(k, row, ms) ==
  row # Absent =>
    /\ \E m \in ms : /\ m.event = k
                     /\ row.action = RequestOf(m).vtec.action
                     /\ row.ends = RequestOf(m).vtec.ends
                     /\ row.last = RequestOf(m).issued
    /\ \E m \in ms : m.event = k /\ row.first = RequestOf(m).issued

Hand(h) == [stanza |-> h.stanza, segment |-> h.segment, event |-> h.event]
InHand(h) == IF h.pc \in {"update", "store"} THEN {Hand(h)} ELSE {}
Told(h, ms) == ms \cup h.rows \cup InHand(h)

HandlerTold(h, ms) ==
  /\ h.view # None => \A k \in Keys : RowTold(k, h.view[k], ms)
  /\ \A k \in Keys : RowTold(k, h.own[k], Told(h, ms))
  /\ h.pc = "update" => h.fresh # Absent /\ RowTold(h.event, h.fresh, Told(h, ms))

ToldInv ==
  /\ \A k \in Keys : RowTold(k, event[k], message)
  /\ \A s \in Sessions : HandlerTold(handler[s], message)

(* Every event with a message has its row. *)
Rowed(h, ms) ==
  /\ \A r \in h.rows : r.event # None => h.own[r.event] # Absent
  /\ h.pc = "store" /\ h.event # None => h.own[h.event] # Absent
  /\ h.view # None =>
       \A m \in ms : m.event # None /\ m.stored <= h.began => h.view[m.event] # Absent

(* A continuation is put with the messages from before, or a later event.  *)
Joins(n, r, began, ms, others) ==
  n.event # None /\ r.vtec.begins = None =>
    \A m \in ms :
      /\ m.event # None /\ m.event[1] = n.event[1] /\ m.stored <= began
      /\ YearOf(r.issued) \in {m.event[2], m.event[2] + 1}
      => \/ n.event = m.event
         \/ n.event[2] > m.event[2] /\ \E x \in others : x.event = n.event

HandlerJoins(h, ms) ==
  /\ \A n \in h.rows : Joins(n, RequestOf(n), h.began, ms, ms \cup (h.rows \ {n}))
  /\ h.pc \in {"create", "get", "update", "store"} =>
       Joins(Hand(h), RequestOf(Hand(h)), h.began, ms, ms \cup h.rows)

(* The messages stored are no younger than the last commit, and every      *)
(* event with one has its row.                                             *)
Dated ==
  \A m \in message : /\ m.stored <= commits /\ m.began <= commits
                     /\ m.event # None => event[m.event] # Absent

JoinInv ==
  /\ Dated
  /\ \A s \in Sessions : Rowed(handler[s], message) /\ HandlerJoins(handler[s], message)
  /\ ContinuationsJoin

-----------------------------------------------------------------------------
(* The kinds of steps there are, as the tables and the handlers see them.  *)

Kept == UNCHANGED <<env, source, event, message, outbox, commits>>
Quiet == Kept /\ handler' = handler
Gone(s) == Kept /\ handler' = [handler EXCEPT ![s] = Idle]
AllGone == Kept /\ handler' = [s \in Sessions |-> Idle]
CommitStep(s) ==
  /\ handler[s].pc = "commit" /\ Committed(s)
  /\ env' = env /\ handler' = [handler EXCEPT ![s] = Idle]

MoveTo(s, h) == Kept /\ handler' = [handler EXCEPT ![s] = h]

StartMove(s) ==
  \E e \in Stanzas :
    /\ handler[s].pc = "idle" /\ Verdict(e) = "store"
    /\ MoveTo(s, [Idle EXCEPT !.pc = "lookup", !.stanza = e, !.began = commits])
LookupMove(s) == handler[s].pc = "lookup" /\ MoveTo(s, [handler[s] EXCEPT !.pc = "source"])
InsertMove(s) ==
  /\ handler[s].pc = "source" /\ Free(s) /\ ~Known(handler[s].stanza)
  /\ MoveTo(s, [handler[s] EXCEPT !.pc = "segment", !.segment = 1])

(* The ways on from one request. *)
Ending(h) ==
  h.segment \notin DOMAIN Requests(h.stanza)
Skipping(h) == ~Ending(h) /\ ~Loadable(h.stanza, h.segment)
Taking(h) == ~Ending(h) /\ Loadable(h.stanza, h.segment)

EndMove(s) ==
  /\ handler[s].pc = "segment" /\ Ending(handler[s])
  /\ MoveTo(s, [handler[s] EXCEPT !.pc = "commit"])
SkipMove(s) ==
  /\ handler[s].pc = "segment" /\ Skipping(handler[s])
  /\ MoveTo(s, [handler[s] EXCEPT !.segment = @ + 1])
PlainMove(s) ==
  /\ handler[s].pc = "segment" /\ Taking(handler[s]) /\ Request(s).vtec = None
  /\ MoveTo(s, [handler[s] EXCEPT !.pc = "store", !.event = None])
SeekMove(s) ==
  /\ handler[s].pc = "segment" /\ Taking(handler[s])
  /\ Request(s).vtec # None /\ Request(s).vtec.begins = None
  /\ MoveTo(s, [handler[s] EXCEPT !.pc = "find"])
NameMove(s) ==
  /\ handler[s].pc = "segment" /\ Taking(handler[s])
  /\ Request(s).vtec # None /\ Request(s).vtec.begins # None
  /\ MoveTo(s, [handler[s] EXCEPT !.pc = "create",
                  !.event = KeyOf(Request(s).vtec, YearOf(Request(s).vtec.begins))])

MissMove(s) ==
  /\ handler[s].pc = "find" /\ Found(s, Request(s)) = {}
  /\ MoveTo(s, [handler[s] EXCEPT !.view = ViewOf(s), !.pc = "create",
                  !.event = KeyOf(Request(s).vtec, YearOf(Request(s).issued))])
HitMove(s) ==
  \E k \in Found(s, Request(s)) :
    /\ handler[s].pc = "find"
    /\ MoveTo(s, [handler[s] EXCEPT !.view = ViewOf(s), !.pc = "update", !.event = k,
                    !.fresh = NewRow(Request(s))])
NewMove(s) ==
  LET k == handler[s].event IN
    /\ handler[s].pc = "create" /\ Latest(s, k) = Absent
    /\ MoveTo(s, [handler[s] EXCEPT !.pc = "store",
                    !.own[k] = NewRow(Request(s))])
TwiceMove(s) ==
  /\ handler[s].pc = "create" /\ Latest(s, handler[s].event) # Absent
  /\ MoveTo(s, [handler[s] EXCEPT !.pc = "get",
                  !.shared = handler[s].shared \cup {handler[s].event}])
GetMove(s) ==
  LET row == Seen(s, ViewOf(s), handler[s].event) IN
    /\ handler[s].pc = "get" /\ row # Absent
    /\ MoveTo(s, [handler[s] EXCEPT !.pc = "update", !.fresh = row, !.view = ViewOf(s)])
UpdateMove(s) ==
  LET k == handler[s].event IN
    /\ handler[s].pc = "update"
    /\ MoveTo(s, [handler[s] EXCEPT !.pc = "store",
                    !.own[k] = UpdateLifecycle(Latest(s, k), handler[s].fresh)])

Written(s) ==
  LET h == handler[s]
  IN  [stanza |-> h.stanza, segment |-> h.segment, event |-> h.event,
       type |-> AlertTypeFromEvent(AlertEventCode(Request(s))), began |-> h.began, stored |-> 0]
StoreMove(s) ==
  /\ handler[s].pc = "store"
  /\ MoveTo(s, [handler[s] EXCEPT !.pc = "segment", !.segment = @ + 1, !.event = None,
                  !.fresh = Absent, !.rows = handler[s].rows \cup {Written(s)}])

SegmentMove(s) == EndMove(s) \/ SkipMove(s) \/ PlainMove(s) \/ SeekMove(s) \/ NameMove(s)
EventMove(s) ==
  MissMove(s) \/ HitMove(s) \/ NewMove(s) \/ TwiceMove(s) \/ GetMove(s) \/ UpdateMove(s)
HandlerMove(s) ==
  StartMove(s) \/ LookupMove(s) \/ InsertMove(s) \/ SegmentMove(s) \/ EventMove(s) \/ StoreMove(s)

LEMMA HandleCases ==
  ASSUME Shape, NEW s \in Sessions, Handle(s)
  PROVE  Quiet \/ Gone(s) \/ CommitStep(s) \/ HandlerMove(s)
  <1>0. handler[s] \in HandlerRec /\ handler \in [Sessions -> HandlerRec]
    BY DEF Shape
  <1>1. CASE Receive(s)
    <2>1. session[s].inbox \in Seq(Stanzas) /\ session[s].inbox # <<>>
      BY <1>1 DEF Receive, Shape
    <2>2. Head(session[s].inbox) \in Stanzas
      BY <2>1
    <2>3. CASE Verdict(Head(session[s].inbox)) = "store"
      <3>1. StartMove(s)
        BY <1>1, <2>2, <2>3 DEF Receive, StartMove, MoveTo, Kept, tables
      <3> QED
        BY <3>1 DEF HandlerMove
    <2>4. CASE Verdict(Head(session[s].inbox)) # "store"
      <3>1. Quiet
        BY <1>1, <2>4 DEF Receive, Quiet, Kept, tables
      <3> QED
        BY <3>1
    <2> QED
      BY <2>3, <2>4
  <1>2. CASE Lookup(s)
    <2>1. Gone(s) \/ LookupMove(s)
      BY <1>0, <1>2 DEF Lookup, Gone, LookupMove, MoveTo, Move, Ends, Kept, tables
    <2> QED
      BY <2>1 DEF HandlerMove
  <1>3. CASE InsertSource(s)
    <2>1. Gone(s) \/ InsertMove(s)
      BY <1>0, <1>3 DEF InsertSource, Gone, InsertMove, MoveTo, Ends, Kept, tables, HandlerRec
    <2> QED
      BY <2>1 DEF HandlerMove
  <1>4. CASE NextSegment(s)
    <2>1. Kept /\ handler[s].pc = "segment"
      BY <1>4 DEF NextSegment, Local, Kept, tables
    <2>2. SegmentMove(s)
      <3>1. CASE Ending(handler[s])
        <4>1. EndMove(s)
          BY <1>4, <2>1, <3>1 DEF NextSegment, EndMove, MoveTo, Ending
        <4> QED
          BY <4>1 DEF SegmentMove
      <3>2. CASE Skipping(handler[s])
        <4>1. SkipMove(s)
          BY <1>4, <2>1, <3>2 DEF NextSegment, SkipMove, MoveTo, Ending, Skipping
        <4> QED
          BY <4>1 DEF SegmentMove
      <3>3. CASE Taking(handler[s])
        <4>1. CASE Request(s).vtec = None
          <5>1. PlainMove(s)
            BY <1>4, <2>1, <3>3, <4>1 DEF NextSegment, PlainMove, MoveTo, Ending, Taking
          <5> QED
            BY <5>1 DEF SegmentMove
        <4>2. CASE Request(s).vtec # None /\ Request(s).vtec.begins = None
          <5>1. SeekMove(s)
            BY <1>4, <2>1, <3>3, <4>2 DEF NextSegment, SeekMove, MoveTo, Ending, Taking
          <5> QED
            BY <5>1 DEF SegmentMove
        <4>3. CASE Request(s).vtec # None /\ Request(s).vtec.begins # None
          <5>1. NameMove(s)
            BY <1>4, <2>1, <3>3, <4>3 DEF NextSegment, NameMove, MoveTo, Ending, Taking
          <5> QED
            BY <5>1 DEF SegmentMove
        <4> QED
          BY <4>1, <4>2, <4>3
      <3> QED
        BY <3>1, <3>2, <3>3 DEF Skipping, Taking
    <2> QED
      BY <2>2 DEF HandlerMove
  <1>5. CASE Find(s)
    <2>1. Kept /\ handler[s].pc = "find"
      BY <1>5 DEF Find, Local, Kept, tables
    <2> DEFINE h == [handler[s] EXCEPT !.view = ViewOf(s)]
    <2>2. CASE Found(s, Request(s)) = {}
      <3>1. handler' = [handler EXCEPT ![s] =
              [h EXCEPT !.pc = "create",
                        !.event = KeyOf(Request(s).vtec, YearOf(Request(s).issued))]]
        BY <1>5, <2>2 DEF Find
      <3>2. MissMove(s)
        BY <2>1, <2>2, <3>1 DEF MissMove, MoveTo
      <3> QED
        BY <3>2 DEF EventMove, HandlerMove
    <2>3. CASE Found(s, Request(s)) # {}
      <3> DEFINE found == Found(s, Request(s))
                 k == CHOOSE x \in found : TRUE
      <3>1. k \in found
        BY <2>3
      <3>2. handler' = [handler EXCEPT ![s] =
              [h EXCEPT !.pc = "update", !.event = k, !.fresh = NewRow(Request(s))]]
        BY <1>5, <2>3 DEF Find
      <3> HIDE DEF k
      <3>3. HitMove(s)
        BY <2>1, <3>1, <3>2 DEF HitMove, MoveTo
      <3> QED
        BY <3>3 DEF EventMove, HandlerMove
    <2> QED
      BY <2>2, <2>3
  <1>6. CASE Create(s)
    <2>1. NewMove(s) \/ TwiceMove(s)
      BY <1>6 DEF Create, NewMove, TwiceMove, MoveTo, Local, Kept, tables
    <2> QED
      BY <2>1 DEF EventMove, HandlerMove
  <1>7. CASE Get(s)
    <2>1. Gone(s) \/ GetMove(s)
      BY <1>0, <1>7 DEF Get, GetMove, Gone, MoveTo, RolledBack, Ends, Kept, tables, HandlerRec
    <2> QED
      BY <2>1 DEF EventMove, HandlerMove
  <1>8. CASE Update(s)
    <2>1. UpdateMove(s)
      BY <1>8 DEF Update, UpdateMove, MoveTo, Local, Kept, tables
    <2> QED
      BY <2>1 DEF EventMove, HandlerMove
  <1>9. CASE Store(s)
    <2>1. StoreMove(s)
      BY <1>9 DEF Store, StoreMove, Written, MoveTo, Local, Kept, tables
    <2> QED
      BY <2>1 DEF HandlerMove
  <1>10. CASE Commit(s)
    BY <1>10 DEF Commit, CommitStep, Ends
  <1>11. CASE BreakDeadlock(s)
    BY <1>11 DEF BreakDeadlock, RolledBack, Ends, Gone, Kept, tables
  <1> QED
    BY <1>1, <1>2, <1>3, <1>4, <1>5, <1>6, <1>7, <1>8, <1>9, <1>10, <1>11 DEF Handle

LEMMA NextCases ==
  ASSUME Shape, [Next]_vars
  PROVE  \/ Quiet
         \/ AllGone
         \/ \E s \in Sessions : Gone(s) \/ CommitStep(s) \/ HandlerMove(s)
  <1>1. CASE Send \/ UNCHANGED vars
    BY <1>1 DEF Send, vars, Quiet, Kept, tables
  <1>2. CASE Crash
    BY <1>2 DEF Crash, AllGone, Kept, tables
  <1>3. ASSUME NEW s \in Sessions, Join(s) \/ IdleTimeout(s) \/ Close(s)
        PROVE  Quiet
    BY <1>3 DEF Join, IdleTimeout, Close, Quiet, Kept, tables
  <1>4. ASSUME NEW s \in Sessions, StatementFails(s)
        PROVE  Gone(s) \/ CommitStep(s)
    BY <1>4 DEF StatementFails, RolledBack, Ends, Gone, CommitStep, Kept, tables
  <1>5. ASSUME NEW s \in Sessions, Handle(s)
        PROVE  Quiet \/ Gone(s) \/ CommitStep(s) \/ HandlerMove(s)
    BY <1>5, HandleCases
  <1> QED
    BY <1>1, <1>2, <1>3, <1>4, <1>5 DEF Next

-----------------------------------------------------------------------------
(* Types.                                                                  *)

(* The stanzas of a behaviour are read once. *)
LEMMA NextEnv ==
  ASSUME [Next]_vars
  PROVE  env' = env
  <1>1. ASSUME NEW s \in Sessions, Handle(s) PROVE env' = env
    BY <1>1 DEF Handle, Receive, Lookup, InsertSource, NextSegment, Find, Create, Get, Update,
                Store, Commit, BreakDeadlock, RolledBack, Local
  <1>2. ASSUME NEW s \in Sessions, Join(s) \/ IdleTimeout(s) \/ Close(s) \/ StatementFails(s)
        PROVE  env' = env
    BY <1>2 DEF Join, IdleTimeout, Close, StatementFails, RolledBack
  <1>3. CASE Send \/ Crash \/ UNCHANGED vars
    BY <1>3 DEF Send, Crash, vars
  <1> QED
    BY <1>1, <1>2, <1>3 DEF Next

LEMMA EnvStays ==
  ASSUME env' = env
  PROVE  /\ \A e : Requests(e)' = Requests(e)
         /\ \A e : Loadables(e)' = Loadables(e)
         /\ \A e : Verdict(e)' = Verdict(e)
         /\ \A m : RequestOf(m)' = RequestOf(m)
  BY DEF Requests, Loadables, Loadable, Verdict, Dropped, Text, RequestOf

LEMMA PlacedStays ==
  ASSUME env' = env
  PROVE  /\ \A r : RowGood(r) => RowGood(r)'
         /\ \A h, c : Placed(h, c) => Placed(h, c)'
  BY EnvStays DEF Placed, RowGood

LEMMA AtHand ==
  ASSUME Shape, NEW s \in Sessions
  PROVE  /\ handler[s] \in HandlerRec /\ Placed(handler[s], commits)
         /\ ViewOf(s) \in [Keys -> Row]
         /\ \A k \in Keys : Latest(s, k) \in Row /\ Seen(s, ViewOf(s), k) \in Row
  <1>1. handler[s] \in HandlerRec /\ Placed(handler[s], commits)
    BY DEF Shape
  <1>2. ViewOf(s) \in [Keys -> Row]
    BY <1>1 DEF ViewOf, HandlerRec, Shape
  <1>3. handler[s].own \in [Keys -> Row] /\ event \in [Keys -> Row]
    BY <1>1 DEF HandlerRec, Shape
  <1> QED
    BY <1>1, <1>2, <1>3 DEF Latest, Seen

LEMMA RequestGood ==
  ASSUME Shape, NEW e \in Stanzas, NEW i \in DOMAIN Requests(e)
  PROVE  /\ Requests(e)[i].vtec \in PrimaryVTEC(Etns) \cup {None}
         /\ Requests(e)[i].issued \in Nat
  BY DEF Shape, Read, Requests

LEMMA VTECGood ==
  ASSUME NEW v \in PrimaryVTEC(Etns)
  PROVE  /\ v.action \in Actions /\ v.begins \in Nat \cup {None} /\ v.ends \in Nat \cup {None}
         /\ \A y \in {1, 2} : KeyOf(v, y) \in Keys /\ KeyOf(v, y)[1] = v.etn /\ KeyOf(v, y)[2] = y
         /\ \A d : YearOf(d) \in {1, 2}
  BY DEF PrimaryVTEC, KeyOf, Keys, YearOf

LEMMA RowsGood ==
  ASSUME NEW r, r.vtec \in PrimaryVTEC(Etns), r.issued \in Nat
  PROVE  NewRow(r) \in Row
  BY VTECGood DEF NewRow, Row

LEMMA UpdateGood ==
  ASSUME NEW row \in Row, NEW fresh \in Row
  PROVE  UpdateLifecycle(row, fresh) \in Row
  BY DEF UpdateLifecycle, Row, Coalesce

LEMMA AbsentGood == Absent \in Row /\ NoRows \in [Keys -> Row]
  BY DEF Absent, NoRows, Row

(* A handler at a request that has an event. *)
LEMMA AtEvent ==
  ASSUME Shape, NEW s \in Sessions, handler[s].pc \in AtRequest, Request(s).vtec # None
  PROVE  /\ handler[s].stanza \in Stanzas
         /\ handler[s].segment \in DOMAIN Requests(handler[s].stanza)
         /\ Request(s).vtec \in PrimaryVTEC(Etns) /\ Request(s).issued \in Nat
         /\ NewRow(Request(s)) \in Row
         /\ Found(s, Request(s)) \subseteq Keys
  <1> DEFINE r == Request(s)
  <1>1. /\ handler[s].stanza \in Stanzas
        /\ handler[s].segment \in DOMAIN Requests(handler[s].stanza)
    BY AtHand DEF Placed, AtRequest, Loadables
  <1>2. r.vtec \in PrimaryVTEC(Etns) /\ r.issued \in Nat
    BY <1>1, RequestGood DEF Request
  <1>3. NewRow(r) \in Row
    BY <1>2, RowsGood
  <1>4. Found(s, r) \subseteq Keys
    <2>1. \A y \in {1, 2} : KeyOf(r.vtec, y) \in Keys
      BY <1>2, VTECGood
    <2> HIDE DEF r
    <2> QED
      BY <2>1 DEF Found
  <1> QED
    BY <1>1, <1>2, <1>3, <1>4

LEMMA MoveShape ==
  ASSUME Shape, NEW s \in Sessions, NEW h, h \in HandlerRec, Placed(h, commits), MoveTo(s, h)
  PROVE  /\ handler' \in [Sessions -> HandlerRec]
         /\ \A t \in Sessions : Placed(handler[t], commits)'
  <1>1. handler'[s] = h /\ \A t \in Sessions \ {s} : handler'[t] = handler[t]
    BY DEF Shape, MoveTo
  <1>2. handler' \in [Sessions -> HandlerRec]
    BY DEF Shape, MoveTo
  <1>3. env' = env /\ commits' = commits
    BY DEF MoveTo, Kept
  <1>4. ASSUME NEW t \in Sessions PROVE Placed(handler[t], commits)'
    <2>1. PICK g : g = handler'[t]
      OBVIOUS
    <2>2. Placed(g, commits)
      BY <1>1, <2>1 DEF Shape
    <2>3. PICK c : c = commits
      OBVIOUS
    <2>4. Placed(g, c)'
      BY <1>3, <2>2, <2>3, PlacedStays
    <2> QED
      BY <1>3, <2>1, <2>3, <2>4
  <1> QED
    BY <1>2, <1>4

(* The record a statement leaves its handler with. *)
LEMMA FirstRecords ==
  ASSUME Shape, NEW s \in Sessions, StartMove(s) \/ LookupMove(s) \/ InsertMove(s)
  PROVE  \E h \in HandlerRec : MoveTo(s, h) /\ Placed(h, commits)
  <1>0. handler[s] \in HandlerRec /\ Placed(handler[s], commits) /\ commits \in Nat
    BY AtHand DEF Shape
  <1>1. CASE StartMove(s)
    <2>1. PICK e \in Stanzas :
            /\ Verdict(e) = "store"
            /\ MoveTo(s, [Idle EXCEPT !.pc = "lookup", !.stanza = e, !.began = commits])
      BY <1>1 DEF StartMove
    <2> DEFINE h == [Idle EXCEPT !.pc = "lookup", !.stanza = e, !.began = commits]
    <2>2. h \in HandlerRec
      BY <1>0, AbsentGood DEF Idle, HandlerRec, Pc
    <2>3. /\ h.pc = "lookup" /\ h.stanza = e /\ h.began = commits /\ h.rows = {}
          /\ h.own = NoRows /\ h.view = None
      BY DEF Idle
    <2> HIDE DEF h
    <2>4. Placed(h, commits)
      BY <1>0, <2>1, <2>3 DEF Placed, InTx, AtRequest
    <2> QED
      BY <2>1, <2>2, <2>4 DEF h
  <1>2. CASE LookupMove(s)
    <2> DEFINE h == [handler[s] EXCEPT !.pc = "source"]
    <2>1. h \in HandlerRec
      BY <1>0 DEF HandlerRec, Pc
    <2>2. Placed(h, commits)
      BY <1>0, <1>2 DEF Placed, InTx, AtRequest, LookupMove, HandlerRec
    <2> QED
      BY <1>2, <2>1, <2>2 DEF LookupMove
  <1>3. CASE InsertMove(s)
    <2> DEFINE h == [handler[s] EXCEPT !.pc = "segment", !.segment = 1]
    <2>1. h \in HandlerRec
      BY <1>0 DEF HandlerRec, Pc
    <2>2. Placed(h, commits)
      BY <1>0, <1>3 DEF Placed, InTx, AtRequest, InsertMove, HandlerRec
    <2> QED
      BY <1>3, <2>1, <2>2 DEF InsertMove
  <1> QED
    BY <1>1, <1>2, <1>3

LEMMA LoopRecords ==
  ASSUME Shape, NEW s \in Sessions, SegmentMove(s)
  PROVE  \E h \in HandlerRec : MoveTo(s, h) /\ Placed(h, commits)
  <1> DEFINE g == handler[s]
             r == Request(s)
  <1>0. g \in HandlerRec /\ Placed(g, commits) /\ g.pc = "segment"
    BY AtHand DEF SegmentMove, EndMove, SkipMove, PlainMove, SeekMove, NameMove
  <1>1. g.stanza \in Stanzas /\ g.segment \in Nat /\ g.segment >= 1
    BY <1>0 DEF Placed, HandlerRec, InTx
  <1>2. Taking(g) => g.segment \in DOMAIN Requests(g.stanza) /\ g.segment \in Loadables(g.stanza)
    BY DEF Taking, Ending, Loadables
  <1>3. CASE EndMove(s)
    <2> DEFINE h == [g EXCEPT !.pc = "commit"]
    <2>1. h \in HandlerRec
      BY <1>0 DEF HandlerRec, Pc
    <2>2. Placed(h, commits)
      BY <1>0, <1>3 DEF Placed, InTx, AtRequest, EndMove, Ending, HandlerRec
    <2> QED
      BY <1>3, <2>1, <2>2 DEF EndMove
  <1>4. CASE SkipMove(s)
    <2> DEFINE h == [g EXCEPT !.segment = @ + 1]
    <2>1. h \in HandlerRec
      BY <1>0 DEF HandlerRec
    <2>2. Placed(h, commits)
      BY <1>0, <1>1 DEF Placed, InTx, AtRequest, HandlerRec
    <2> QED
      BY <1>4, <2>1, <2>2 DEF SkipMove
  <1>5. CASE PlainMove(s)
    <2> DEFINE h == [g EXCEPT !.pc = "store", !.event = None]
    <2>1. h \in HandlerRec
      BY <1>0 DEF HandlerRec, Pc
    <2>2. Placed(h, commits)
      BY <1>0, <1>2, <1>5 DEF Placed, InTx, AtRequest, HandlerRec, PlainMove
    <2> QED
      BY <1>5, <2>1, <2>2 DEF PlainMove
  <1>6. CASE SeekMove(s)
    <2> DEFINE h == [g EXCEPT !.pc = "find"]
    <2>1. h \in HandlerRec
      BY <1>0 DEF HandlerRec, Pc
    <2>2. Placed(h, commits)
      BY <1>0, <1>2, <1>6 DEF Placed, InTx, AtRequest, HandlerRec, SeekMove, Request
    <2> QED
      BY <1>6, <2>1, <2>2 DEF SeekMove
  <1>7. CASE NameMove(s)
    <2> DEFINE k == KeyOf(r.vtec, YearOf(r.vtec.begins))
               h == [g EXCEPT !.pc = "create", !.event = k]
    <2>1. k \in Keys
      <3>1. r.vtec \in PrimaryVTEC(Etns)
        BY <1>1, <1>2, <1>7, RequestGood DEF NameMove, Request
      <3> QED
        BY <3>1, VTECGood
    <2> HIDE DEF k
    <2>2. h \in HandlerRec
      BY <1>0, <2>1 DEF HandlerRec, Pc
    <2>3. Placed(h, commits)
      BY <1>0, <1>2, <1>7, <2>1 DEF Placed, InTx, AtRequest, HandlerRec, NameMove, Request
    <2> QED
      BY <1>7, <2>2, <2>3 DEF NameMove, k
  <1> QED
    BY <1>3, <1>4, <1>5, <1>6, <1>7 DEF SegmentMove

LEMMA EventRecords ==
  ASSUME Shape, NEW s \in Sessions, EventMove(s)
  PROVE  \E h \in HandlerRec : MoveTo(s, h) /\ Placed(h, commits)
  <1> DEFINE g == handler[s]
             r == Request(s)
  <1>0. g \in HandlerRec /\ Placed(g, commits) /\ ViewOf(s) \in [Keys -> Row]
    BY AtHand
  <1>1. g.pc \in {"find", "create", "get", "update"}
    BY DEF EventMove, MissMove, HitMove, NewMove, TwiceMove, GetMove, UpdateMove
  <1>2. g.segment \in Loadables(g.stanza) /\ Requests(g.stanza)[g.segment].vtec # None
    BY <1>0, <1>1 DEF Placed, AtRequest
  <1>3. /\ r.vtec \in PrimaryVTEC(Etns) /\ r.issued \in Nat
        /\ NewRow(r) \in Row /\ Found(s, r) \subseteq Keys
    BY <1>1, <1>2, AtEvent DEF AtRequest, Request
  <1>4. g.own \in [Keys -> Row] /\ g.rows \subseteq MessageRec /\ g.shared \subseteq Keys
    BY <1>0 DEF HandlerRec
  <1>5. g.pc # "find" => g.event \in Keys
    BY <1>0, <1>1 DEF Placed
  <1>6. CASE MissMove(s)
    <2> DEFINE k == KeyOf(r.vtec, YearOf(r.issued))
               h == [g EXCEPT !.view = ViewOf(s), !.pc = "create", !.event = k]
    <2>1. k \in Keys
      BY <1>3, VTECGood
    <2> HIDE DEF k
    <2>2. h \in HandlerRec
      BY <1>0, <2>1 DEF HandlerRec, Pc
    <2>3. Placed(h, commits)
      BY <1>0, <1>2, <1>6, <2>1 DEF Placed, InTx, AtRequest, HandlerRec, MissMove
    <2> QED
      BY <1>6, <2>2, <2>3 DEF MissMove, k
  <1>7. CASE HitMove(s)
    <2>1. PICK k \in Found(s, r) :
            /\ g.pc = "find"
            /\ MoveTo(s, [g EXCEPT !.view = ViewOf(s), !.pc = "update", !.event = k,
                                   !.fresh = NewRow(r)])
      BY <1>7 DEF HitMove
    <2> DEFINE h == [g EXCEPT !.view = ViewOf(s), !.pc = "update", !.event = k,
                              !.fresh = NewRow(r)]
    <2>2. k \in Keys
      BY <1>3
    <2>3. h \in HandlerRec
      BY <1>0, <1>3, <2>2 DEF HandlerRec, Pc
    <2>4. Placed(h, commits)
      BY <1>0, <1>2, <2>1, <2>2 DEF Placed, InTx, AtRequest, HandlerRec
    <2> QED
      BY <2>1, <2>3, <2>4
  <1>8. CASE NewMove(s)
    <2> DEFINE k == g.event
               h == [g EXCEPT !.pc = "store", !.own[k] = NewRow(r)]
    <2>1. h \in HandlerRec
      BY <1>0, <1>3, <1>4 DEF HandlerRec, Pc
    <2>2. Placed(h, commits)
      BY <1>0, <1>2, <1>8 DEF Placed, InTx, AtRequest, HandlerRec, NewMove
    <2> QED
      BY <1>8, <2>1, <2>2 DEF NewMove
  <1>9. CASE TwiceMove(s)
    <2> DEFINE h == [g EXCEPT !.pc = "get", !.shared = g.shared \cup {g.event}]
    <2>1. g.event \in Keys
      BY <1>5, <1>9 DEF TwiceMove
    <2>2. h \in HandlerRec
      BY <1>0, <1>4, <2>1 DEF HandlerRec, Pc
    <2>3. Placed(h, commits)
      BY <1>0, <1>2, <1>9, <2>1 DEF Placed, InTx, AtRequest, HandlerRec, TwiceMove
    <2> QED
      BY <1>9, <2>2, <2>3 DEF TwiceMove
  <1>10. CASE GetMove(s)
    <2> DEFINE row == Seen(s, ViewOf(s), g.event)
               h == [g EXCEPT !.pc = "update", !.fresh = row, !.view = ViewOf(s)]
    <2>1. g.event \in Keys /\ row \in Row
      BY <1>5, <1>10, AtHand DEF GetMove
    <2> HIDE DEF row
    <2>2. h \in HandlerRec
      BY <1>0, <2>1 DEF HandlerRec, Pc
    <2>3. Placed(h, commits)
      BY <1>0, <1>2, <1>10, <2>1 DEF Placed, InTx, AtRequest, HandlerRec, GetMove
    <2> QED
      BY <1>10, <2>2, <2>3 DEF GetMove, row
  <1>11. CASE UpdateMove(s)
    <2> DEFINE k == g.event
               new == UpdateLifecycle(Latest(s, k), g.fresh)
               h == [g EXCEPT !.pc = "store", !.own[k] = new]
    <2>1. new \in Row
      <3>1. Latest(s, k) \in Row /\ g.fresh \in Row
        BY <1>0, <1>5, <1>11, AtHand DEF UpdateMove, HandlerRec
      <3> QED
        BY <3>1, UpdateGood
    <2> HIDE DEF new
    <2>2. h \in HandlerRec
      BY <1>0, <1>4, <2>1 DEF HandlerRec, Pc
    <2>3. Placed(h, commits)
      BY <1>0, <1>2, <1>11 DEF Placed, InTx, AtRequest, HandlerRec, UpdateMove
    <2> QED
      BY <1>11, <2>2, <2>3 DEF UpdateMove, new
  <1> QED
    BY <1>6, <1>7, <1>8, <1>9, <1>10, <1>11 DEF EventMove

LEMMA WrittenGood ==
  ASSUME Shape, NEW s \in Sessions, handler[s].pc = "store"
  PROVE  Written(s) \in MessageRec /\ RowGood(Written(s))
  <1> DEFINE g == handler[s]
  <1>1. g \in HandlerRec /\ Placed(g, commits)
    BY AtHand
  <1>2. /\ g.stanza \in Stanzas /\ g.segment \in Loadables(g.stanza) /\ g.segment \in Nat
        /\ g.event # None => Requests(g.stanza)[g.segment].vtec # None
        /\ g.event \in Keys \cup {None} /\ g.began \in Nat
    BY <1>1 DEF Placed, HandlerRec, AtRequest
  <1>3. \A code : AlertTypeFromEvent(code) \in AlertTypes
    BY DEF AlertTypeFromEvent, AlertTypes
  <1>4. Written(s) \in MessageRec
    BY <1>2, <1>3 DEF Written, MessageRec
  <1>5. RowGood(Written(s))
    BY <1>2 DEF Written, RowGood, Loadables
  <1> QED
    BY <1>4, <1>5

LEMMA StoreRecord ==
  ASSUME Shape, NEW s \in Sessions, StoreMove(s)
  PROVE  \E h \in HandlerRec : MoveTo(s, h) /\ Placed(h, commits)
  <1> DEFINE g == handler[s]
             rows == g.rows \cup {Written(s)}
             h == [g EXCEPT !.pc = "segment", !.segment = @ + 1, !.event = None,
                            !.fresh = Absent, !.rows = rows]
  <1>1. g \in HandlerRec /\ Placed(g, commits) /\ g.pc = "store"
    BY AtHand DEF StoreMove
  <1>2. Written(s) \in MessageRec /\ RowGood(Written(s))
    BY <1>1, WrittenGood
  <1>3. rows \subseteq MessageRec /\ \A r \in rows : RowGood(r)
    BY <1>1, <1>2 DEF Placed, HandlerRec
  <1> HIDE DEF rows
  <1>4. h \in HandlerRec
    <2>1. rows \in SUBSET MessageRec /\ Absent \in Row /\ None \in Keys \cup {None}
      BY <1>3, AbsentGood
    <2>2. g.segment + 1 \in Nat
      BY <1>1 DEF HandlerRec
    <2> QED
      BY <1>1, <2>1, <2>2 DEF HandlerRec, Pc
  <1>5. Placed(h, commits)
    BY <1>1, <1>3 DEF Placed, InTx, AtRequest, HandlerRec
  <1> QED
    BY <1>4, <1>5 DEF StoreMove, rows

LEMMA MoveRecords ==
  ASSUME Shape, NEW s \in Sessions, HandlerMove(s)
  PROVE  \E h \in HandlerRec : MoveTo(s, h) /\ Placed(h, commits)
  BY FirstRecords, LoopRecords, EventRecords, StoreRecord DEF HandlerMove

LEMMA EndsType ==
  ASSUME Shape, NEW s \in Sessions, NEW f \in Fate, Ends(s, f)
  PROVE  fate' \in [Sessions \X Stanzas -> Fate]
  BY DEF Shape, Ends

LEMMA VerdictIn ==
  ASSUME NEW e
  PROVE  Verdict(e) \in {"dropped", "ignored", "invalid", "store"}
  BY DEF Verdict

(* The sessions, which the tables do not depend on. *)
Outer ==
  /\ sent \in 0 .. Cardinality(Stanzas)
  /\ session \in [Sessions -> [state : SessionState, inbox : Seq(Stanzas)]]
  /\ fate \in [Sessions \X Stanzas -> Fate]
  /\ faults \in 0 .. MaxFaults

LEMMA HandleOuter ==
  ASSUME Shape, NEW s \in Sessions, Handle(s)
  PROVE  Outer'
  <1>0. Outer /\ \A f \in Fate : Ends(s, f) => fate' \in [Sessions \X Stanzas -> Fate]
    BY EndsType DEF Shape, Outer
  <1>1. CASE Receive(s)
    <2> DEFINE e == Head(session[s].inbox)
    <2>1. session[s] \in [state : SessionState, inbox : Seq(Stanzas)] /\ session[s].inbox # <<>>
      BY <1>0, <1>1 DEF Receive, Outer
    <2>2. Tail(session[s].inbox) \in Seq(Stanzas)
      BY <2>1
    <2>3. session' = [session EXCEPT ![s].inbox = Tail(session[s].inbox)]
      BY <1>1 DEF Receive
    <2>4. session' \in [Sessions -> [state : SessionState, inbox : Seq(Stanzas)]]
      BY <1>0, <2>1, <2>2, <2>3 DEF Outer
    <2>5. fate' \in [Sessions \X Stanzas -> Fate]
      <3>1. \/ fate' = fate
            \/ Verdict(e) # "store" /\ fate' = [fate EXCEPT ![<<s, e>>] = Verdict(e)]
        BY <1>1 DEF Receive
      <3>2. Verdict(e) # "store" => Verdict(e) \in Fate
        BY VerdictIn DEF Fate
      <3> QED
        BY <1>0, <3>1, <3>2 DEF Outer
    <2> QED
      BY <1>0, <1>1, <2>4, <2>5 DEF Receive, Outer
  <1>2. CASE Lookup(s) \/ InsertSource(s)
    BY <1>0, <1>2 DEF Lookup, InsertSource, Outer, Fate
  <1>3. CASE NextSegment(s) \/ Find(s) \/ Create(s) \/ Update(s) \/ Store(s)
    BY <1>0, <1>3 DEF NextSegment, Find, Create, Update, Store, Local, Outer
  <1>4. CASE Get(s) \/ BreakDeadlock(s)
    BY <1>0, <1>4 DEF Get, BreakDeadlock, RolledBack, Outer, Fate
  <1>5. CASE Commit(s)
    BY <1>0, <1>5 DEF Commit, Outer, Fate
  <1> QED
    BY <1>1, <1>2, <1>3, <1>4, <1>5 DEF Handle

LEMMA NextOuter ==
  ASSUME Shape, [Next]_vars
  PROVE  Outer'
  <1>0. Outer
    BY DEF Shape, Outer
  <1>1. CASE UNCHANGED vars
    BY <1>0, <1>1 DEF vars, Outer
  <1>2. CASE Send
    <2>1. sent' \in 0 .. Cardinality(Stanzas)
      <3>1. sent + 1 \in 1 .. Cardinality(Stanzas) /\ sent' = sent + 1
        BY <1>2, IngestAssumption DEF Send
      <3>2. sent \in Nat
        BY <1>0 DEF Outer
      <3> QED
        BY <3>1, <3>2
    <2>2. session' \in [Sessions -> [state : SessionState, inbox : Seq(Stanzas)]]
      <3>1. ASSUME NEW s \in Sessions
            PROVE  [session[s] EXCEPT !.inbox = Append(session[s].inbox, sent + 1)] \in
                     [state : SessionState, inbox : Seq(Stanzas)]
        <4>1. session[s] \in [state : SessionState, inbox : Seq(Stanzas)] /\ sent + 1 \in Stanzas
          BY <1>0, <1>2 DEF Send, Outer
        <4>2. Append(session[s].inbox, sent + 1) \in Seq(Stanzas)
          BY <4>1
        <4> QED
          BY <4>1, <4>2
      <3>2. session' = [s \in Sessions |->
              IF Listening(s)
              THEN [session[s] EXCEPT !.inbox = Append(session[s].inbox, sent + 1)]
              ELSE session[s]]
        BY <1>2 DEF Send
      <3> QED
        BY <1>0, <3>1, <3>2 DEF Outer
    <2> QED
      BY <1>0, <1>2, <2>1, <2>2 DEF Send, Outer
  <1>3. CASE Crash
    <2>1. <<>> \in Seq(Stanzas)
      OBVIOUS
    <2>2. session' \in [Sessions -> [state : SessionState, inbox : Seq(Stanzas)]]
      BY <1>0, <1>3, <2>1 DEF Crash, Outer, SessionState
    <2>3. fate' \in [Sessions \X Stanzas -> Fate]
      BY <1>0, <1>3 DEF Crash, Outer, Fate
    <2>4. faults' \in 0 .. MaxFaults
      BY <1>0, <1>3, IngestAssumption DEF Crash, Fault, Outer
    <2> QED
      BY <1>0, <1>3, <2>2, <2>3, <2>4 DEF Crash, Outer
  <1>4. ASSUME NEW s \in Sessions, Join(s) \/ IdleTimeout(s) \/ Close(s)
        PROVE  Outer'
    <2>1. <<>> \in Seq(Stanzas)
      OBVIOUS
    <2>2. session' \in [Sessions -> [state : SessionState, inbox : Seq(Stanzas)]]
      <3>1. \/ session' = [session EXCEPT ![s].state = "open"]
            \/ session' = [session EXCEPT ![s].state = "left"]
            \/ session' = [session EXCEPT ![s] = [state |-> "closed", inbox |-> <<>>]]
        BY <1>4 DEF Join, IdleTimeout, Close
      <3> DEFINE open == [session[s] EXCEPT !.state = "open"]
                 left == [session[s] EXCEPT !.state = "left"]
                 closed == [state |-> "closed", inbox |-> <<>>]
      <3>2. /\ session[s] \in [state : SessionState, inbox : Seq(Stanzas)]
            /\ session \in [Sessions -> [state : SessionState, inbox : Seq(Stanzas)]]
        BY <1>0 DEF Outer
      <3>3. {open, left, closed} \subseteq [state : SessionState, inbox : Seq(Stanzas)]
        BY <2>1, <3>2 DEF SessionState
      <3>4. \E x \in {open, left, closed} : session' = [session EXCEPT ![s] = x]
        BY <3>1
      <3> HIDE DEF open, left, closed
      <3> QED
        BY <3>2, <3>3, <3>4
    <2> QED
      BY <1>0, <1>4, <2>2 DEF Join, IdleTimeout, Close, Outer
  <1>5. ASSUME NEW s \in Sessions, StatementFails(s)
        PROVE  Outer'
    <2>1. "failed" \in Fate
      BY DEF Fate
    <2>2. Ends(s, "failed") /\ UNCHANGED <<sent, session>>
      BY <1>5 DEF StatementFails, RolledBack
    <2>3. fate' \in [Sessions \X Stanzas -> Fate]
      BY <2>1, <2>2, EndsType
    <2>4. faults' \in 0 .. MaxFaults
      BY <1>0, <1>5, IngestAssumption DEF StatementFails, Fault, Outer
    <2> QED
      BY <1>0, <2>2, <2>3, <2>4 DEF Outer
  <1>6. ASSUME NEW s \in Sessions, Handle(s)
        PROVE  Outer'
    BY <1>6, HandleOuter
  <1> QED
    BY <1>1, <1>2, <1>3, <1>4, <1>5, <1>6 DEF Next

(* What the tables and the handlers have of their types. *)
Inner ==
  /\ \A e \in Stanzas : Read(env[e])
  /\ handler \in [Sessions -> HandlerRec]
  /\ source \in [Stanzas -> {"none", "parsed", "ignored"}]
  /\ event \in [Keys -> Row]
  /\ message \subseteq MessageRec
  /\ commits \in Nat
  /\ \A r \in message : RowGood(r)
  /\ \A s \in Sessions : Placed(handler[s], commits)

LEMMA IdleGood ==
  Idle \in HandlerRec /\ \A c \in Nat : Placed(Idle, c)
  BY AbsentGood DEF Idle, HandlerRec, Placed, InTx, AtRequest, Pc

(* Handlers that go on as they were or with nothing in hand. *)
LEMMA HandlersStay ==
  ASSUME Shape, env' = env, commits' \in Nat, commits' >= commits,
         DOMAIN handler' = Sessions, handler' = [s \in Sessions |-> handler'[s]],
         \A s \in Sessions : handler'[s] = handler[s] \/ handler'[s] = Idle
  PROVE  /\ handler' \in [Sessions -> HandlerRec]
         /\ \A s \in Sessions : Placed(handler[s], commits)'
  <1>1. \A s \in Sessions : handler'[s] \in HandlerRec
    BY IdleGood DEF Shape
  <1>2. ASSUME NEW s \in Sessions PROVE Placed(handler[s], commits)'
    <2>1. PICK g : g = handler'[s]
      OBVIOUS
    <2>2. PICK c : c = commits'
      OBVIOUS
    <2>3. Placed(g, c)
      <3>1. CASE g = Idle
        BY <2>2, <3>1, IdleGood
      <3>2. CASE g = handler[s]
        <4>1. Placed(g, commits) /\ g \in HandlerRec /\ commits \in Nat
          BY <3>2 DEF Shape
        <4> QED
          BY <2>2, <4>1 DEF Placed, HandlerRec
      <3> QED
        BY <2>1, <3>1, <3>2
    <2>4. Placed(g, c)'
      BY <2>3, PlacedStays
    <2> QED
      BY <2>1, <2>2, <2>4
  <1> QED
    BY <1>1, <1>2

LEMMA KeptInner ==
  ASSUME Shape, Kept, handler' \in [Sessions -> HandlerRec],
         \A s \in Sessions : Placed(handler[s], commits)'
  PROVE  Inner'
  <1>1. \A r \in message : RowGood(r)'
    BY PlacedStays DEF Shape, Kept
  <1> QED
    BY <1>1 DEF Shape, Inner, Kept

LEMMA CommitInner ==
  ASSUME Shape, NEW s \in Sessions, CommitStep(s)
  PROVE  Inner'
  <1> DEFINE h == handler[s]
  <1>0. /\ h \in HandlerRec /\ Placed(h, commits) /\ commits \in Nat /\ h.pc = "commit"
        /\ \A k \in Keys : Latest(s, k) \in Row
    BY AtHand DEF Shape, CommitStep
  <1>1. env' = env /\ commits' = commits + 1 /\ handler' = [handler EXCEPT ![s] = Idle]
    BY DEF CommitStep, Committed
  <1>2. /\ handler' \in [Sessions -> HandlerRec]
        /\ \A t \in Sessions : Placed(handler[t], commits)'
    <2>1. \A t \in Sessions : handler'[t] = handler[t] \/ handler'[t] = Idle
      BY <1>1 DEF Shape
    <2>2. DOMAIN handler' = Sessions /\ handler' = [t \in Sessions |-> handler'[t]]
      BY <1>1 DEF Shape
    <2>3. commits' \in Nat /\ commits' >= commits
      BY <1>0, <1>1
    <2> QED
      BY <1>1, <2>1, <2>2, <2>3, HandlersStay
  <1>3. source' \in [Stanzas -> {"none", "parsed", "ignored"}]
    BY DEF CommitStep, Committed, StatusOf, Shape
  <1>4. event' \in [Keys -> Row]
    BY <1>0 DEF CommitStep, Committed
  <1>5. ASSUME NEW m \in message' PROVE m \in MessageRec /\ RowGood(m)
    <2>1. CASE m \in message
      BY <2>1 DEF Shape
    <2>2. CASE m \notin message
      <3>1. PICK row \in h.rows : m = [row EXCEPT !.stored = commits + 1]
        BY <2>2 DEF CommitStep, Committed
      <3>2. row \in MessageRec /\ RowGood(row) /\ commits + 1 \in Nat
        BY <1>0 DEF HandlerRec, Placed
      <3> QED
        BY <3>1, <3>2 DEF MessageRec, RowGood
    <2> QED
      BY <2>1, <2>2
  <1>6. \A m \in message' : RowGood(m)'
    BY <1>1, <1>5, PlacedStays
  <1> QED
    BY <1>0, <1>1, <1>2, <1>3, <1>4, <1>5, <1>6 DEF Inner, Shape

LEMMA ShapeInit == ASSUME Init PROVE Shape
  <1>1. PICK p \in Programmes : env = [e \in Stanzas |-> Received(Envelopes[p[e]])]
    BY DEF Init
  <1>2. \A e \in Stanzas : Read(env[e])
    <2>1. ASSUME NEW e \in Stanzas PROVE p[e] \in DOMAIN Envelopes
      BY IngestAssumption
    <2> QED
      BY <1>1, <2>1, ReceivedGood
  <1>3. handler \in [Sessions -> HandlerRec] /\ \A s \in Sessions : Placed(handler[s], commits)
    BY IdleGood DEF Init
  <1>4. session \in [Sessions -> [state : SessionState, inbox : Seq(Stanzas)]]
    BY DEF Init, SessionState
  <1>5. 0 \in 0 .. Cardinality(Stanzas)
    BY IngestAssumption, FS_CardinalityType
  <1> QED
    BY <1>2, <1>3, <1>4, <1>5, AbsentGood, IngestAssumption DEF Init, Shape, Fate

LEMMA ShapeNext == ASSUME Shape, [Next]_vars PROVE Shape'
  <1>1. Outer'
    BY NextOuter
  <1>2. CASE Quiet \/ AllGone \/ \E s \in Sessions : Gone(s)
    <2>1. Kept /\ env' = env /\ commits' = commits /\ commits \in Nat
      BY <1>2 DEF Quiet, AllGone, Gone, Kept, Shape
    <2>2. /\ DOMAIN handler' = Sessions /\ handler' = [s \in Sessions |-> handler'[s]]
          /\ \A s \in Sessions : handler'[s] = handler[s] \/ handler'[s] = Idle
      BY <1>2 DEF Quiet, AllGone, Gone, Shape
    <2>3. commits' \in Nat /\ commits' >= commits
      BY <2>1
    <2>4. /\ handler' \in [Sessions -> HandlerRec]
          /\ \A s \in Sessions : Placed(handler[s], commits)'
      BY <2>1, <2>2, <2>3, HandlersStay
    <2>5. Inner'
      BY <2>1, <2>4, KeptInner
    <2> QED
      BY <1>1, <2>5 DEF Shape, Inner, Outer
  <1>3. ASSUME NEW s \in Sessions, CommitStep(s) PROVE Shape'
    BY <1>1, <1>3, CommitInner DEF Shape, Inner, Outer
  <1>4. ASSUME NEW s \in Sessions, HandlerMove(s) PROVE Shape'
    <2>1. PICK h \in HandlerRec : MoveTo(s, h) /\ Placed(h, commits)
      BY <1>4, MoveRecords
    <2>2. Inner'
      BY <2>1, MoveShape, KeptInner DEF MoveTo
    <2> QED
      BY <1>1, <2>2 DEF Shape, Inner, Outer
  <1> QED
    BY <1>2, <1>3, <1>4, NextCases

LEMMA ShapeTypes == ASSUME Shape PROVE TypeOK
  <1>1. ASSUME NEW r \in MessageRec, RowGood(r) PROVE MessageRow(r)
    BY <1>1 DEF MessageRow, MessageRec, RowGood
  <1>2. ASSUME NEW s \in Sessions
        PROVE  /\ session[s].state \in SessionState
               /\ session[s].inbox \in Seq(Stanzas)
               /\ handler[s].pc \in Pc
               /\ handler[s].stanza \in Stanzas \cup {None}
               /\ handler[s].event \in Keys \cup {None}
               /\ handler[s].shared \subseteq Keys
               /\ handler[s].own \in [Keys -> Row]
               /\ \A r \in handler[s].rows : MessageRow(r)
    <2>1. handler[s] \in HandlerRec /\ Placed(handler[s], commits)
      BY AtHand
    <2>2. \A r \in handler[s].rows : MessageRow(r)
      BY <1>1, <2>1 DEF HandlerRec, Placed
    <2> QED
      BY <2>1, <2>2 DEF HandlerRec, Shape
  <1>3. \A r \in message : MessageRow(r)
    BY <1>1 DEF Shape
  <1> QED
    BY <1>2, <1>3 DEF TypeOK, Shape, Read

(* Sessions, transactions and tables keep their types, whatever the room   *)
(* sends and however the sessions of ProcessEnvelope overlap.              *)
THEOREM IngestTypeCorrect == Spec => []TypeOK
  <1>1. Shape /\ [Next]_vars => Shape'
    BY ShapeNext
  <1>2. Spec => []Shape
    BY <1>1, ShapeInit, PTL DEF Spec
  <1> QED
    BY <1>2, ShapeTypes, PTL

LEMMA ShapeInvariance == Spec => []Shape
  <1>1. Shape /\ [Next]_vars => Shape'
    BY ShapeNext
  <1> QED
    BY <1>1, ShapeInit, PTL DEF Spec

-----------------------------------------------------------------------------
(* A stanza is stored whole.                                               *)

LEMMA UnderwayStays ==
  ASSUME env' = env
  PROVE  \A h, src : Underway(h, src) => Underway(h, src)'
  BY EnvStays DEF Underway

LEMMA StoreVerdict ==
  ASSUME Shape, NEW e \in Stanzas, Verdict(e) = "store", NEW i \in Loadables(e)
  PROVE  Valid(Requests(e)[i])
  <1>1. i \in DOMAIN Requests(e)
    BY DEF Loadables
  <1>2. ~Blank(Text(e))
    BY <1>1 DEF Shape, Read, Requests, Text
  <1> QED
    BY <1>2 DEF Verdict

Alone ==
  \A s \in Sessions : \A t \in Sessions :
    /\ handler[s].pc \in InTx /\ handler[t].pc \in InTx
    /\ handler[s].stanza = handler[t].stanza
    => s = t

LEMMA KeptWhole ==
  ASSUME WholeInv, Shape, Kept
  PROVE  StoredWhole'
  <1>1. env' = env /\ source' = source /\ message' = message /\ outbox' = outbox
    BY DEF Kept
  <1>2. /\ \A e \in Stanzas : Loadables(e)' = Loadables(e)
        /\ \A m : RequestOf(m)' = RequestOf(m)
        /\ \A e : RowsOf(e)' = RowsOf(e)
    BY <1>1, EnvStays DEF RowsOf
  <1> QED
    BY <1>1, <1>2 DEF WholeInv, StoredWhole

(* A handler that moved is underway alone; the others did not move. *)
LEMMA MoveWhole ==
  ASSUME Shape, WholeInv, Kept, NEW s \in Sessions,
         \A t \in Sessions \ {s} : handler'[t] = handler[t],
         NEW h, h = handler'[s], Underway(h, source),
         h.pc \in InTx => \A t \in Sessions \ {s} :
                            handler[t].pc \in InTx => handler[t].stanza # h.stanza
  PROVE  WholeInv'
  <1>1. StoredWhole'
    BY KeptWhole
  <1>2. ASSUME NEW t \in Sessions PROVE Underway(handler[t], source)'
    <2>1. PICK g : g = handler'[t]
      OBVIOUS
    <2>2. PICK src : src = source
      OBVIOUS
    <2>3. Underway(g, src)
      BY <2>1, <2>2 DEF WholeInv
    <2>4. Underway(g, src)'
      BY <2>3, UnderwayStays DEF Kept
    <2>5. src = source'
      BY <2>2 DEF Kept
    <2> QED
      BY <2>1, <2>4, <2>5
  <1>3. Alone'
    BY DEF WholeInv, Alone
  <1> QED
    BY <1>1, <1>2, <1>3 DEF WholeInv, Alone

LEMMA GoneWhole ==
  ASSUME Shape, WholeInv, Kept, \A s \in Sessions : handler'[s] = handler[s] \/ handler'[s] = Idle
  PROVE  WholeInv'
  <1>1. StoredWhole'
    BY KeptWhole
  <1>2. Idle.pc \notin InTx
    BY DEF Idle, InTx, AtRequest
  <1>3. ASSUME NEW t \in Sessions PROVE Underway(handler[t], source)'
    <2>1. PICK g : g = handler'[t]
      OBVIOUS
    <2>2. PICK src : src = source
      OBVIOUS
    <2>3. Underway(g, src)
      BY <1>2, <2>1, <2>2 DEF WholeInv, Underway
    <2>4. Underway(g, src)'
      BY <2>3, UnderwayStays DEF Kept
    <2>5. src = source'
      BY <2>2 DEF Kept
    <2> QED
      BY <2>1, <2>4, <2>5
  <1>4. Alone'
    BY <1>2 DEF WholeInv, Alone
  <1> QED
    BY <1>1, <1>3, <1>4 DEF WholeInv, Alone

(* A statement that stays at its request, or goes to or from one, changes  *)
(* nothing that was done.                                                  *)
Along(g, h) ==
  /\ g.pc \in InTx /\ h.pc \in InTx
  /\ h.stanza = g.stanza /\ h.segment = g.segment /\ h.rows = g.rows /\ h.began = g.began

LEMMA Arrives ==
  ASSUME Shape, NEW s \in Sessions, NEW h, MoveTo(s, h)
  PROVE  handler'[s] = h
  BY DEF Shape, MoveTo

LEMMA SegmentFields ==
  ASSUME Shape, NEW s \in Sessions, SegmentMove(s), ~SkipMove(s)
  PROVE  /\ Along(handler[s], handler'[s]) /\ handler[s].pc = "segment"
         /\ handler'[s].own = handler[s].own /\ handler'[s].view = handler[s].view
         /\ \/ handler'[s].pc = "commit"
            \/ handler'[s].pc = "store" /\ handler'[s].event = None
            \/ handler'[s].pc = "find"
            \/ /\ handler'[s].pc = "create" /\ Taking(handler[s])
               /\ Request(s).vtec # None /\ Request(s).vtec.begins # None
               /\ handler'[s].event = KeyOf(Request(s).vtec, YearOf(Request(s).vtec.begins))
  <1> DEFINE g == handler[s]
  <1>0. g \in HandlerRec
    BY DEF Shape
  <1>1. CASE EndMove(s)
    <2>1. handler'[s] = [g EXCEPT !.pc = "commit"] /\ g.pc = "segment"
      BY <1>1, Arrives DEF EndMove
    <2> HIDE DEF g
    <2> QED
      BY <1>0, <2>1 DEF Along, HandlerRec, InTx, g
  <1>2. CASE PlainMove(s)
    <2>1. handler'[s] = [g EXCEPT !.pc = "store", !.event = None] /\ g.pc = "segment"
      BY <1>2, Arrives DEF PlainMove
    <2> HIDE DEF g
    <2> QED
      BY <1>0, <2>1 DEF Along, HandlerRec, InTx, AtRequest, g
  <1>3. CASE SeekMove(s)
    <2>1. handler'[s] = [g EXCEPT !.pc = "find"] /\ g.pc = "segment"
      BY <1>3, Arrives DEF SeekMove
    <2> HIDE DEF g
    <2> QED
      BY <1>0, <2>1 DEF Along, HandlerRec, InTx, AtRequest, g
  <1>4. CASE NameMove(s)
    <2> DEFINE k == KeyOf(Request(s).vtec, YearOf(Request(s).vtec.begins))
    <2>1. /\ handler'[s] = [g EXCEPT !.pc = "create", !.event = k] /\ g.pc = "segment"
          /\ Taking(g) /\ Request(s).vtec # None /\ Request(s).vtec.begins # None
      BY <1>4, Arrives DEF NameMove
    <2> HIDE DEF g, k
    <2>2. Along(g, handler'[s])
      BY <1>0, <2>1 DEF Along, HandlerRec, InTx, AtRequest
    <2>3. /\ handler'[s].own = g.own /\ handler'[s].view = g.view
          /\ handler'[s].pc = "create" /\ handler'[s].event = k
      BY <1>0, <2>1 DEF HandlerRec
    <2> QED
      BY <2>1, <2>2, <2>3 DEF g, k
  <1> QED
    BY <1>1, <1>2, <1>3, <1>4 DEF SegmentMove

LEMMA MissFields ==
  ASSUME Shape, NEW s \in Sessions, MissMove(s)
  PROVE  /\ Along(handler[s], handler'[s]) /\ handler[s].pc = "find"
         /\ handler'[s].pc = "create" /\ handler'[s].own = handler[s].own
         /\ handler'[s].view = ViewOf(s)
         /\ handler'[s].event = KeyOf(Request(s).vtec, YearOf(Request(s).issued))
  <1> DEFINE g == handler[s]
             k == KeyOf(Request(s).vtec, YearOf(Request(s).issued))
             v == ViewOf(s)
  <1>1. g \in HandlerRec /\ g.pc = "find"
        /\ handler'[s] = [g EXCEPT !.view = v, !.pc = "create", !.event = k]
    BY Arrives DEF Shape, MissMove
  <1> HIDE DEF g, k, v
  <1>2. Along(g, handler'[s]) /\ handler'[s].pc = "create" /\ handler'[s].own = g.own
        /\ handler'[s].view = v /\ handler'[s].event = k
    BY <1>1 DEF Along, HandlerRec, InTx, AtRequest
  <1> QED
    BY <1>1, <1>2 DEF g, k, v

LEMMA HitFields ==
  ASSUME Shape, NEW s \in Sessions, HitMove(s)
  PROVE  /\ Along(handler[s], handler'[s]) /\ handler[s].pc = "find"
         /\ handler'[s].pc = "update" /\ handler'[s].own = handler[s].own
         /\ handler'[s].view = ViewOf(s) /\ handler'[s].fresh = NewRow(Request(s))
         /\ handler'[s].event \in Found(s, Request(s))
  <1> DEFINE g == handler[s]
             v == ViewOf(s)
             row == NewRow(Request(s))
             F == Found(s, Request(s))
  <1>1. PICK k \in F : g.pc = "find"
        /\ handler'[s] = [g EXCEPT !.view = v, !.pc = "update", !.event = k, !.fresh = row]
    BY Arrives DEF HitMove
  <1>2. g \in HandlerRec
    BY DEF Shape
  <1> HIDE DEF g, v, row, F
  <1>3. Along(g, handler'[s]) /\ handler'[s].pc = "update" /\ handler'[s].own = g.own
        /\ handler'[s].view = v /\ handler'[s].fresh = row /\ handler'[s].event = k
    BY <1>1, <1>2 DEF Along, HandlerRec, InTx, AtRequest
  <1> QED
    BY <1>1, <1>3 DEF g, v, row, F

LEMMA NewFields ==
  ASSUME Shape, NEW s \in Sessions, NewMove(s)
  PROVE  /\ Along(handler[s], handler'[s]) /\ handler[s].pc = "create"
         /\ handler'[s].pc = "store" /\ handler'[s].event = handler[s].event
         /\ handler'[s].view = handler[s].view
         /\ handler'[s].own =
              [handler[s].own EXCEPT ![handler[s].event] = NewRow(Request(s))]
  <1> DEFINE g == handler[s]
             k == handler[s].event
             row == NewRow(Request(s))
  <1>1. g \in HandlerRec /\ g.pc = "create" /\ k = g.event
        /\ handler'[s] = [g EXCEPT !.pc = "store", !.own[k] = row]
    BY Arrives DEF Shape, NewMove
  <1> HIDE DEF g, k, row
  <1>2. Along(g, handler'[s]) /\ handler'[s].pc = "store" /\ handler'[s].event = k
        /\ handler'[s].view = g.view /\ handler'[s].own = [g.own EXCEPT ![k] = row]
    BY <1>1 DEF Along, HandlerRec, InTx, AtRequest
  <1> QED
    BY <1>1, <1>2 DEF g, k, row

LEMMA TwiceFields ==
  ASSUME Shape, NEW s \in Sessions, TwiceMove(s)
  PROVE  /\ Along(handler[s], handler'[s]) /\ handler[s].pc = "create"
         /\ handler'[s].pc = "get" /\ handler'[s].event = handler[s].event
         /\ handler'[s].view = handler[s].view /\ handler'[s].own = handler[s].own
  <1> DEFINE g == handler[s]
             locks == handler[s].shared \cup {handler[s].event}
  <1>1. g \in HandlerRec /\ g.pc = "create"
        /\ handler'[s] = [g EXCEPT !.pc = "get", !.shared = locks]
    BY Arrives DEF Shape, TwiceMove
  <1> HIDE DEF g, locks
  <1>2. Along(g, handler'[s]) /\ handler'[s].pc = "get" /\ handler'[s].event = g.event
        /\ handler'[s].view = g.view /\ handler'[s].own = g.own
    BY <1>1 DEF Along, HandlerRec, InTx, AtRequest
  <1> QED
    BY <1>1, <1>2 DEF g

LEMMA GetFields ==
  ASSUME Shape, NEW s \in Sessions, GetMove(s)
  PROVE  /\ Along(handler[s], handler'[s]) /\ handler[s].pc = "get"
         /\ handler'[s].pc = "update" /\ handler'[s].event = handler[s].event
         /\ handler'[s].view = ViewOf(s) /\ handler'[s].own = handler[s].own
         /\ handler'[s].fresh = Seen(s, ViewOf(s), handler[s].event)
         /\ handler'[s].fresh # Absent
  <1> DEFINE g == handler[s]
             v == ViewOf(s)
             row == Seen(s, ViewOf(s), handler[s].event)
  <1>1. g \in HandlerRec /\ g.pc = "get" /\ row # Absent
        /\ handler'[s] = [g EXCEPT !.pc = "update", !.fresh = row, !.view = v]
    BY Arrives DEF Shape, GetMove
  <1> HIDE DEF g, v, row
  <1>2. Along(g, handler'[s]) /\ handler'[s].pc = "update" /\ handler'[s].event = g.event
        /\ handler'[s].view = v /\ handler'[s].own = g.own /\ handler'[s].fresh = row
    BY <1>1 DEF Along, HandlerRec, InTx, AtRequest
  <1> QED
    BY <1>1, <1>2 DEF g, v, row

LEMMA UpdateFields ==
  ASSUME Shape, NEW s \in Sessions, UpdateMove(s)
  PROVE  /\ Along(handler[s], handler'[s]) /\ handler[s].pc = "update"
         /\ handler'[s].pc = "store" /\ handler'[s].event = handler[s].event
         /\ handler'[s].view = handler[s].view
         /\ handler'[s].own =
              [handler[s].own EXCEPT ![handler[s].event] =
                 UpdateLifecycle(Latest(s, handler[s].event), handler[s].fresh)]
  <1> DEFINE g == handler[s]
             k == handler[s].event
             row == UpdateLifecycle(Latest(s, k), handler[s].fresh)
  <1>1. g \in HandlerRec /\ g.pc = "update" /\ k = g.event
        /\ handler'[s] = [g EXCEPT !.pc = "store", !.own[k] = row]
    BY Arrives DEF Shape, UpdateMove
  <1> HIDE DEF g, k, row
  <1>2. Along(g, handler'[s]) /\ handler'[s].pc = "store" /\ handler'[s].event = k
        /\ handler'[s].view = g.view /\ handler'[s].own = [g.own EXCEPT ![k] = row]
    BY <1>1 DEF Along, HandlerRec, InTx, AtRequest
  <1> QED
    BY <1>1, <1>2 DEF g, k, row

LEMMA StepFields ==
  ASSUME Shape, NEW s \in Sessions, SkipMove(s)
  PROVE  /\ handler[s].pc = "segment" /\ handler'[s].pc = "segment"
         /\ handler'[s].stanza = handler[s].stanza /\ handler'[s].rows = handler[s].rows
         /\ handler'[s].segment = handler[s].segment + 1
         /\ handler'[s].began = handler[s].began
         /\ handler'[s].own = handler[s].own /\ handler'[s].view = handler[s].view
  <1> DEFINE g == handler[s]
  <1>1. g \in HandlerRec /\ g.pc = "segment"
        /\ handler'[s] = [g EXCEPT !.segment = @ + 1]
    BY Arrives DEF Shape, SkipMove
  <1> HIDE DEF g
  <1>2. /\ handler'[s].pc = "segment" /\ handler'[s].stanza = g.stanza
        /\ handler'[s].rows = g.rows /\ handler'[s].segment = g.segment + 1
        /\ handler'[s].began = g.began /\ handler'[s].own = g.own /\ handler'[s].view = g.view
    BY <1>1 DEF HandlerRec
  <1> QED
    BY <1>1, <1>2 DEF g

LEMMA StoreFields ==
  ASSUME Shape, NEW s \in Sessions, StoreMove(s)
  PROVE  /\ handler[s].pc = "store" /\ handler'[s].pc = "segment"
         /\ handler'[s].stanza = handler[s].stanza
         /\ handler'[s].rows = handler[s].rows \cup {Written(s)}
         /\ handler'[s].segment = handler[s].segment + 1
         /\ handler'[s].began = handler[s].began
         /\ handler'[s].own = handler[s].own /\ handler'[s].view = handler[s].view
  <1> DEFINE g == handler[s]
             rows == handler[s].rows \cup {Written(s)}
  <1>1. g \in HandlerRec /\ g.pc = "store"
        /\ handler'[s] = [g EXCEPT !.pc = "segment", !.segment = @ + 1, !.event = None,
                                   !.fresh = Absent, !.rows = rows]
    BY Arrives DEF Shape, StoreMove
  <1> HIDE DEF g, rows
  <1>2. /\ handler'[s].pc = "segment" /\ handler'[s].stanza = g.stanza
        /\ handler'[s].rows = rows /\ handler'[s].segment = g.segment + 1
        /\ handler'[s].began = g.began /\ handler'[s].own = g.own /\ handler'[s].view = g.view
    BY <1>1 DEF HandlerRec
  <1> QED
    BY <1>1, <1>2 DEF g, rows

(* Before its transaction a handler has nothing. *)
LEMMA OpeningFields ==
  ASSUME Shape, NEW s \in Sessions, StartMove(s) \/ LookupMove(s)
  PROVE  /\ handler'[s].pc \in {"lookup", "source"} /\ handler'[s].rows = {}
         /\ handler'[s].own = NoRows /\ handler'[s].view = None
  <1> DEFINE g == handler[s]
  <1>0. g \in HandlerRec /\ Placed(g, commits)
    BY AtHand
  <1>1. CASE StartMove(s)
    <2>1. PICK e \in Stanzas :
            handler'[s] = [Idle EXCEPT !.pc = "lookup", !.stanza = e, !.began = commits]
      BY <1>1, Arrives DEF StartMove
    <2> QED
      BY <2>1 DEF Idle
  <1>2. CASE LookupMove(s)
    <2>1. g.pc = "lookup" /\ handler'[s] = [g EXCEPT !.pc = "source"]
      BY <1>2, Arrives DEF LookupMove
    <2>2. g.rows = {} /\ g.own = NoRows /\ g.view = None
      BY <1>0, <2>1 DEF Placed, InTx, AtRequest
    <2> HIDE DEF g
    <2> QED
      BY <1>0, <2>1, <2>2 DEF HandlerRec
  <1> QED
    BY <1>1, <1>2

LEMMA InsertFields ==
  ASSUME Shape, NEW s \in Sessions, InsertMove(s)
  PROVE  /\ handler[s].pc = "source" /\ handler'[s].pc = "segment"
         /\ handler'[s].stanza = handler[s].stanza /\ handler'[s].began = handler[s].began
         /\ handler'[s].segment = 1 /\ handler'[s].rows = {}
         /\ handler'[s].own = NoRows /\ handler'[s].view = None
  <1> DEFINE g == handler[s]
  <1>0. g \in HandlerRec /\ Placed(g, commits)
    BY AtHand
  <1>1. g.pc = "source" /\ handler'[s] = [g EXCEPT !.pc = "segment", !.segment = 1]
    BY Arrives DEF InsertMove
  <1>2. g.rows = {} /\ g.own = NoRows /\ g.view = None
    BY <1>0, <1>1 DEF Placed, InTx, AtRequest
  <1> HIDE DEF g
  <1>3. /\ handler'[s].pc = "segment" /\ handler'[s].stanza = g.stanza
        /\ handler'[s].began = g.began /\ handler'[s].segment = 1 /\ handler'[s].rows = {}
        /\ handler'[s].own = NoRows /\ handler'[s].view = None
    BY <1>0, <1>1, <1>2 DEF HandlerRec
  <1> QED
    BY <1>1, <1>3 DEF g

LEMMA MovesAlong ==
  ASSUME Shape, NEW s \in Sessions, SegmentMove(s) \/ EventMove(s)
  PROVE  Along(handler[s], handler'[s]) \/ SkipMove(s)
  BY SegmentFields, MissFields, HitFields, NewFields, TwiceFields, GetFields, UpdateFields
     DEF EventMove

LEMMA MoveIsTo ==
  ASSUME Shape, NEW s \in Sessions, HandlerMove(s)
  PROVE  /\ Kept /\ handler'[s] \in HandlerRec
         /\ \A t \in Sessions \ {s} : handler'[t] = handler[t]
  <1>1. PICK h \in HandlerRec : MoveTo(s, h)
    BY MoveRecords
  <1> QED
    BY <1>1 DEF MoveTo, Shape

LEMMA HandlerWhole ==
  ASSUME Shape, WholeInv, NEW s \in Sessions, HandlerMove(s)
  PROVE  WholeInv'
  <1> DEFINE g == handler[s]
  <1>0. /\ g \in HandlerRec /\ Placed(g, commits) /\ Underway(g, source)
        /\ \A t \in Sessions \ {s} :
             g.pc \in InTx /\ handler[t].pc \in InTx => handler[t].stanza # g.stanza
    BY AtHand DEF WholeInv
  <1>1. PICK h \in HandlerRec : h = handler'[s]
    BY MoveIsTo
  <1>2. Kept /\ \A t \in Sessions \ {s} : handler'[t] = handler[t]
    BY MoveIsTo
  <1>3. CASE StartMove(s) \/ LookupMove(s)
    <2>1. h.pc \notin InTx
      BY <1>1, <1>3, OpeningFields DEF InTx, AtRequest
    <2>2. Underway(h, source)
      BY <2>1 DEF Underway
    <2> QED
      BY <1>1, <1>2, <2>1, <2>2, MoveWhole
  <1>4. CASE InsertMove(s)
    <2>1. /\ g.pc = "source" /\ source[g.stanza] = "none" /\ g.stanza \in Stanzas
          /\ g.rows = {}
      BY <1>0, <1>4 DEF InsertMove, Known, Placed, InTx, AtRequest
    <2>2. /\ h.stanza = g.stanza /\ h.rows = {} /\ h.segment = 1 /\ h.began = g.began
      BY <1>1, <1>4, InsertFields
    <2>3. ASSUME NEW t \in Sessions \ {s}, handler[t].pc \in InTx
          PROVE  handler[t].stanza # g.stanza
      BY <1>4, <2>1, <2>3 DEF InsertMove, Free, Blocks, Others, InTransaction, InTx, AtRequest
    <2>4. \A i \in Loadables(h.stanza) : ~(i < 1)
      BY <2>1, <2>2 DEF Loadables, Shape, Read, Requests
    <2>5. Underway(h, source)
      BY <2>1, <2>2, <2>4 DEF Underway
    <2> QED
      BY <1>1, <1>2, <2>2, <2>3, <2>5, MoveWhole
  <1>5. CASE Along(g, h)
    <2>1. Underway(h, source)
      BY <1>0, <1>5 DEF Underway, Along
    <2> QED
      BY <1>0, <1>1, <1>2, <1>5, <2>1, MoveWhole DEF Along
  <1>6. CASE SkipMove(s)
    <2>1. /\ g.pc = "segment" /\ h.pc = "segment" /\ h.stanza = g.stanza /\ h.rows = g.rows
          /\ h.segment = g.segment + 1 /\ h.began = g.began /\ g.segment \in Nat
          /\ g.stanza \in Stanzas
      BY <1>0, <1>1, <1>6, StepFields DEF HandlerRec, Placed
    <2>2. g.segment \notin Loadables(g.stanza)
      BY <1>6 DEF SkipMove, Skipping, Loadables
    <2>3. \A i \in Loadables(g.stanza) : i \in Nat
      BY <2>1 DEF Loadables, Shape, Read, Requests
    <2>4. {i \in Loadables(g.stanza) : i < g.segment + 1} =
            {i \in Loadables(g.stanza) : i < g.segment}
      BY <2>1, <2>2, <2>3
    <2>5. Underway(h, source)
      BY <1>0, <2>1, <2>4 DEF Underway, InTx
    <2> QED
      BY <1>0, <1>1, <1>2, <2>1, <2>5, MoveWhole DEF InTx
  <1>7. CASE StoreMove(s)
    <2> DEFINE row == Written(s)
    <2>1. /\ g.pc = "store" /\ h.pc = "segment" /\ h.stanza = g.stanza
          /\ h.rows = g.rows \cup {row}
          /\ h.segment = g.segment + 1 /\ h.began = g.began /\ g.segment \in Nat
          /\ g.stanza \in Stanzas
      BY <1>0, <1>1, <1>7, StoreFields DEF HandlerRec, Placed
    <2>2. row.stanza = g.stanza /\ row.segment = g.segment /\ row.began = g.began
      BY DEF Written
    <2> HIDE DEF row
    <2>3. g.segment \in Loadables(g.stanza)
      BY <1>0, <2>1 DEF Placed, AtRequest
    <2>4. \A i \in Loadables(g.stanza) : i \in Nat
      BY <2>1 DEF Loadables, Shape, Read, Requests
    <2>5. {i \in Loadables(g.stanza) : i < g.segment + 1} =
            {i \in Loadables(g.stanza) : i < g.segment} \cup {g.segment}
      BY <2>1, <2>3, <2>4
    <2>6. /\ source[g.stanza] = "none"
          /\ \A r \in g.rows : r.stanza = g.stanza /\ r.began = g.began
          /\ {r.segment : r \in g.rows} = {i \in Loadables(g.stanza) : i < g.segment}
          /\ \A q \in g.rows : \A r \in g.rows : q.segment = r.segment => q = r
      BY <1>0, <2>1 DEF Underway, InTx, AtRequest
    <2>7. {r.segment : r \in h.rows} = {r.segment : r \in g.rows} \cup {g.segment}
      BY <2>1, <2>2
    <2>8. \A r \in g.rows : r.segment # g.segment
      BY <2>1, <2>6
    <2>9. /\ source[h.stanza] = "none"
          /\ \A r \in h.rows : r.stanza = h.stanza /\ r.began = h.began
          /\ {r.segment : r \in h.rows} = {i \in Loadables(h.stanza) : i < h.segment}
          /\ \A q \in h.rows : \A r \in h.rows : q.segment = r.segment => q = r
      BY <2>1, <2>2, <2>5, <2>6, <2>7, <2>8
    <2>10. Underway(h, source)
      BY <2>9 DEF Underway
    <2> QED
      BY <1>0, <1>1, <1>2, <2>1, <2>10, MoveWhole DEF InTx, AtRequest
  <1> QED
    BY <1>1, <1>3, <1>4, <1>5, <1>6, <1>7, MovesAlong DEF HandlerMove

(* A commit writes the messages of its stanza, which had none. *)
LEMMA Stamped ==
  ASSUME Shape, NEW s \in Sessions, CommitStep(s)
  PROVE  /\ \A r \in handler[s].rows : \E m \in message' :
              /\ m = [r EXCEPT !.stored = commits + 1]
              /\ m.stanza = r.stanza /\ m.segment = r.segment /\ m.event = r.event
              /\ m.began = r.began /\ m.stored = commits + 1
         /\ \A m \in message' : m \notin message => \E r \in handler[s].rows :
              /\ m = [r EXCEPT !.stored = commits + 1]
              /\ m.stanza = r.stanza /\ m.segment = r.segment /\ m.event = r.event
              /\ m.began = r.began /\ m.stored = commits + 1
         /\ message \subseteq message'
  <1>1. message' = message \cup {[r EXCEPT !.stored = commits + 1] : r \in handler[s].rows}
    BY DEF CommitStep, Committed
  <1>2. handler[s].rows \subseteq MessageRec
    BY AtHand DEF HandlerRec
  <1>3. ASSUME NEW r \in MessageRec
        PROVE  LET m == [r EXCEPT !.stored = commits + 1] IN
                 /\ m.stanza = r.stanza /\ m.segment = r.segment /\ m.event = r.event
                 /\ m.began = r.began /\ m.stored = commits + 1
    BY DEF MessageRec
  <1> QED
    BY <1>1, <1>2, <1>3

LEMMA CommitWhole ==
  ASSUME Shape, WholeInv, NEW s \in Sessions, CommitStep(s)
  PROVE  WholeInv'
  <1> DEFINE h == handler[s]
             e0 == h.stanza
             New(m) == m \notin message
  <1>0. h \in HandlerRec /\ Placed(h, commits) /\ Underway(h, source) /\ h.pc = "commit"
    BY AtHand DEF WholeInv, CommitStep
  <1>1. /\ e0 \in Stanzas /\ Verdict(e0) = "store" /\ h.segment >= 1 /\ h.segment \in Nat
        /\ h.segment \notin DOMAIN Requests(e0)
    BY <1>0 DEF Placed, HandlerRec, InTx
  <1>2. /\ source[e0] = "none"
        /\ \A r \in h.rows : r.stanza = e0
        /\ {r.segment : r \in h.rows} = {i \in Loadables(e0) : i < h.segment}
        /\ \A q \in h.rows : \A r \in h.rows : q.segment = r.segment => q = r
    BY <1>0 DEF Underway, InTx
  <1>3. {i \in Loadables(e0) : i < h.segment} = Loadables(e0)
    <2>1. PICK n \in Nat : DOMAIN Requests(e0) = 1 .. n
      BY <1>1 DEF Shape, Read, Requests
    <2>2. \A i \in Loadables(e0) : i \in 1 .. n
      BY <2>1 DEF Loadables
    <2>3. h.segment > n
      BY <1>1, <2>1
    <2> QED
      BY <1>1, <2>2, <2>3
  <1>4. /\ env' = env /\ source' = [source EXCEPT ![e0] = StatusOf(h)]
        /\ outbox' = outbox \cup {<<row.stanza, row.segment>> : row \in h.rows}
        /\ handler' = [handler EXCEPT ![s] = Idle]
    BY DEF CommitStep, Committed
  <1>5. /\ source'[e0] # "none" /\ \A e \in Stanzas \ {e0} : source'[e] = source[e]
    BY <1>1, <1>4 DEF StatusOf, Shape
  <1>6. /\ \A e : Loadables(e)' = Loadables(e)
        /\ \A m : RequestOf(m)' = RequestOf(m)
    BY <1>4, EnvStays
  <1>7. ASSUME NEW m \in message PROVE m.stanza # e0 /\ m.stanza \in Stanzas
    <2>1. m.stanza \in Stanzas
      BY DEF Shape, MessageRec
    <2>2. RowsOf(m.stanza) # {}
      BY DEF RowsOf
    <2>3. source[m.stanza] # "none"
      BY <2>1, <2>2 DEF WholeInv, StoredWhole
    <2> QED
      BY <1>2, <2>1, <2>3
  <1> HIDE DEF h
  <1>8. outbox' = {<<m.stanza, m.segment>> : m \in message'}
    <2>1. outbox = {<<m.stanza, m.segment>> : m \in message}
      BY DEF WholeInv, StoredWhole
    <2>2. ASSUME NEW m \in message' PROVE <<m.stanza, m.segment>> \in outbox'
      <3>1. CASE m \in message
        BY <1>4, <2>1, <3>1
      <3>2. CASE m \notin message
        <4>1. PICK r \in h.rows : m.stanza = r.stanza /\ m.segment = r.segment
          BY <3>2, Stamped DEF h
        <4> QED
          BY <1>4, <4>1
      <3> QED
        BY <3>1, <3>2
    <2>3. ASSUME NEW p \in outbox' PROVE \E m \in message' : p = <<m.stanza, m.segment>>
      <3>1. CASE p \in outbox
        BY <2>1, <3>1, Stamped
      <3>2. CASE p \notin outbox
        <4>1. PICK r \in h.rows : p = <<r.stanza, r.segment>>
          BY <1>4, <3>2
        <4>2. PICK m \in message' : m.stanza = r.stanza /\ m.segment = r.segment
          BY <4>1, Stamped DEF h
        <4> QED
          BY <4>1, <4>2
      <3> QED
        BY <3>1, <3>2
    <2> QED
      BY <2>2, <2>3
  <1>9. ASSUME NEW m \in message', NEW n \in message',
               m.stanza = n.stanza, m.segment = n.segment
        PROVE  m = n
    <2>1. CASE m \in message /\ n \in message
      BY <1>9, <2>1 DEF WholeInv, StoredWhole
    <2>2. \A x \in message' : x \notin message => x.stanza = e0
      BY <1>2, Stamped DEF h
    <2>3. CASE m \notin message /\ n \notin message
      <3>1. PICK q \in h.rows : m = [q EXCEPT !.stored = commits + 1] /\ m.segment = q.segment
        BY <2>3, Stamped DEF h
      <3>2. PICK r \in h.rows : n = [r EXCEPT !.stored = commits + 1] /\ n.segment = r.segment
        BY <2>3, Stamped DEF h
      <3>3. q = r
        BY <1>2, <1>9, <3>1, <3>2
      <3> QED
        BY <3>1, <3>2, <3>3
    <2> QED
      BY <1>7, <1>9, <2>1, <2>2, <2>3
  <1>10. ASSUME NEW e \in Stanzas
         PROVE  IF source'[e] = "none" THEN RowsOf(e)' = {}
                ELSE /\ {m.segment : m \in RowsOf(e)'} = Loadables(e)'
                     /\ \A m \in RowsOf(e)' : Valid(RequestOf(m)')
    <2>0. RowsOf(e)' = {m \in message' : m.stanza = e} /\ RowsOf(e) = {m \in message : m.stanza = e}
      BY DEF RowsOf
    <2>1. CASE e # e0
      <3>1. ASSUME NEW m \in message', m.stanza = e PROVE m \in message
        BY <1>2, <2>1, <3>1, Stamped DEF h
      <3>2. RowsOf(e)' = RowsOf(e)
        BY <2>0, <3>1, Stamped
      <3> QED
        BY <1>5, <1>6, <2>1, <3>2 DEF WholeInv, StoredWhole
    <2>2. CASE e = e0
      <3>1. ASSUME NEW m \in RowsOf(e)'
            PROVE  m \notin message /\ m.segment \in Loadables(e0) /\ m.stanza = e0
        <4>1. m \in message' /\ m.stanza = e0 /\ m \notin message
          BY <1>7, <2>0, <2>2
        <4>2. PICK r \in h.rows : m.segment = r.segment
          BY <4>1, Stamped DEF h
        <4>3. r.segment \in {q.segment : q \in h.rows}
          OBVIOUS
        <4> QED
          BY <1>2, <1>3, <4>1, <4>2, <4>3
      <3>2. ASSUME NEW i \in Loadables(e0) PROVE \E m \in RowsOf(e)' : m.segment = i
        <4>1. i \in {q.segment : q \in h.rows}
          BY <1>2, <1>3
        <4>2. PICK r \in h.rows : i = r.segment
          BY <4>1
        <4>3. PICK m \in message' : m.segment = r.segment /\ m.stanza = r.stanza
          BY Stamped DEF h
        <4> QED
          BY <1>2, <2>0, <2>2, <4>2, <4>3
      <3>3. {m.segment : m \in RowsOf(e)'} = Loadables(e)'
        BY <1>6, <2>2, <3>1, <3>2
      <3>4. ASSUME NEW m \in RowsOf(e)' PROVE Valid(RequestOf(m)')
        <4>1. Valid(Requests(e0)[m.segment])
          BY <1>1, <3>1, <3>4, StoreVerdict
        <4>2. RequestOf(m) = Requests(e0)[m.segment]
          BY <3>1, <3>4 DEF RequestOf
        <4>3. RequestOf(m)' = RequestOf(m)
          BY <1>6
        <4> QED
          BY <4>1, <4>2, <4>3
      <3> QED
        BY <1>5, <2>2, <3>3, <3>4
    <2> QED
      BY <2>1, <2>2
  <1>11. StoredWhole'
    BY <1>8, <1>9, <1>10 DEF StoredWhole
  <1>12. Idle.pc \notin InTx /\ handler'[s] = Idle
         /\ \A t \in Sessions \ {s} : handler'[t] = handler[t]
    BY <1>4 DEF Idle, InTx, AtRequest, Shape
  <1>13. ASSUME NEW t \in Sessions PROVE Underway(handler[t], source)'
    <2>1. PICK g : g = handler'[t]
      OBVIOUS
    <2>2. PICK src : src = source'
      OBVIOUS
    <2>3. Underway(g, src)
      <3>1. CASE t = s
        BY <1>12, <2>1, <3>1 DEF Underway
      <3>2. CASE t # s /\ g.pc \in InTx
        <4>1. g = handler[t] /\ Underway(g, source)
          BY <1>12, <2>1, <3>2 DEF WholeInv
        <4>2. g.stanza # e0 /\ g.stanza \in Stanzas
          <5>1. h.pc \in InTx
            BY <1>0 DEF InTx
          <5>2. Placed(handler[t], commits)
            BY DEF Shape
          <5> QED
            BY <3>2, <4>1, <5>1, <5>2 DEF WholeInv, Placed, InTx, AtRequest, h
        <4> QED
          BY <1>5, <2>2, <4>1, <4>2 DEF Underway
      <3>3. CASE g.pc \notin InTx
        BY <3>3 DEF Underway
      <3> QED
        BY <3>1, <3>2, <3>3
    <2>4. Underway(g, src)'
      BY <1>4, <2>3, UnderwayStays
    <2> QED
      BY <2>1, <2>2, <2>4
  <1>14. Alone'
    BY <1>12 DEF WholeInv, Alone
  <1> QED
    BY <1>11, <1>13, <1>14 DEF WholeInv, Alone

LEMMA WholeInit == ASSUME Init PROVE WholeInv
  <1>1. Idle.pc \notin InTx
    BY DEF Idle, InTx, AtRequest
  <1>2. StoredWhole
    BY DEF Init, StoredWhole, RowsOf
  <1> QED
    BY <1>1, <1>2 DEF Init, WholeInv, Underway

LEMMA WholeNext == ASSUME Shape, WholeInv, [Next]_vars PROVE WholeInv'
  <1>1. CASE Quiet \/ AllGone \/ \E s \in Sessions : Gone(s)
    <2>1. Kept /\ \A s \in Sessions : handler'[s] = handler[s] \/ handler'[s] = Idle
      BY <1>1 DEF Quiet, AllGone, Gone, Shape
    <2> QED
      BY <2>1, GoneWhole
  <1>2. ASSUME NEW s \in Sessions, CommitStep(s) \/ HandlerMove(s) PROVE WholeInv'
    BY <1>2, CommitWhole, HandlerWhole
  <1> QED
    BY <1>1, <1>2, NextCases

LEMMA WholeInvariance == Spec => []WholeInv
  <1>1. Shape /\ WholeInv /\ [Next]_vars => WholeInv'
    BY WholeNext
  <1> QED
    BY <1>1, WholeInit, ShapeInvariance, PTL DEF Spec

(* A stanza is stored whole or not at all, once, whichever sessions        *)
(* handle it, wherever a statement fails and wherever the process dies.    *)
THEOREM AllOrNothing == Spec => []StoredWhole
  <1>1. WholeInv => StoredWhole
    BY DEF WholeInv
  <1> QED
    BY <1>1, WholeInvariance, PTL

-----------------------------------------------------------------------------
(* A row of an event tells what one message told.                          *)

LEMMA ToldWithin ==
  ASSUME NEW k, NEW row, NEW A, NEW B, RowTold(k, row, A),
         \A a \in A : \E b \in B :
           b.stanza = a.stanza /\ b.segment = a.segment /\ b.event = a.event
  PROVE  RowTold(k, row, B)
  <1>1. \A a, b : b.stanza = a.stanza /\ b.segment = a.segment => RequestOf(b) = RequestOf(a)
    BY DEF RequestOf
  <1> QED
    BY <1>1 DEF RowTold

LEMMA ToldStays ==
  ASSUME env' = env
  PROVE  /\ \A k, row, ms : RowTold(k, row, ms) => RowTold(k, row, ms)'
         /\ \A h, ms : HandlerTold(h, ms) => HandlerTold(h, ms)'
  <1>1. \A k, row, ms : RowTold(k, row, ms) => RowTold(k, row, ms)'
    BY EnvStays DEF RowTold
  <1> QED
    BY <1>1 DEF HandlerTold, Told, InHand, Hand

LEMMA ToldGrows ==
  ASSUME NEW h, NEW ms, NEW more, HandlerTold(h, ms), ms \subseteq more
  PROVE  HandlerTold(h, more)
  <1>1. ASSUME NEW k, NEW row, NEW A, NEW B, RowTold(k, row, A), A \subseteq B
        PROVE  RowTold(k, row, B)
    BY <1>1, ToldWithin
  <1>2. Told(h, ms) \subseteq Told(h, more)
    BY DEF Told
  <1> QED
    BY <1>1, <1>2 DEF HandlerTold

LEMMA IdleTold == ASSUME NEW ms PROVE HandlerTold(Idle, ms)
  BY DEF HandlerTold, RowTold, Idle, NoRows

LEMMA OpenTold ==
  ASSUME NEW h, NEW ms, h.pc # "update", h.own = NoRows, h.view = None
  PROVE  HandlerTold(h, ms)
  BY DEF HandlerTold, RowTold, NoRows

(* What a handler had been told it still has, unless it gives up what it   *)
(* has in hand.                                                            *)
LEMMA AlongTold ==
  ASSUME NEW g, NEW h, NEW ms, Along(g, h),
         g.pc \in {"update", "store"} => h.pc \in {"update", "store"} /\ h.event = g.event,
         NEW k, NEW row, RowTold(k, row, Told(g, ms))
  PROVE  RowTold(k, row, Told(h, ms))
  <1>1. InHand(g) \subseteq InHand(h)
    BY DEF InHand, Hand, Along
  <1>2. Told(g, ms) \subseteq Told(h, ms)
    BY <1>1 DEF Told, Along
  <1> QED
    BY <1>2, ToldWithin

LEMMA ViewTold ==
  ASSUME Shape, ToldInv, NEW s \in Sessions, NEW k \in Keys
  PROVE  /\ RowTold(k, ViewOf(s)[k], message)
         /\ RowTold(k, Seen(s, ViewOf(s), k), Told(handler[s], message))
         /\ RowTold(k, Latest(s, k), Told(handler[s], message))
  <1>1. HandlerTold(handler[s], message) /\ RowTold(k, event[k], message)
    BY DEF ToldInv
  <1>2. RowTold(k, ViewOf(s)[k], message)
    BY <1>1 DEF ViewOf, HandlerTold
  <1>3. message \subseteq Told(handler[s], message)
    BY DEF Told
  <1>4. /\ RowTold(k, ViewOf(s)[k], Told(handler[s], message))
        /\ RowTold(k, event[k], Told(handler[s], message))
    BY <1>1, <1>2, <1>3, ToldWithin
  <1>5. RowTold(k, handler[s].own[k], Told(handler[s], message))
    BY <1>1 DEF HandlerTold
  <1> QED
    BY <1>2, <1>4, <1>5 DEF Seen, Latest

(* The row a handler writes for its own request. *)
LEMMA NewTold ==
  ASSUME NEW h, NEW ms, h.pc \in {"update", "store"}, NEW r, r = RequestOf(Hand(h)),
         r.vtec.action \in Actions
  PROVE  RowTold(h.event, NewRow(r), Told(h, ms)) /\ NewRow(r) # Absent
  <1>1. Hand(h) \in Told(h, ms) /\ Hand(h).event = h.event
    BY DEF Told, InHand, Hand
  <1>2. /\ NewRow(r).action = r.vtec.action /\ NewRow(r).ends = r.vtec.ends
        /\ NewRow(r).first = r.issued /\ NewRow(r).last = r.issued
    BY DEF NewRow
  <1>3. Absent.action = None /\ None \notin Actions
    BY IngestAssumption DEF Absent
  <1>4. NewRow(r) # Absent
    BY <1>2, <1>3
  <1> HIDE DEF Told
  <1>5. RowTold(h.event, NewRow(r), Told(h, ms))
    BY <1>1, <1>2 DEF RowTold
  <1> QED
    BY <1>4, <1>5

(* UpdateLifecycle takes all from the new row, but keeps the first day. *)
LEMMA UpdateTold ==
  ASSUME NEW k, NEW row, NEW fresh, NEW ms, fresh # Absent,
         RowTold(k, row, ms), RowTold(k, fresh, ms)
  PROVE  RowTold(k, UpdateLifecycle(row, fresh), ms)
  <1> DEFINE new == UpdateLifecycle(row, fresh)
  <1>1. /\ new.action = fresh.action /\ new.ends = fresh.ends /\ new.last = fresh.last
        /\ new.first = Coalesce(row.first, fresh.last)
    BY DEF UpdateLifecycle
  <1>2. PICK m \in ms : /\ m.event = k /\ fresh.action = RequestOf(m).vtec.action
                        /\ fresh.ends = RequestOf(m).vtec.ends
                        /\ fresh.last = RequestOf(m).issued
    BY DEF RowTold
  <1>3. \E n \in ms : n.event = k /\ new.first = RequestOf(n).issued
    <2>1. CASE row.first = None
      BY <1>1, <1>2, <2>1 DEF Coalesce
    <2>2. CASE row.first # None
      <3>1. row # Absent
        BY <2>2 DEF Absent
      <3> QED
        BY <1>1, <2>2, <3>1 DEF RowTold, Coalesce
    <2> QED
      BY <2>1, <2>2
  <1> HIDE DEF new
  <1>4. RowTold(k, new, ms)
    BY <1>1, <1>2, <1>3 DEF RowTold
  <1> QED
    BY <1>4 DEF new

LEMMA RequestInHand ==
  ASSUME Shape, NEW s \in Sessions, handler[s].pc \in AtRequest,
         NEW h, h.stanza = handler[s].stanza, h.segment = handler[s].segment
  PROVE  /\ RequestOf(Hand(h)) = Request(s)
         /\ Request(s).vtec # None => Request(s).vtec.action \in Actions
  <1>1. RequestOf(Hand(h)) = Request(s)
    BY DEF RequestOf, Hand, Request
  <1>2. Request(s).vtec # None => Request(s).vtec.action \in Actions
    BY AtEvent, VTECGood
  <1> QED
    BY <1>1, <1>2

LEMMA HandTold ==
  ASSUME Shape, ToldInv, NEW s \in Sessions, HandlerMove(s),
         NEW h, h = handler'[s], NEW ms, ms = message
  PROVE  HandlerTold(h, ms)
  <1> DEFINE g == handler[s]
             r == Request(s)
  <1>0. /\ g \in HandlerRec /\ Placed(g, commits) /\ HandlerTold(g, ms)
        /\ g.own \in [Keys -> Row]
    BY AtHand DEF ToldInv, HandlerRec
  <1>1. \A k \in Keys : /\ RowTold(k, ViewOf(s)[k], ms)
                        /\ RowTold(k, Seen(s, ViewOf(s), k), Told(g, ms))
                        /\ RowTold(k, Latest(s, k), Told(g, ms))
                        /\ RowTold(k, g.own[k], Told(g, ms))
                        /\ g.view # None => RowTold(k, g.view[k], ms)
    BY <1>0, ViewTold DEF HandlerTold
  <1>2. g.pc \in {"find", "create", "get", "update"} =>
          /\ r.vtec # None /\ g.pc \in AtRequest
          /\ r.vtec.action \in Actions
    BY <1>0, RequestInHand DEF Placed, AtRequest, Request
  <1>3. g.pc \in {"create", "get", "update"} => g.event \in Keys
    BY <1>0 DEF Placed
  <1> HIDE DEF g, r
  <1>4. CASE StartMove(s) \/ LookupMove(s)
    BY <1>4, OpeningFields, OpenTold
  <1>5. CASE InsertMove(s)
    BY <1>5, InsertFields, OpenTold
  <1>6. CASE SegmentMove(s) /\ ~SkipMove(s)
    <2>1. /\ Along(g, h) /\ g.pc = "segment" /\ h.own = g.own /\ h.view = g.view
          /\ h.pc # "update"
      BY <1>6, SegmentFields DEF g
    <2>2. \A k \in Keys : RowTold(k, h.own[k], Told(h, ms))
      BY <1>1, <2>1, AlongTold
    <2> QED
      BY <1>1, <2>1, <2>2 DEF HandlerTold
  <1>7. CASE SkipMove(s)
    <2>1. /\ g.pc = "segment" /\ h.pc = "segment" /\ h.rows = g.rows
          /\ h.own = g.own /\ h.view = g.view
      BY <1>7, StepFields DEF g
    <2>2. Told(h, ms) = Told(g, ms)
      BY <2>1 DEF Told, InHand
    <2> QED
      BY <1>1, <2>1, <2>2 DEF HandlerTold
  <1>8. CASE MissMove(s)
    <2>1. /\ Along(g, h) /\ g.pc = "find" /\ h.pc = "create" /\ h.own = g.own
          /\ h.view = ViewOf(s)
      BY <1>8, MissFields DEF g
    <2>2. \A k \in Keys : RowTold(k, h.own[k], Told(h, ms))
      BY <1>1, <2>1, AlongTold
    <2> QED
      BY <1>1, <2>1, <2>2 DEF HandlerTold
  <1>9. CASE HitMove(s)
    <2>1. /\ Along(g, h) /\ g.pc = "find" /\ h.pc = "update" /\ h.own = g.own
          /\ h.view = ViewOf(s) /\ h.fresh = NewRow(r)
      BY <1>9, HitFields DEF g, r
    <2>2. \A k \in Keys : RowTold(k, h.own[k], Told(h, ms))
      BY <1>1, <2>1, AlongTold
    <2>3. RequestOf(Hand(h)) = r
      BY <1>2, <2>1, RequestInHand DEF Along, g, r
    <2>4. RowTold(h.event, h.fresh, Told(h, ms)) /\ h.fresh # Absent
      BY <1>2, <2>1, <2>3, NewTold
    <2> QED
      BY <1>1, <2>1, <2>2, <2>4 DEF HandlerTold
  <1>10. CASE NewMove(s)
    <2>1. /\ Along(g, h) /\ g.pc = "create" /\ h.pc = "store" /\ h.event = g.event
          /\ h.own = [g.own EXCEPT ![g.event] = NewRow(r)] /\ h.view = g.view
      BY <1>10, NewFields DEF g, r
    <2>2. RequestOf(Hand(h)) = r
      BY <1>2, <2>1, RequestInHand DEF Along, g, r
    <2>3. RowTold(h.event, NewRow(r), Told(h, ms))
      BY <1>2, <2>1, <2>2, NewTold
    <2>4. ASSUME NEW k \in Keys PROVE RowTold(k, h.own[k], Told(h, ms))
      <3>1. CASE k = g.event
        BY <1>0, <2>1, <2>3, <3>1
      <3>2. CASE k # g.event
        <4>1. h.own[k] = g.own[k]
          BY <1>0, <2>1, <3>2
        <4> QED
          BY <1>1, <2>1, <4>1, AlongTold
      <3> QED
        BY <3>1, <3>2
    <2> QED
      BY <1>1, <2>1, <2>4 DEF HandlerTold
  <1>11. CASE TwiceMove(s)
    <2>1. /\ Along(g, h) /\ g.pc = "create" /\ h.pc = "get" /\ h.own = g.own
          /\ h.view = g.view
      BY <1>11, TwiceFields DEF g
    <2>2. \A k \in Keys : RowTold(k, h.own[k], Told(h, ms))
      BY <1>1, <2>1, AlongTold
    <2> QED
      BY <1>1, <2>1, <2>2 DEF HandlerTold
  <1>12. CASE GetMove(s)
    <2>1. /\ Along(g, h) /\ g.pc = "get" /\ h.pc = "update" /\ h.own = g.own
          /\ h.view = ViewOf(s) /\ h.fresh = Seen(s, ViewOf(s), g.event) /\ h.fresh # Absent
          /\ h.event = g.event
      BY <1>12, GetFields DEF g
    <2>2. \A k \in Keys : RowTold(k, h.own[k], Told(h, ms))
      BY <1>1, <2>1, AlongTold
    <2>3. RowTold(h.event, h.fresh, Told(h, ms))
      BY <1>1, <1>3, <2>1, AlongTold
    <2> QED
      BY <1>1, <2>1, <2>2, <2>3 DEF HandlerTold
  <1>13. CASE UpdateMove(s)
    <2> DEFINE new == UpdateLifecycle(Latest(s, g.event), g.fresh)
    <2>1. /\ Along(g, h) /\ g.pc = "update" /\ h.pc = "store" /\ h.event = g.event
          /\ h.own = [g.own EXCEPT ![g.event] = new] /\ h.view = g.view
      BY <1>13, UpdateFields DEF g
    <2>2. RowTold(g.event, new, Told(g, ms))
      BY <1>0, <1>1, <1>3, <2>1, UpdateTold DEF HandlerTold
    <2> HIDE DEF new
    <2>3. RowTold(g.event, new, Told(h, ms))
      BY <2>1, <2>2, AlongTold
    <2>4. ASSUME NEW k \in Keys PROVE RowTold(k, h.own[k], Told(h, ms))
      <3>1. CASE k = g.event
        BY <1>0, <2>1, <2>3, <3>1
      <3>2. CASE k # g.event
        <4>1. h.own[k] = g.own[k]
          BY <1>0, <2>1, <3>2
        <4> QED
          BY <1>1, <2>1, <4>1, AlongTold
      <3> QED
        BY <3>1, <3>2
    <2> QED
      BY <1>1, <2>1, <2>4 DEF HandlerTold
  <1>14. CASE StoreMove(s)
    <2>1. /\ g.pc = "store" /\ h.pc = "segment" /\ h.rows = g.rows \cup {Written(s)}
          /\ h.own = g.own /\ h.view = g.view
      BY <1>14, StoreFields DEF g
    <2>2. /\ Written(s).stanza = Hand(g).stanza /\ Written(s).segment = Hand(g).segment
          /\ Written(s).event = Hand(g).event
      BY DEF Written, Hand, g
    <2>3. Told(g, ms) = (ms \cup g.rows) \cup {Hand(g)}
      BY <2>1 DEF Told, InHand
    <2>4. Told(h, ms) = (ms \cup g.rows) \cup {Written(s)}
      BY <2>1 DEF Told, InHand
    <2>5. \A a \in Told(g, ms) : \E b \in Told(h, ms) :
            b.stanza = a.stanza /\ b.segment = a.segment /\ b.event = a.event
      BY <2>2, <2>3, <2>4
    <2>6. \A k \in Keys : RowTold(k, h.own[k], Told(h, ms))
      BY <1>1, <2>1, <2>5, ToldWithin
    <2> QED
      BY <1>1, <2>1, <2>6 DEF HandlerTold
  <1> QED
    BY <1>4, <1>5, <1>6, <1>7, <1>8, <1>9, <1>10, <1>11, <1>12, <1>13, <1>14
       DEF HandlerMove, EventMove

(* The rows of handlers that do not move, with more messages. *)
LEMMA OthersTold ==
  ASSUME ToldInv, env' = env, NEW t \in Sessions,
         handler'[t] = handler[t] \/ handler'[t] = Idle, message \subseteq message'
  PROVE  HandlerTold(handler[t], message)'
  <1>1. PICK g : g = handler'[t]
    OBVIOUS
  <1>2. PICK ms : ms = message'
    OBVIOUS
  <1>3. HandlerTold(g, message)
    BY <1>1, IdleTold DEF ToldInv
  <1>4. HandlerTold(g, ms)
    BY <1>2, <1>3, ToldGrows
  <1>5. HandlerTold(g, ms)'
    BY <1>4, ToldStays
  <1> QED
    BY <1>1, <1>2, <1>5

LEMMA RowsTold ==
  ASSUME env' = env, NEW k, NEW row, row = event'[k], NEW ms, ms = message',
         RowTold(k, row, ms)
  PROVE  RowTold(k, event[k], message)'
  <1>1. RowTold(k, row, ms)'
    BY ToldStays
  <1> QED
    BY <1>1

LEMMA MoveTold ==
  ASSUME Shape, ToldInv, NEW s \in Sessions, HandlerMove(s)
  PROVE  ToldInv'
  <1>1. Kept /\ \A t \in Sessions \ {s} : handler'[t] = handler[t]
    BY MoveIsTo
  <1>2. ASSUME NEW k \in Keys PROVE RowTold(k, event[k], message)'
    BY <1>1, RowsTold DEF ToldInv, Kept
  <1>3. HandlerTold(handler[s], message)'
    <2>1. PICK h : h = handler'[s]
      OBVIOUS
    <2>2. PICK ms : ms = message
      OBVIOUS
    <2>3. HandlerTold(h, ms)
      BY <2>1, <2>2, HandTold
    <2>4. HandlerTold(h, ms)'
      BY <1>1, <2>3, ToldStays DEF Kept
    <2> QED
      BY <1>1, <2>1, <2>2, <2>4 DEF Kept
  <1>4. ASSUME NEW t \in Sessions \ {s} PROVE HandlerTold(handler[t], message)'
    BY <1>1, OthersTold DEF Kept
  <1> QED
    BY <1>2, <1>3, <1>4 DEF ToldInv

LEMMA CommitTold ==
  ASSUME Shape, ToldInv, NEW s \in Sessions, CommitStep(s)
  PROVE  ToldInv'
  <1>1. /\ env' = env /\ event' = [k \in Keys |-> Latest(s, k)]
        /\ handler'[s] = Idle /\ \A t \in Sessions \ {s} : handler'[t] = handler[t]
        /\ handler[s].pc = "commit" /\ message \subseteq message'
    BY Stamped DEF CommitStep, Committed, Shape
  <1>2. Told(handler[s], message) = message \cup handler[s].rows
    BY <1>1 DEF Told, InHand
  <1>3. ASSUME NEW k \in Keys PROVE RowTold(k, event[k], message)'
    <2>1. RowTold(k, event'[k], message \cup handler[s].rows)
      BY <1>1, <1>2, ViewTold
    <2>2. \A a \in message \cup handler[s].rows : \E b \in message' :
            b.stanza = a.stanza /\ b.segment = a.segment /\ b.event = a.event
      BY <1>1, Stamped
    <2>3. RowTold(k, event'[k], message')
      BY <2>1, <2>2, ToldWithin
    <2> QED
      BY <1>1, <2>3, RowsTold
  <1>4. ASSUME NEW t \in Sessions PROVE HandlerTold(handler[t], message)'
    BY <1>1, OthersTold
  <1> QED
    BY <1>3, <1>4 DEF ToldInv

LEMMA ToldNext == ASSUME Shape, ToldInv, [Next]_vars PROVE ToldInv'
  <1>1. CASE Quiet \/ AllGone \/ \E s \in Sessions : Gone(s)
    <2>1. Kept /\ \A s \in Sessions : handler'[s] = handler[s] \/ handler'[s] = Idle
      BY <1>1 DEF Quiet, AllGone, Gone, Shape
    <2>2. ASSUME NEW k \in Keys PROVE RowTold(k, event[k], message)'
      BY <2>1, RowsTold DEF ToldInv, Kept
    <2>3. ASSUME NEW t \in Sessions PROVE HandlerTold(handler[t], message)'
      BY <2>1, OthersTold DEF Kept
    <2> QED
      BY <2>2, <2>3 DEF ToldInv
  <1>2. ASSUME NEW s \in Sessions, CommitStep(s) \/ HandlerMove(s) PROVE ToldInv'
    BY <1>2, CommitTold, MoveTold
  <1> QED
    BY <1>1, <1>2, NextCases

LEMMA ToldInit == ASSUME Init PROVE ToldInv
  BY IdleTold DEF Init, ToldInv, RowTold, NoRows

LEMMA ToldInvariance == Spec => []ToldInv
  <1>1. Shape /\ ToldInv /\ [Next]_vars => ToldInv'
    BY ToldNext
  <1> QED
    BY <1>1, ToldInit, ShapeInvariance, PTL DEF Spec

(* The row of an event tells the state of one message stored with it: not  *)
(* of two that handlers put in it one upon the other, nor one that the     *)
(* handler's own transaction took back.                                    *)
THEOREM EventsToldByOne == Spec => []LifecycleOfOneMessage
  <1>1. ToldInv => LifecycleOfOneMessage
    BY DEF ToldInv, RowTold, LifecycleOfOneMessage
  <1> QED
    BY <1>1, ToldInvariance, PTL

-----------------------------------------------------------------------------
(* A continuation is put with the messages from before.                    *)

LEMMA JoinsStay ==
  ASSUME env' = env
  PROVE  /\ \A h, ms : Rowed(h, ms) => Rowed(h, ms)'
         /\ \A h, ms : HandlerJoins(h, ms) => HandlerJoins(h, ms)'
  <1>1. \A n, r, began, ms, others :
          Joins(n, r, began, ms, others) => Joins(n, r, began, ms, others)'
    BY DEF Joins
  <1> QED
    BY <1>1, EnvStays DEF Rowed, HandlerJoins, Hand

(* Messages stored since a handler began do not concern it. *)
LEMMA JoinsGrow ==
  ASSUME NEW n, NEW r, NEW began \in Nat, NEW ms, NEW others, NEW more, NEW rest,
         Joins(n, r, began, ms, others), others \subseteq rest,
         \A m \in more : m \in ms \/ ~(m.stored <= began)
  PROVE  Joins(n, r, began, more, rest)
  BY DEF Joins

LEMMA HandlerGrows ==
  ASSUME NEW h \in HandlerRec, NEW ms, NEW more, ms \subseteq more,
         \A m \in more : m \in ms \/ ~(m.stored <= h.began),
         Rowed(h, ms), HandlerJoins(h, ms)
  PROVE  Rowed(h, more) /\ HandlerJoins(h, more)
  <1>1. h.began \in Nat
    BY DEF HandlerRec
  <1>2. Rowed(h, more)
    BY DEF Rowed
  <1>3. ASSUME NEW n \in h.rows
        PROVE  Joins(n, RequestOf(n), h.began, more, more \cup (h.rows \ {n}))
    <2>1. Joins(n, RequestOf(n), h.began, ms, ms \cup (h.rows \ {n}))
      BY DEF HandlerJoins
    <2> QED
      BY <1>1, <2>1, JoinsGrow
  <1>4. ASSUME h.pc \in {"create", "get", "update", "store"}
        PROVE  Joins(Hand(h), RequestOf(Hand(h)), h.began, more, more \cup h.rows)
    <2>1. Joins(Hand(h), RequestOf(Hand(h)), h.began, ms, ms \cup h.rows)
      BY <1>4 DEF HandlerJoins
    <2> QED
      BY <1>1, <2>1, JoinsGrow
  <1> QED
    BY <1>2, <1>3, <1>4 DEF HandlerJoins

LEMMA OpenJoins ==
  ASSUME NEW h, NEW ms, h.pc \notin AtRequest, h.rows = {}, h.view = None
  PROVE  Rowed(h, ms) /\ HandlerJoins(h, ms)
  BY DEF Rowed, HandlerJoins, AtRequest

LEMMA IdleJoins == ASSUME NEW ms PROVE Rowed(Idle, ms) /\ HandlerJoins(Idle, ms)
  BY OpenJoins DEF Idle, AtRequest

(* The view a statement reads by has every event stored before. *)
LEMMA ViewRowed ==
  ASSUME Shape, JoinInv, NEW s \in Sessions, NEW m \in message,
         m.event # None, m.stored <= handler[s].began
  PROVE  /\ m.event \in Keys
         /\ ViewOf(s)[m.event] # Absent /\ Seen(s, ViewOf(s), m.event) # Absent
  <1>1. m.event \in Keys
    BY DEF Shape, MessageRec
  <1>2. /\ event[m.event] # Absent
        /\ handler[s].view # None => handler[s].view[m.event] # Absent
    <2>1. Rowed(handler[s], message) /\ Dated
      BY DEF JoinInv
    <2>2. event[m.event] # Absent
      BY <2>1 DEF Dated
    <2> QED
      BY <2>1, <2>2 DEF Rowed
  <1>3. ViewOf(s)[m.event] # Absent
    BY <1>2 DEF ViewOf
  <1> QED
    BY <1>1, <1>3 DEF Seen

(* What a handler has been told is of requests with a VTEC. *)
LEMMA ToldActs ==
  ASSUME Shape, NEW s \in Sessions, handler[s].pc = "update", NEW k \in Keys, NEW row,
         RowTold(k, row, Told(handler[s], message)), row # Absent
  PROVE  row.action \in Actions
  <1> DEFINE g == handler[s]
  <1>1. g \in HandlerRec /\ Placed(g, commits)
    BY AtHand
  <1>2. PICK m \in Told(g, message) : m.event = k /\ row.action = RequestOf(m).vtec.action
    BY DEF RowTold
  <1>3. k # None
    BY IngestAssumption DEF Keys
  <1>4. m.stanza \in Stanzas /\ m.segment \in DOMAIN Requests(m.stanza)
        /\ Requests(m.stanza)[m.segment].vtec # None
    <2>1. CASE m \in message
      BY <1>2, <1>3, <2>1 DEF Shape, MessageRec, RowGood
    <2>2. CASE m \in g.rows
      BY <1>1, <1>2, <1>3, <2>2 DEF HandlerRec, MessageRec, Placed, RowGood
    <2>3. CASE m = Hand(g)
      BY <1>1, <2>3 DEF Hand, Placed, AtRequest, Loadables
    <2> QED
      BY <1>2, <2>1, <2>2, <2>3 DEF Told, InHand
  <1> QED
    BY <1>2, <1>4, RequestGood, VTECGood DEF RequestOf

(* The statements that leave the rows as they are. *)
LEMMA AlongRowed ==
  ASSUME NEW g, NEW h, NEW ms, Along(g, h), Rowed(g, ms),
         \A k \in Keys : g.own[k] # Absent => h.own[k] # Absent,
         \A r \in g.rows : r.event \in Keys \cup {None},
         h.pc = "store" /\ h.event # None => h.own[h.event] # Absent,
         h.view = g.view \/
           \A m \in ms : m.event # None /\ m.stored <= g.began => h.view[m.event] # Absent
  PROVE  Rowed(h, ms)
  BY DEF Along, Rowed

LEMMA AlongJoins ==
  ASSUME NEW g, NEW h, NEW ms, Along(g, h), HandlerJoins(g, ms),
         h.pc \in {"create", "get", "update", "store"} =>
           Joins(Hand(h), RequestOf(Hand(h)), h.began, ms, ms \cup h.rows)
  PROVE  HandlerJoins(h, ms)
  BY DEF Along, HandlerJoins

LEMMA SameHand ==
  ASSUME NEW g, NEW h, NEW ms, Along(g, h), HandlerJoins(g, ms), h.event = g.event,
         g.pc \in {"create", "get", "update", "store"}
  PROVE  HandlerJoins(h, ms)
  <1>1. Hand(h) = Hand(g) /\ h.rows = g.rows /\ h.began = g.began
    BY DEF Hand, Along
  <1> QED
    BY <1>1, AlongJoins DEF HandlerJoins

(* Nothing was found: no event of this or the last year was stored before. *)
LEMMA MissJoins ==
  ASSUME Shape, JoinInv, NEW s \in Sessions, MissMove(s), NEW n, NEW others,
         n.event[1] = Request(s).vtec.etn
  PROVE  Joins(n, Request(s), handler[s].began, message, others)
  <1> DEFINE g == handler[s]
             r == Request(s)
             year == YearOf(r.issued)
             hits == {y \in {year, year - 1} \cap {1, 2} :
                        GetByNaturalKey(s, r.vtec, y) # Absent}
  <1>1. year \in {1, 2}
    BY DEF YearOf
  <1>2. hits = {}
    <2>1. Found(s, r) = {KeyOf(r.vtec, y) : y \in {h \in hits : \A x \in hits : x <= h}}
      BY DEF Found
    <2>2. Found(s, r) = {}
      BY DEF MissMove
    <2>3. \A h \in hits : ~\A x \in hits : x <= h
      BY <2>1, <2>2
    <2>4. hits \subseteq {1, 2}
      OBVIOUS
    <2> HIDE DEF hits
    <2>5. 1 \notin hits /\ 2 \notin hits
      BY <2>3, <2>4
    <2> QED
      BY <2>4, <2>5
  <1>3. ASSUME NEW m \in message, m.event # None, m.event[1] = n.event[1],
               m.stored <= g.began, year \in {m.event[2], m.event[2] + 1}
        PROVE  FALSE
    <2>1. /\ m.event \in Keys /\ Seen(s, ViewOf(s), m.event) # Absent
      BY <1>3, ViewRowed
    <2>2. m.event[2] \in {1, 2} /\ m.event = <<m.event[1], m.event[2]>>
      BY <2>1 DEF Keys
    <2>3. m.event = KeyOf(r.vtec, m.event[2])
      BY <1>3, <2>2 DEF KeyOf
    <2>4. m.event[2] \in {year, year - 1}
      BY <1>1, <1>3, <2>2
    <2>5. GetByNaturalKey(s, r.vtec, m.event[2]) # Absent
      BY <2>1, <2>3 DEF GetByNaturalKey
    <2> QED
      BY <1>2, <2>2, <2>4, <2>5
  <1> QED
    BY <1>3 DEF Joins

(* The latest of the events found. *)
LEMMA HitJoins ==
  ASSUME Shape, ToldInv, JoinInv, NEW s \in Sessions, HitMove(s), NEW n,
         n.event \in Found(s, Request(s)), Request(s).vtec # None
  PROVE  Joins(n, Request(s), handler[s].began, message, message \cup handler[s].rows)
  <1> DEFINE g == handler[s]
             r == Request(s)
             year == YearOf(r.issued)
             hits == {y \in {year, year - 1} \cap {1, 2} :
                        GetByNaturalKey(s, r.vtec, y) # Absent}
  <1>0. g.pc = "find" /\ r.vtec \in PrimaryVTEC(Etns)
    BY AtEvent DEF HitMove, AtRequest
  <1>1. year \in {1, 2}
    BY DEF YearOf
  <1>2. PICK y \in hits : n.event = KeyOf(r.vtec, y) /\ \A x \in hits : x <= y
    BY DEF Found
  <1>3. y \in {1, 2} /\ n.event \in Keys /\ n.event[1] = r.vtec.etn /\ n.event[2] = y
        /\ Seen(s, ViewOf(s), n.event) # Absent
    BY <1>0, <1>2, VTECGood DEF GetByNaturalKey
  <1>4. \E x \in message \cup g.rows : x.event = n.event
    <2>1. RowTold(n.event, Seen(s, ViewOf(s), n.event), Told(g, message))
      BY <1>3, ViewTold
    <2>2. Told(g, message) = message \cup g.rows
      BY <1>0 DEF Told, InHand
    <2> QED
      BY <1>3, <2>1, <2>2 DEF RowTold
  <1>5. ASSUME NEW m \in message, m.event # None, m.event[1] = n.event[1],
               m.stored <= g.began, year \in {m.event[2], m.event[2] + 1}
        PROVE  n.event = m.event \/ n.event[2] > m.event[2]
    <2>1. /\ m.event \in Keys /\ Seen(s, ViewOf(s), m.event) # Absent
      BY <1>5, ViewRowed
    <2>2. m.event[2] \in {1, 2} /\ m.event = <<m.event[1], m.event[2]>>
      BY <2>1 DEF Keys
    <2>3. m.event = KeyOf(r.vtec, m.event[2])
      BY <1>3, <1>5, <2>2 DEF KeyOf
    <2>4. m.event[2] \in {year, year - 1}
      BY <1>1, <1>5, <2>2
    <2>5. GetByNaturalKey(s, r.vtec, m.event[2]) # Absent
      BY <2>1, <2>3 DEF GetByNaturalKey
    <2>6. m.event[2] <= y
      BY <1>2, <2>2, <2>4, <2>5
    <2> QED
      BY <1>2, <1>3, <2>2, <2>3, <2>6
  <1> QED
    BY <1>4, <1>5 DEF Joins

LEMMA HandJoins ==
  ASSUME Shape, WholeInv, ToldInv, JoinInv, NEW s \in Sessions, HandlerMove(s),
         NEW h, h = handler'[s], NEW ms, ms = message
  PROVE  Rowed(h, ms) /\ HandlerJoins(h, ms)
  <1> DEFINE g == handler[s]
             r == Request(s)
  <1>0. /\ g \in HandlerRec /\ Placed(g, commits) /\ Rowed(g, ms) /\ HandlerJoins(g, ms)
        /\ g.own \in [Keys -> Row] /\ Underway(g, source)
        /\ \A m \in g.rows : m.event \in Keys \cup {None}
    BY AtHand DEF JoinInv, WholeInv, HandlerRec, MessageRec
  <1>1. \A m \in ms : m.event # None /\ m.stored <= g.began => ViewOf(s)[m.event] # Absent
    BY ViewRowed
  <1>2. g.pc \in {"find", "create", "get", "update"} =>
          r.vtec # None /\ g.pc \in AtRequest /\ r.vtec.action \in Actions
    BY <1>0, RequestInHand DEF Placed, AtRequest, Request
  <1>3. g.pc \in {"create", "get", "update"} => g.event \in Keys
    BY <1>0 DEF Placed
  <1>4. ASSUME Along(g, h), g.pc \in AtRequest
        PROVE  RequestOf(Hand(h)) = r /\ Hand(h).event = h.event /\ h.rows = g.rows
               /\ h.began = g.began
    BY <1>4, RequestInHand DEF Along, Hand
  <1>5. ASSUME NEW row, row.action \in Actions PROVE row # Absent
    BY <1>5, IngestAssumption DEF Absent
  <1> HIDE DEF g, r
  <1>6. CASE StartMove(s) \/ LookupMove(s)
    BY <1>6, OpeningFields, OpenJoins DEF AtRequest
  <1>7. CASE InsertMove(s)
    BY <1>7, InsertFields, OpenJoins DEF AtRequest
  <1>8. CASE SegmentMove(s) /\ ~SkipMove(s)
    <2>1. /\ Along(g, h) /\ g.pc = "segment" /\ h.own = g.own /\ h.view = g.view
          /\ \/ h.pc = "commit" \/ h.pc = "find"
             \/ h.pc = "store" /\ h.event = None
             \/ h.pc = "create" /\ r.vtec.begins # None
      BY <1>8, SegmentFields DEF g, r
    <2>2. Rowed(h, ms)
      BY <1>0, <2>1, AlongRowed
    <2>3. RequestOf(Hand(h)) = r /\ Hand(h).event = h.event
      BY <2>1 DEF RequestOf, Hand, Request, Along, g, r
    <2>4. h.pc \in {"create", "get", "update", "store"} =>
            Joins(Hand(h), RequestOf(Hand(h)), h.began, ms, ms \cup h.rows)
      BY <2>1, <2>3 DEF Joins
    <2>5. HandlerJoins(h, ms)
      BY <1>0, <2>1, <2>4, AlongJoins
    <2> QED
      BY <2>2, <2>5
  <1>9. CASE SkipMove(s)
    <2>1. /\ g.pc = "segment" /\ h.pc = "segment" /\ h.rows = g.rows /\ h.began = g.began
          /\ h.own = g.own /\ h.view = g.view
      BY <1>9, StepFields DEF g
    <2> QED
      BY <1>0, <2>1 DEF Rowed, HandlerJoins
  <1>10. CASE MissMove(s)
    <2>1. /\ Along(g, h) /\ g.pc = "find" /\ h.pc = "create" /\ h.own = g.own
          /\ h.view = ViewOf(s) /\ h.event = KeyOf(r.vtec, YearOf(r.issued))
      BY <1>10, MissFields DEF g, r
    <2>2. Rowed(h, ms)
      BY <1>0, <1>1, <2>1, AlongRowed
    <2>3. RequestOf(Hand(h)) = r /\ Hand(h).event[1] = r.vtec.etn /\ h.began = g.began
      BY <1>2, <1>4, <2>1 DEF KeyOf
    <2>4. Joins(Hand(h), r, g.began, ms, ms \cup h.rows)
      BY <1>10, <2>3, MissJoins DEF g, r
    <2>5. HandlerJoins(h, ms)
      BY <1>0, <2>1, <2>3, <2>4, AlongJoins
    <2> QED
      BY <2>2, <2>5
  <1>11. CASE HitMove(s)
    <2>1. /\ Along(g, h) /\ g.pc = "find" /\ h.pc = "update" /\ h.own = g.own
          /\ h.view = ViewOf(s) /\ h.event \in Found(s, r)
      BY <1>11, HitFields DEF g, r
    <2>2. Rowed(h, ms)
      BY <1>0, <1>1, <2>1, AlongRowed
    <2>3. RequestOf(Hand(h)) = r /\ Hand(h).event \in Found(s, r) /\ h.began = g.began
          /\ h.rows = g.rows /\ r.vtec # None
      BY <1>2, <1>4, <2>1
    <2>4. Joins(Hand(h), r, g.began, ms, ms \cup g.rows)
      BY <1>11, <2>3, HitJoins DEF g, r
    <2>5. HandlerJoins(h, ms)
      BY <1>0, <2>1, <2>3, <2>4, AlongJoins
    <2> QED
      BY <2>2, <2>5
  <1>12. CASE NewMove(s)
    <2>1. /\ Along(g, h) /\ g.pc = "create" /\ h.pc = "store" /\ h.event = g.event
          /\ h.own = [g.own EXCEPT ![g.event] = NewRow(r)] /\ h.view = g.view
      BY <1>12, NewFields DEF g, r
    <2>2. NewRow(r) # Absent
      BY <1>2, <1>5, <2>1 DEF NewRow
    <2>3. h.own[h.event] # Absent /\ \A k \in Keys : g.own[k] # Absent => h.own[k] # Absent
      BY <1>0, <1>3, <2>1, <2>2
    <2>4. Rowed(h, ms)
      BY <1>0, <2>1, <2>3, AlongRowed
    <2>5. HandlerJoins(h, ms)
      BY <1>0, <2>1, SameHand
    <2> QED
      BY <2>4, <2>5
  <1>13. CASE TwiceMove(s)
    <2>1. /\ Along(g, h) /\ g.pc = "create" /\ h.pc = "get" /\ h.own = g.own
          /\ h.view = g.view /\ h.event = g.event
      BY <1>13, TwiceFields DEF g
    <2>2. Rowed(h, ms)
      BY <1>0, <2>1, AlongRowed
    <2>3. HandlerJoins(h, ms)
      BY <1>0, <2>1, SameHand
    <2> QED
      BY <2>2, <2>3
  <1>14. CASE GetMove(s)
    <2>1. /\ Along(g, h) /\ g.pc = "get" /\ h.pc = "update" /\ h.own = g.own
          /\ h.view = ViewOf(s) /\ h.event = g.event
      BY <1>14, GetFields DEF g
    <2>2. Rowed(h, ms)
      BY <1>0, <1>1, <2>1, AlongRowed
    <2>3. HandlerJoins(h, ms)
      BY <1>0, <2>1, SameHand
    <2> QED
      BY <2>2, <2>3
  <1>15. CASE UpdateMove(s)
    <2> DEFINE new == UpdateLifecycle(Latest(s, g.event), g.fresh)
    <2>1. /\ Along(g, h) /\ g.pc = "update" /\ h.pc = "store" /\ h.event = g.event
          /\ h.own = [g.own EXCEPT ![g.event] = new] /\ h.view = g.view
      BY <1>15, UpdateFields DEF g
    <2>2. new # Absent
      <3>1. g.fresh # Absent /\ RowTold(g.event, g.fresh, Told(g, message))
        BY <2>1 DEF ToldInv, HandlerTold, g
      <3>2. g.fresh.action \in Actions
        BY <1>3, <2>1, <3>1, ToldActs DEF g
      <3>3. new.action = g.fresh.action
        BY DEF UpdateLifecycle
      <3> QED
        BY <1>5, <3>2, <3>3
    <2> HIDE DEF new
    <2>3. h.own[h.event] # Absent /\ \A k \in Keys : g.own[k] # Absent => h.own[k] # Absent
      BY <1>0, <1>3, <2>1, <2>2
    <2>4. Rowed(h, ms)
      BY <1>0, <2>1, <2>3, AlongRowed
    <2>5. HandlerJoins(h, ms)
      BY <1>0, <2>1, SameHand
    <2> QED
      BY <2>4, <2>5
  <1>16. CASE StoreMove(s)
    <2> DEFINE w == Written(s)
    <2>1. /\ g.pc = "store" /\ h.pc = "segment" /\ h.rows = g.rows \cup {w}
          /\ h.own = g.own /\ h.view = g.view /\ h.began = g.began
      BY <1>16, StoreFields DEF g
    <2>2. w.stanza = g.stanza /\ w.segment = g.segment /\ w.event = g.event
          /\ Hand(g).event = g.event
      BY DEF Written, Hand, g
    <2>3. RequestOf(w) = RequestOf(Hand(g))
      BY <2>2 DEF RequestOf, Hand
    <2> HIDE DEF w
    <2>4. w \notin g.rows
      <3>1. {q.segment : q \in g.rows} = {i \in Loadables(g.stanza) : i < g.segment}
        BY <1>0, <2>1 DEF Underway, InTx, AtRequest
      <3>2. g.segment \in Nat
        BY <1>0 DEF HandlerRec
      <3>3. g.segment \notin {q.segment : q \in g.rows}
        BY <3>1, <3>2
      <3> QED
        BY <2>2, <3>3
    <2>5. Rowed(h, ms)
      BY <1>0, <2>1, <2>2 DEF Rowed
    <2>6. g.began \in Nat
      BY <1>0 DEF HandlerRec
    <2>7. Joins(w, RequestOf(w), h.began, ms, ms \cup (h.rows \ {w}))
      <3>1. Joins(Hand(g), RequestOf(w), g.began, ms, ms \cup g.rows)
        BY <1>0, <2>1, <2>3 DEF HandlerJoins
      <3>2. g.rows \subseteq h.rows \ {w}
        BY <2>1, <2>4
      <3> QED
        BY <2>1, <2>2, <3>1, <3>2 DEF Joins
    <2>8. ASSUME NEW n \in g.rows
          PROVE  Joins(n, RequestOf(n), h.began, ms, ms \cup (h.rows \ {n}))
      <3>1. Joins(n, RequestOf(n), g.began, ms, ms \cup (g.rows \ {n}))
        BY <1>0 DEF HandlerJoins
      <3>2. ms \cup (g.rows \ {n}) \subseteq ms \cup (h.rows \ {n})
        BY <2>1
      <3> QED
        BY <2>1, <2>6, <3>1, <3>2, JoinsGrow
    <2> QED
      BY <2>1, <2>5, <2>7, <2>8 DEF HandlerJoins
  <1> QED
    BY <1>6, <1>7, <1>8, <1>9, <1>10, <1>11, <1>12, <1>13, <1>14, <1>15, <1>16
       DEF HandlerMove, EventMove

LEMMA KeptJoins ==
  ASSUME JoinInv, Kept
  PROVE  Dated' /\ ContinuationsJoin'
  <1>1. env' = env /\ message' = message /\ event' = event /\ commits' = commits
    BY DEF Kept
  <1>2. Continuations' = Continuations /\ \A m : RequestOf(m)' = RequestOf(m)
    BY <1>1, EnvStays DEF Continuations
  <1>3. Dated'
    BY <1>1 DEF JoinInv, Dated
  <1>4. ContinuationsJoin'
    BY <1>1, <1>2 DEF JoinInv, ContinuationsJoin
  <1> QED
    BY <1>3, <1>4

(* The handlers that do not move. *)
LEMMA OthersJoin ==
  ASSUME Shape, JoinInv, env' = env, NEW t \in Sessions,
         handler'[t] = handler[t] \/ handler'[t] = Idle, message \subseteq message',
         \A m \in message' : m \in message \/ m.stored = commits + 1
  PROVE  (Rowed(handler[t], message) /\ HandlerJoins(handler[t], message))'
  <1>1. PICK g : g = handler'[t]
    OBVIOUS
  <1>2. PICK ms : ms = message'
    OBVIOUS
  <1>3. Rowed(g, ms) /\ HandlerJoins(g, ms)
    <2>1. CASE g = Idle
      BY <2>1, IdleJoins
    <2>2. CASE g = handler[t]
      <3>1. g \in HandlerRec /\ Placed(g, commits) /\ commits \in Nat
        BY <2>2, AtHand DEF Shape
      <3>2. CASE g.pc = "idle"
        <4>1. g.pc \notin AtRequest /\ g.rows = {} /\ g.view = None
          BY <3>1, <3>2 DEF Placed, InTx, AtRequest
        <4> QED
          BY <4>1, OpenJoins
      <3>3. CASE g.pc # "idle"
        <4>1. g.began <= commits /\ g.began \in Nat
          BY <3>1, <3>3 DEF Placed, HandlerRec
        <4>2. \A m \in ms : m \in message \/ ~(m.stored <= g.began)
          BY <1>2, <3>1, <4>1
        <4>3. Rowed(g, message) /\ HandlerJoins(g, message)
          BY <2>2 DEF JoinInv
        <4> QED
          BY <1>2, <3>1, <4>2, <4>3, HandlerGrows
      <3> QED
        BY <3>2, <3>3
    <2> QED
      BY <1>1, <2>1, <2>2
  <1>4. Rowed(g, ms)' /\ HandlerJoins(g, ms)'
    BY <1>3, JoinsStay
  <1> QED
    BY <1>1, <1>2, <1>4

LEMMA MoveJoins ==
  ASSUME Shape, WholeInv, ToldInv, JoinInv, NEW s \in Sessions, HandlerMove(s)
  PROVE  JoinInv'
  <1>1. Kept /\ \A t \in Sessions \ {s} : handler'[t] = handler[t]
    BY MoveIsTo
  <1>2. Dated' /\ ContinuationsJoin'
    BY <1>1, KeptJoins
  <1>3. (Rowed(handler[s], message) /\ HandlerJoins(handler[s], message))'
    <2>1. PICK h : h = handler'[s]
      OBVIOUS
    <2>2. PICK ms : ms = message
      OBVIOUS
    <2>3. Rowed(h, ms) /\ HandlerJoins(h, ms)
      BY <2>1, <2>2, HandJoins
    <2>4. Rowed(h, ms)' /\ HandlerJoins(h, ms)'
      BY <1>1, <2>3, JoinsStay DEF Kept
    <2> QED
      BY <1>1, <2>1, <2>2, <2>4 DEF Kept
  <1>4. ASSUME NEW t \in Sessions \ {s}
        PROVE  (Rowed(handler[t], message) /\ HandlerJoins(handler[t], message))'
    BY <1>1, OthersJoin DEF Kept
  <1> QED
    BY <1>2, <1>3, <1>4 DEF JoinInv

LEMMA CommitJoins ==
  ASSUME Shape, WholeInv, ToldInv, JoinInv, NEW s \in Sessions, CommitStep(s)
  PROVE  JoinInv'
  <1> DEFINE h == handler[s]
  <1>0. /\ h \in HandlerRec /\ Placed(h, commits) /\ h.pc = "commit" /\ commits \in Nat
        /\ Rowed(h, message) /\ HandlerJoins(h, message) /\ Underway(h, source)
    BY AtHand DEF CommitStep, Shape, JoinInv, WholeInv
  <1>1. /\ env' = env /\ event' = [k \in Keys |-> Latest(s, k)] /\ commits' = commits + 1
        /\ handler'[s] = Idle /\ \A t \in Sessions \ {s} : handler'[t] = handler[t]
    BY DEF CommitStep, Committed, Shape
  <1>2. /\ message \subseteq message'
        /\ \A m \in message' : m \notin message => \E r \in h.rows :
             /\ m.stanza = r.stanza /\ m.segment = r.segment /\ m.event = r.event
             /\ m.began = r.began /\ m.stored = commits + 1
        /\ \A r \in h.rows : \E m \in message' :
             /\ m.stanza = r.stanza /\ m.segment = r.segment /\ m.event = r.event
             /\ m.stored = commits + 1
    BY Stamped
  <1>3. /\ h.began \in Nat /\ h.began <= commits
        /\ \A r \in h.rows : r.began = h.began /\ r.event \in Keys \cup {None}
        /\ \A q \in h.rows : \A r \in h.rows : q.segment = r.segment => q = r
    BY <1>0 DEF Placed, HandlerRec, MessageRec, Underway, InTx
  <1>4. \A m \in message : /\ m.stored \in Nat /\ m.began \in Nat
                           /\ m.stored <= commits /\ m.began <= commits
                           /\ m.event \in Keys \cup {None}
                           /\ m.event # None => event[m.event] # Absent
    BY DEF Shape, MessageRec, JoinInv, Dated
  <1>5. \A k \in Keys : event[k] # Absent \/ h.own[k] # Absent => event'[k] # Absent
    BY <1>1 DEF Latest
  <1>6. \A r \in h.rows : r.event # None => h.own[r.event] # Absent
    BY <1>0 DEF Rowed
  <1>7. \A m : RequestOf(m)' = RequestOf(m)
    BY <1>1, EnvStays
  <1> HIDE DEF h
  <1>8. Dated'
    <2>1. ASSUME NEW m \in message'
          PROVE  /\ m.stored <= commits + 1 /\ m.began <= commits + 1
                 /\ m.event # None => event'[m.event] # Absent
      <3>1. CASE m \in message
        <4>1. m.stored <= commits + 1 /\ m.began <= commits + 1
          BY <1>0, <1>4, <3>1
        <4>2. m.event # None => event'[m.event] # Absent
          BY <1>4, <1>5, <3>1
        <4> QED
          BY <4>1, <4>2
      <3>2. CASE m \notin message
        BY <1>0, <1>2, <1>3, <1>5, <1>6, <3>2
      <3> QED
        BY <3>1, <3>2
    <2> QED
      BY <1>1, <2>1 DEF Dated
  <1>9. ASSUME NEW n \in message', n.event # None, RequestOf(n).vtec.begins = None,
               NEW m \in message', m.event # None, m.event[1] = n.event[1],
               m.stored <= n.began,
               YearOf(RequestOf(n).issued) \in {m.event[2], m.event[2] + 1}
        PROVE  \/ n.event = m.event
               \/ n.event[2] > m.event[2] /\ \E x \in message' \ {n} : x.event = n.event
    <2>1. m \in message
      <3>1. n.began \in Nat /\ n.began <= commits
        BY <1>2, <1>3, <1>4
      <3>2. m.stored # commits + 1
        BY <1>0, <1>9, <3>1
      <3> QED
        BY <1>2, <3>2
    <2>2. CASE n \in message
      <3>1. n \in Continuations
        BY <1>9, <2>2 DEF Continuations
      <3>2. \/ n.event = m.event
            \/ n.event[2] > m.event[2] /\ \E x \in message \ {n} : x.event = n.event
        BY <1>9, <2>1, <3>1 DEF JoinInv, ContinuationsJoin
      <3> QED
        BY <1>2, <3>2
    <2>3. CASE n \notin message
      <3>1. PICK r \in h.rows : /\ n.stanza = r.stanza /\ n.segment = r.segment
                                /\ n.event = r.event /\ n.began = r.began
        BY <1>2, <2>3
      <3>2. RequestOf(r) = RequestOf(n)
        BY <3>1 DEF RequestOf
      <3>3. Joins(r, RequestOf(r), h.began, message, message \cup (h.rows \ {r}))
        BY <1>0, <3>1 DEF HandlerJoins
      <3>4. \/ n.event = m.event
            \/ /\ n.event[2] > m.event[2]
               /\ \E x \in message \cup (h.rows \ {r}) : x.event = n.event
        BY <1>3, <1>9, <2>1, <3>1, <3>2, <3>3 DEF Joins
      <3>5. ASSUME NEW x \in h.rows \ {r} PROVE \E y \in message' \ {n} : y.event = x.event
        <4>1. PICK y \in message' : y.segment = x.segment /\ y.event = x.event
          BY <1>2
        <4>2. x.segment # r.segment
          BY <1>3, <3>1, <3>5
        <4> QED
          BY <3>1, <4>1, <4>2
      <3>6. ASSUME NEW x \in message PROVE x \in message' \ {n}
        BY <1>2, <2>3
      <3> QED
        BY <3>4, <3>5, <3>6
    <2> QED
      BY <2>2, <2>3
  <1>10. ContinuationsJoin'
    BY <1>7, <1>9 DEF ContinuationsJoin, Continuations
  <1>11. ASSUME NEW t \in Sessions
         PROVE  (Rowed(handler[t], message) /\ HandlerJoins(handler[t], message))'
    BY <1>1, <1>2, OthersJoin
  <1> QED
    BY <1>8, <1>10, <1>11 DEF JoinInv

LEMMA JoinNext == ASSUME Shape, WholeInv, ToldInv, JoinInv, [Next]_vars PROVE JoinInv'
  <1>1. CASE Quiet \/ AllGone \/ \E s \in Sessions : Gone(s)
    <2>1. Kept /\ \A s \in Sessions : handler'[s] = handler[s] \/ handler'[s] = Idle
      BY <1>1 DEF Quiet, AllGone, Gone, Shape
    <2>2. Dated' /\ ContinuationsJoin'
      BY <2>1, KeptJoins
    <2>3. ASSUME NEW t \in Sessions
          PROVE  (Rowed(handler[t], message) /\ HandlerJoins(handler[t], message))'
      BY <2>1, OthersJoin DEF Kept
    <2> QED
      BY <2>2, <2>3 DEF JoinInv
  <1>2. ASSUME NEW s \in Sessions, CommitStep(s) \/ HandlerMove(s) PROVE JoinInv'
    BY <1>2, CommitJoins, MoveJoins
  <1> QED
    BY <1>1, <1>2, NextCases

LEMMA JoinInit == ASSUME Init PROVE JoinInv
  BY IdleJoins DEF Init, JoinInv, Dated, ContinuationsJoin, Continuations

(* A continuation opens no event beside one that has messages from before  *)
(* its handler began, over the turn of the year too.                       *)
THEOREM ContinuationsFindTheirEvent == Spec => []ContinuationsJoin
  <1>1. Shape /\ WholeInv /\ ToldInv /\ JoinInv /\ [Next]_vars => JoinInv'
    BY JoinNext
  <1>2. JoinInv => ContinuationsJoin
    BY DEF JoinInv
  <1> QED
    BY <1>1, <1>2, JoinInit, ShapeInvariance, WholeInvariance, ToldInvariance, PTL DEF Spec

-----------------------------------------------------------------------------
(* The day of issue.                                                       *)

(* Two months begin four weeks apart or more. *)
LEMMA MonthsApart ==
  ASSUME NEW i \in 1 .. Len(MonthStart), NEW j \in 1 .. Len(MonthStart), i < j
  PROVE  MonthStart[j] >= MonthStart[i] + 28
  <1> DEFINE S == {k \in 1 .. Len(MonthStart) : i < k /\ MonthStart[k] < MonthStart[i] + 28}
  <1>1. \A k \in 1 .. Len(MonthStart) : MonthStart[k] \in Nat
    BY CalendarAssumption
  <1>2. SUFFICES ASSUME S # {} PROVE FALSE
    BY <1>1
  <1>3. S \in SUBSET Nat
    OBVIOUS
  <1>4. PICK k \in S : \A l \in S : k <= l
    <2> HIDE DEF S
    <2> QED
      BY <1>2, <1>3, LeastIn
  <1>5. /\ k \in 1 .. Len(MonthStart) /\ i < k /\ MonthStart[k] < MonthStart[i] + 28
        /\ \A l \in 1 .. Len(MonthStart) : i < l /\ MonthStart[l] < MonthStart[i] + 28 => k <= l
    BY <1>4
  <1> HIDE DEF S
  <1>6. Len(MonthStart) \in Nat
    BY CalendarAssumption
  <1>7. k - 1 \in 1 .. (Len(MonthStart) - 1) /\ k - 1 \in 1 .. Len(MonthStart) /\ (k - 1) + 1 = k
    BY <1>5, <1>6
  <1>8. MonthStart[k] - MonthStart[k - 1] \in 28 .. 31
    <2>1. \A m \in 1 .. (Len(MonthStart) - 1) : MonthStart[m + 1] - MonthStart[m] \in 28 .. 31
      BY CalendarAssumption
    <2>2. MonthStart[(k - 1) + 1] - MonthStart[k - 1] \in 28 .. 31
      BY <1>7, <2>1
    <2> QED
      BY <1>7, <2>2
  <1>9. MonthStart[k] \in Nat /\ MonthStart[k - 1] \in Nat /\ MonthStart[i] \in Nat
    BY <1>1, <1>5, <1>7
  <1>10. MonthStart[k - 1] < MonthStart[i] + 28
    <2>1. \A x \in Nat : \A y \in Nat : \A z \in Nat : y - x \in 28 .. 31 /\ y < z + 28 => x < z + 28
      OBVIOUS
    <2> QED
      BY <1>5, <1>8, <1>9, <2>1
  <1>11. k - 1 # i
    <2> SUFFICES ASSUME k - 1 = i PROVE FALSE
      OBVIOUS
    <2>1. MonthStart[k] - MonthStart[i] >= 28
      BY <1>8, <1>9
    <2> QED
      BY <1>5, <1>9, <2>1
  <1>12. i < k - 1
    BY <1>5, <1>11
  <1>13. k <= k - 1
    BY <1>5, <1>7, <1>10, <1>12
  <1> QED
    BY <1>5, <1>13

(* Every day is of a month. *)
LEMMA MonthIn ==
  ASSUME NEW d \in Days
  PROVE  /\ MonthOf(d) \in Months
         /\ MonthStart[MonthOf(d)] <= d /\ d < MonthStart[MonthOf(d) + 1]
         /\ d \in Nat
  <1> DEFINE S == {k \in 1 .. Len(MonthStart) : d < MonthStart[k]}
             N == Len(MonthStart)
  <1>1. \A k \in 1 .. N : MonthStart[k] \in Nat
    BY CalendarAssumption
  <1>2. N \in Nat /\ N > 1
    BY CalendarAssumption
  <1>3. d \in Nat /\ MonthStart[1] <= d /\ d < MonthStart[N]
    BY <1>1, <1>2 DEF Days
  <1>4. S \in SUBSET Nat /\ N \in S
    BY <1>2, <1>3
  <1>5. PICK k \in S : \A l \in S : k <= l
    <2> HIDE DEF S
    <2> QED
      BY <1>4, LeastIn
  <1>6. k - 1 \in Months
    <2>1. k # 1 /\ k \in 1 .. N
      BY <1>1, <1>2, <1>3
    <2> QED
      BY <1>2, <2>1 DEF Months
  <1>7. d \in MonthStart[k - 1] .. (MonthStart[(k - 1) + 1] - 1)
    <2>1. k - 1 \in 1 .. N /\ k - 1 \notin S
      BY <1>2, <1>5, <1>6 DEF Months
    <2> QED
      BY <1>1, <1>3, <2>1
  <1>8. \E m \in Months : d \in MonthStart[m] .. (MonthStart[m + 1] - 1)
    BY <1>6, <1>7
  <1> DEFINE m == MonthOf(d)
  <1>9. m \in Months /\ d \in MonthStart[m] .. (MonthStart[m + 1] - 1)
    BY <1>8 DEF MonthOf
  <1>10. MonthStart[m] \in Nat /\ MonthStart[m + 1] \in Nat
    BY <1>1, <1>2, <1>9 DEF Months
  <1> QED
    BY <1>3, <1>9, <1>10

(* Within 13 days of the reference, the day of the month is enough. *)
LEMMA ResolvesIssue ==
  ASSUME NEW d \in Days, NEW reference \in Days, Distance(d, reference) <= 13
  PROVE  ResolveDay(DayOfMonth(d), reference) = d
  <1> DEFINE m == MonthOf(d)
             r == MonthOf(reference)
             day == DayOfMonth(d)
             all == Candidates(day, reference)
             N == Len(MonthStart)
  <1>1. /\ m \in Months /\ MonthStart[m] <= d /\ d < MonthStart[m + 1] /\ d \in Nat
        /\ r \in Months /\ MonthStart[r] <= reference /\ reference < MonthStart[r + 1]
        /\ reference \in Nat
    BY MonthIn
  <1>2. N \in Nat /\ N > 1 /\ \A k \in 1 .. N : MonthStart[k] \in Nat
    BY CalendarAssumption
  <1>3. day = d - MonthStart[m] + 1
    BY DEF DayOfMonth
  <1> HIDE DEF m, r, day
  <1>4. /\ m \in 1 .. (N - 1) /\ m \in 1 .. N /\ m + 1 \in 1 .. N
        /\ r \in 1 .. (N - 1) /\ r \in 1 .. N /\ r + 1 \in 1 .. N
    BY <1>1, <1>2 DEF Months
  <1>5. /\ MonthStart[m] \in Nat /\ MonthStart[m + 1] \in Nat
        /\ MonthStart[r] \in Nat /\ MonthStart[r + 1] \in Nat
    BY <1>2, <1>4
  <1>6. m \in (r - 1) .. (r + 1)
    <2>1. CASE m > r + 1
      <3>1. MonthStart[m] >= MonthStart[r + 1] + 28
        BY <1>4, <2>1, MonthsApart
      <3> QED
        BY <1>1, <1>5, <3>1 DEF Distance
    <2>2. CASE m < r - 1
      <3>1. m + 1 < r
        BY <1>4, <2>2
      <3>2. MonthStart[r] >= MonthStart[m + 1] + 28
        BY <1>4, <3>1, MonthsApart
      <3> QED
        BY <1>1, <1>5, <3>2 DEF Distance
    <2> QED
      BY <1>4, <2>1, <2>2
  <1>7. d \in all
    <2>1. day <= MonthLength(m) /\ d = MonthStart[m] + day - 1
      BY <1>1, <1>3, <1>5 DEF MonthLength
    <2> QED
      BY <1>1, <1>6, <2>1 DEF Candidates, r
  <1>8. ASSUME NEW e \in all, e # d
        PROVE  Distance(d, reference) < Distance(e, reference)
    <2>1. PICK n \in Months : e = MonthStart[n] + day - 1
      BY DEF Candidates
    <2>2. n \in 1 .. N /\ MonthStart[n] \in Nat
      BY <1>2 DEF Months
    <2>3. e = d + (MonthStart[n] - MonthStart[m])
      <3> DEFINE x == MonthStart[n]
                 y == MonthStart[m]
      <3>1. e = x + day - 1 /\ day = d - y + 1 /\ x \in Nat /\ y \in Nat /\ d \in Nat
        <4> HIDE DEF all, N
        <4> QED
          BY <1>1, <1>3, <1>5, <2>1, <2>2
      <3> HIDE DEF x, y, all
      <3>2. e = d + (x - y)
        BY <3>1
      <3> QED
        BY <3>2 DEF x, y
    <2>4. n # m
      BY <1>1, <1>5, <1>8, <2>3, <2>1, <1>3
    <2>5. MonthStart[n] >= MonthStart[m] + 28 \/ MonthStart[m] >= MonthStart[n] + 28
      BY <1>4, <2>2, <2>4, MonthsApart
    <2>6. e \in Int
      BY <1>1, <1>3, <1>5, <2>1, <2>2
    <2>7. e >= d + 28 \/ d >= e + 28
      <3> DEFINE x == MonthStart[n]
                 y == MonthStart[m]
      <3>1. e = d + (x - y) /\ x \in Nat /\ y \in Nat /\ d \in Nat /\ (x >= y + 28 \/ y >= x + 28)
        BY <1>1, <1>5, <2>2, <2>3, <2>5
      <3> HIDE DEF x, y, all
      <3>2. e >= d + 28 \/ d >= e + 28
        BY <3>1
      <3> QED
        BY <3>2
    <2> QED
      BY <1>1, <2>6, <2>7 DEF Distance
  <1>9. Distance(d, reference) \in Int
    BY <1>1 DEF Distance
  <1>10. \A e \in all : Distance(e, reference) \in Int
    <2>1. ASSUME NEW e \in all PROVE e \in Int
      <3>1. PICK n \in Months : e = MonthStart[n] + day - 1
        BY DEF Candidates
      <3>2. n \in 1 .. N
        BY <1>2 DEF Months
      <3>3. MonthStart[n] \in Nat
        BY <1>2, <3>2
      <3> QED
        BY <1>1, <1>3, <1>5, <3>1, <3>3
    <2> QED
      BY <1>1, <2>1 DEF Distance
  <1> HIDE DEF all
  <1> DEFINE Best(x) == \A e \in all :
               \/ Distance(x, reference) < Distance(e, reference)
               \/ Distance(x, reference) = Distance(e, reference) /\ x >= e
  <1>11. Best(d)
    BY <1>1, <1>8
  <1>12. \A x \in all : Best(x) => x = d
    BY <1>7, <1>8, <1>9, <1>10
  <1>13. (CHOOSE x \in all : Best(x)) = d
    <2> HIDE DEF Best
    <2> QED
      BY <1>7, <1>11, <1>12
  <1>14. ResolveDay(day, reference) = CHOOSE x \in all : Best(x)
    <2>1. all # {}
      BY <1>7
    <2> QED
      BY <2>1 DEF ResolveDay, all
  <1> QED
    BY <1>13, <1>14 DEF day

(* Whatever the bulletin looks like, its day is that of the first line. *)
LEMMA ParseIssued ==
  ASSUME NEW b, NEW reference
  PROVE  Parse(b, reference).issued = WMOHeader(b, Trim(b, 1), reference)
  <1> DEFINE awips == Trim(b, After(b, Trim(b, 1)))
             body == Trim(b, After(b, awips))
  <1>1. CASE Kind(b, body) = "eof"
    BY <1>1 DEF Parse, Identifier, Body, body, awips
  <1>2. CASE Kind(b, body) \notin {"eof", "ugc"}
    BY <1>2 DEF Parse, Identifier, Body, body, awips
  <1>3. CASE Kind(b, body) = "ugc"
    BY <1>3 DEF Parse, Identifier, Body, body, awips
  <1> QED
    BY <1>1, <1>2, <1>3

(* The requests of a stanza have the day it was issued. *)
Punctual(x) ==
  Kind(x.text, Trim(x.text, 1)) = "wmo" =>
    \A i \in DOMAIN x.requests : x.requests[i].issued = x.issued

LEMMA ReceivedPunctual ==
  ASSUME NEW n \in DOMAIN Envelopes
  PROVE  Punctual(Received(Envelopes[n]))
  <1> DEFINE envelope == Envelopes[n]
             text == Decode(Delivered(envelope.payload))
             header == Trim(text, 1)
             reference == Coalesce(envelope.issue, envelope.seen)
             parsed == Parse(text, reference)
             x == Received(envelope)
  <1>1. x.text = text /\ x.issued = envelope.issued /\ x.requests = Normalize(parsed, envelope.seen)
    BY DEF Received, Stanza
  <1>2. reference \in Days
    BY IngestAssumption DEF Coalesce
  <1>3. ASSUME Kind(text, header) = "wmo" PROVE parsed.issued = envelope.issued
    <2>1. /\ envelope.issued \in Days /\ text[header].at = DayOfMonth(envelope.issued)
          /\ Distance(envelope.issued, reference) <= 13
      BY <1>3, PunctualAssumption
    <2>2. parsed.issued = ResolveDay(text[header].at, reference)
      BY <1>3, ParseIssued DEF WMOHeader
    <2> HIDE DEF text, header, reference, parsed, envelope
    <2> QED
      BY <1>2, <2>1, <2>2, ResolvesIssue
  <1>4. ASSUME Kind(text, header) = "wmo" PROVE envelope.issued # None
    <2>1. envelope.issued \in Days
      BY <1>4, PunctualAssumption
    <2> HIDE DEF envelope
    <2>2. envelope.issued \in Nat
      BY <2>1, MonthIn
    <2> QED
      BY <2>2, IngestAssumption
  <1> HIDE DEF text, header, reference, parsed, envelope
  <1>5. \A i \in DOMAIN x.requests :
          x.requests[i].issued = IF parsed.issued = None THEN envelope.seen ELSE parsed.issued
    <2> HIDE DEF x
    <2> QED
      BY <1>1 DEF Normalize
  <1> HIDE DEF x
  <1> QED
    BY <1>1, <1>3, <1>4, <1>5 DEF Punctual, x, envelope, header

(* Every message has the day its bulletin was issued. *)
THEOREM IssuesOnTime == Spec => []IssuedOnTime
  <1> DEFINE Came == \A e \in Stanzas : Punctual(env[e])
  <1>1. Init => Came
    <2> SUFFICES ASSUME Init PROVE Came
      OBVIOUS
    <2>1. PICK p \in Programmes : env = [e \in Stanzas |-> Received(Envelopes[p[e]])]
      BY DEF Init
    <2>2. \A e \in Stanzas : p[e] \in DOMAIN Envelopes
      BY IngestAssumption
    <2> QED
      BY <2>1, <2>2, ReceivedPunctual
  <1>2. Came /\ [Next]_vars => Came'
    BY NextEnv
  <1>3. Came /\ Shape => IssuedOnTime
    <2> SUFFICES ASSUME Came, Shape, NEW m \in message,
                        Kind(Text(m.stanza), Trim(Text(m.stanza), 1)) = "wmo"
                 PROVE  RequestOf(m).issued = env[m.stanza].issued
      BY DEF IssuedOnTime
    <2>1. m.stanza \in Stanzas /\ m.segment \in DOMAIN Requests(m.stanza)
      BY DEF Shape, RowGood, MessageRec
    <2>2. Punctual(env[m.stanza])
      BY <2>1
    <2>3. \A i \in DOMAIN Requests(m.stanza) : Requests(m.stanza)[i].issued = env[m.stanza].issued
      BY <2>2 DEF Punctual, Text, Requests
    <2> QED
      BY <2>1, <2>3 DEF RequestOf
  <1> HIDE DEF Came
  <1> QED
    BY <1>1, <1>2, <1>3, ShapeInvariance, PTL DEF Spec

-----------------------------------------------------------------------------
(* What belongs to a segment.                                              *)

LEMMA JoinedIn ==
  ASSUME NEW T, NEW pieces \in Seq(Seq(T))
  PROVE  Joined(pieces) \in Seq(T)
  <1> DEFINE N == Len(pieces)
             Up(f, k) == [n \in 0 .. k |-> IF n = 0 THEN <<>> ELSE f[n - 1] \o pieces[n]]
             Some(k) == \E f : f = Up(f, k) /\ \A n \in 0 .. k : f[n] \in Seq(T)
             Bad == {k \in 0 .. N : ~Some(k)}
  <1>1. N \in Nat /\ \A n \in 1 .. N : pieces[n] \in Seq(T)
    OBVIOUS
  <1> HIDE DEF N
  <1>2. Bad = {}
    <2> SUFFICES ASSUME Bad # {} PROVE FALSE
      OBVIOUS
    <2>1. Bad \in SUBSET Nat
      <3> HIDE DEF Some
      <3> QED
        BY <1>1
    <2>2. PICK k \in Bad : \A j \in Bad : k <= j
      <3> HIDE DEF Bad
      <3> QED
        BY <2>1, LeastIn
    <2>3. k \in 0 .. N
      OBVIOUS
    <2>4. CASE k = 0
      <3> DEFINE f == [n \in 0 .. 0 |-> <<>>]
      <3>1. f = Up(f, 0) /\ \A n \in 0 .. 0 : f[n] \in Seq(T)
        OBVIOUS
      <3> QED
        BY <2>4, <3>1
    <2>5. CASE k # 0
      <3>1. k - 1 \in 0 .. N /\ ~(k <= k - 1)
        BY <1>1, <2>3, <2>5
      <3>2. k - 1 \notin Bad
        BY <2>2, <3>1
      <3>3. PICK f : f = Up(f, k - 1) /\ \A n \in 0 .. (k - 1) : f[n] \in Seq(T)
        BY <3>1, <3>2
      <3> DEFINE g == [n \in 0 .. k |-> IF n = k THEN f[k - 1] \o pieces[k] ELSE f[n]]
      <3>4. \A n \in 0 .. (k - 1) : g[n] = f[n]
        BY <1>1, <2>3
      <3>5. \A n \in 0 .. (k - 1) : f[n] = IF n = 0 THEN <<>> ELSE f[n - 1] \o pieces[n]
        BY <3>3
      <3>6. ASSUME NEW n \in 0 .. k
            PROVE  g[n] = IF n = 0 THEN <<>> ELSE g[n - 1] \o pieces[n]
        <4>1. CASE n = k
          <5>1. g[n] = f[k - 1] \o pieces[k]
            BY <4>1
          <5>2. g[n - 1] = f[k - 1]
            BY <2>3, <2>5, <3>4, <4>1
          <5> QED
            BY <2>5, <4>1, <5>1, <5>2
        <4>2. CASE n # k
          <5>1. n \in 0 .. (k - 1)
            BY <2>3, <4>2
          <5>2. n # 0 => n - 1 \in 0 .. (k - 1)
            BY <2>3, <5>1
          <5> HIDE DEF g
          <5> QED
            BY <3>4, <3>5, <5>1, <5>2
        <4> QED
          BY <4>1, <4>2
      <3>7. g = Up(g, k)
        BY <3>6
      <3>8. \A n \in 0 .. k : g[n] \in Seq(T)
        <4>1. f[k - 1] \in Seq(T) /\ pieces[k] \in Seq(T)
          BY <1>1, <2>3, <2>5, <3>1, <3>3
        <4>2. f[k - 1] \o pieces[k] \in Seq(T)
          BY <4>1
        <4>3. \A n \in 0 .. k : n # k => n \in 0 .. (k - 1)
          BY <2>3
        <4> QED
          BY <3>3, <4>2, <4>3
      <3> HIDE DEF g, Up
      <3> QED
        BY <3>7, <3>8
    <2> QED
      BY <2>4, <2>5
  <1> DEFINE UpTo == CHOOSE f : f = Up(f, N)
  <1>3. Joined(pieces) = UpTo[N]
    BY DEF Joined, N
  <1>4. UpTo = Up(UpTo, N)
    <2> HIDE DEF Up
    <2>1. \E f : f = Up(f, N)
      <3> HIDE DEF Some
      <3>1. N \in 0 .. N /\ N \notin Bad
        BY <1>1, <1>2
      <3>2. Some(N)
        BY <3>1
      <3> QED
        BY <3>2 DEF Some
    <2> QED
      BY <2>1
  <1>5. \A n \in 0 .. N : UpTo[n] = IF n = 0 THEN <<>> ELSE UpTo[n - 1] \o pieces[n]
    <2> HIDE DEF UpTo
    <2> QED
      BY <1>4
  <1> HIDE DEF UpTo, Up, Some, Bad
  <1> DEFINE Off == {n \in 0 .. N : UpTo[n] \notin Seq(T)}
  <1>6. Off = {}
    <2> SUFFICES ASSUME Off # {} PROVE FALSE
      OBVIOUS
    <2>1. Off \in SUBSET Nat
      BY <1>1
    <2>2. PICK n \in Off : \A j \in Off : n <= j
      <3> HIDE DEF Off
      <3> QED
        BY <2>1, LeastIn
    <2>3. n # 0
      <3>1. UpTo[0] = <<>>
        BY <1>1, <1>5
      <3>2. <<>> \in Seq(T)
        OBVIOUS
      <3> QED
        BY <3>1, <3>2
    <2>4. n - 1 \in 0 .. N /\ ~(n <= n - 1) /\ n \in 1 .. N
      BY <1>1, <2>3
    <2>5. UpTo[n - 1] \in Seq(T)
      BY <2>2, <2>4
    <2>6. UpTo[n] = UpTo[n - 1] \o pieces[n]
      BY <1>5, <2>3
    <2>7. UpTo[n] \in Seq(T)
      BY <1>1, <2>4, <2>5, <2>6
    <2> QED
      BY <2>7
  <1> QED
    BY <1>1, <1>3, <1>6

(* The points of a polygon are made of the numbers in the text. *)
LEMMA PointsIn ==
  ASSUME NEW T, NEW text \in Texts,
         \A i \in DOMAIN text : text[i].k \in {"latlon", "nums"} => text[i].nums \in Seq(T)
  PROVE  Points(text) \in Seq(T \X T)
  <1> DEFINE N == Len(text) + 1
             start == First(text, 1, {"latlon"})
             Stop(i) == /\ Kind(text, i) \notin {"nums", "blank"}
                        /\ \A j \in (start + 1) .. (i - 1) : Kind(text, j) \in {"nums", "blank"}
             stop == CHOOSE i \in (start + 1) .. (Len(text) + 1) : Stop(i)
             lines == [i \in 1 .. (stop - start) |->
                         IF Kind(text, start + i - 1) = "blank" THEN <<>>
                         ELSE text[start + i - 1].nums]
             fields == Joined(lines)
             Pair(i) == <<fields[2 * i - 1], fields[2 * i]>>
             pairs == [i \in 1 .. (Len(fields) \div 2) |->
                         IF Pair(i)[1] > 999 /\ Pair(i)[2] > 999 THEN <<Pair(i)>> ELSE <<>>]
  <1>1. Points(text) = IF start > Len(text) THEN <<>> ELSE Joined(pairs)
    BY DEF Points
  <1>2. N \in Nat /\ N = Len(text) + 1 /\ text \in Seq(Line(Etns)) /\ DOMAIN text = 1 .. (N - 1)
    BY DEF Texts
  <1> SUFFICES ASSUME ~(start > Len(text)) PROVE Joined(pairs) \in Seq(T \X T)
    BY <1>1
  <1>3. start \in 1 .. N /\ Kind(text, start) \in {"latlon", "eof"}
    BY <1>2, FirstIs
  <1>4. start \in DOMAIN text /\ text[start].k = "latlon"
    <2>1. start \in DOMAIN text
      BY <1>2, <1>3
    <2>2. text[start] \in Line(Etns)
      BY <1>2, <2>1
    <2> QED
      BY <1>3, <2>1, <2>2, LineKinds DEF Kind
  <1> HIDE DEF start
  <1>5. stop \in (start + 1) .. N /\ Stop(stop)
    <2>1. "eof" \notin {"nums", "blank"} /\ start + 1 \in Nat /\ start + 1 <= Len(text) + 1
      BY <1>2, <1>4
    <2>2. \E i \in (start + 1) .. (Len(text) + 1) : Stop(i)
      BY <1>2, <2>1, Stops
    <2> HIDE DEF Stop
    <2> QED
      BY <2>2
  <1> HIDE DEF stop
  <1>6. ASSUME NEW i \in 1 .. (stop - start) PROVE lines[i] \in Seq(T)
    <2> DEFINE p == start + i - 1
    <2>1. p \in start .. (stop - 1) /\ p \in DOMAIN text
      BY <1>2, <1>4, <1>5
    <2>2. p = start \/ p \in (start + 1) .. (stop - 1)
      BY <1>2, <1>4, <1>5, <2>1
    <2>3. text[p].k \in {"latlon", "nums", "blank"} /\ (text[p].k = "blank" <=> Kind(text, p) = "blank")
      BY <1>4, <1>5, <2>1, <2>2 DEF Kind
    <2>4. lines[i] = IF Kind(text, p) = "blank" THEN <<>> ELSE text[p].nums
      OBVIOUS
    <2> HIDE DEF p, lines
    <2> QED
      BY <2>1, <2>3, <2>4
  <1>7. lines \in Seq(Seq(T))
    <2>1. stop - start \in Nat
      BY <1>2, <1>4, <1>5
    <2>2. lines \in [1 .. (stop - start) -> Seq(T)]
      BY <1>6
    <2> HIDE DEF lines
    <2> QED
      BY <2>1, <2>2
  <1> HIDE DEF lines
  <1>8. fields \in Seq(T)
    BY <1>7, JoinedIn
  <1> HIDE DEF fields
  <1>9. Len(fields) \div 2 \in Nat
    BY <1>8
  <1>10. ASSUME NEW i \in 1 .. (Len(fields) \div 2) PROVE pairs[i] \in Seq(T \X T)
    <2>1. 2 * i - 1 \in 1 .. Len(fields) /\ 2 * i \in 1 .. Len(fields)
      BY <1>8
    <2>2. fields[2 * i - 1] \in T /\ fields[2 * i] \in T
      BY <1>8, <2>1
    <2>3. Pair(i) \in T \X T
      BY <2>2
    <2>4. pairs[i] \in {<<>>, <<Pair(i)>>}
      OBVIOUS
    <2> HIDE DEF pairs, Pair
    <2>5. <<Pair(i)>> \in Seq(T \X T) /\ <<>> \in Seq(T \X T)
      BY <2>3
    <2> QED
      BY <2>4, <2>5
  <1>11. pairs \in Seq(Seq(T \X T))
    <2> HIDE DEF Pair
    <2>1. pairs \in [1 .. (Len(fields) \div 2) -> Seq(T \X T)]
      BY <1>10, ZenonT(40)
    <2> HIDE DEF pairs
    <2> QED
      BY <1>9, <2>1
  <1> HIDE DEF pairs
  <1> QED
    BY <1>11, JoinedIn

LEMMA RingIn ==
  ASSUME NEW T, NEW points \in Seq(T)
  PROVE  Ring(points) \in Seq(T)
  <1>1. CASE Len(points) < 3 \/ points[1] = points[Len(points)]
    BY <1>1 DEF Ring
  <1>2. CASE ~(Len(points) < 3 \/ points[1] = points[Len(points)])
    <2>1. points[1] \in T
      BY <1>2
    <2> QED
      BY <1>2, <2>1 DEF Ring
  <1> QED
    BY <1>1, <1>2

(* The lines of a stretch without a terminator are between the same two.   *)
LEMMA Stretch ==
  ASSUME NEW b \in Texts, NEW n \in 1 .. (Len(b) + 1), NEW end \in Nat,
         \A j \in n .. (end - 1) : Kind(b, j) # "end"
  PROVE  \A j \in n .. (end - 1) :
           j \in DOMAIN b => b[j] \in Between(b, Cardinality(EndsBefore(b, n)) + 1)
  <1> SUFFICES ASSUME NEW j \in n .. (end - 1), j \in DOMAIN b
               PROVE  b[j] \in Between(b, Cardinality(EndsBefore(b, n)) + 1)
    OBVIOUS
  <1>1. EndsBefore(b, j) = EndsBefore(b, n)
    <2>1. ASSUME NEW x \in EndsOf(b), x < j PROVE x < n
      <3>1. x \in DOMAIN b /\ Kind(b, x) = "end" /\ x \in Nat
        BY <2>1 DEF EndsOf, Kind, Texts
      <3>2. ~(x \in n .. (end - 1))
        BY <3>1
      <3> QED
        BY <2>1, <3>1, <3>2
    <2>2. ASSUME NEW x \in EndsOf(b), x < n PROVE x < j
      BY <2>2 DEF EndsOf, Texts
    <2> QED
      BY <2>1, <2>2 DEF EndsBefore
  <1>2. Cardinality(EndsBefore(b, n)) \in Nat
    BY EndsFinite DEF Texts
  <1>3. Cardinality(EndsBefore(b, j)) = (Cardinality(EndsBefore(b, n)) + 1) - 1
    BY <1>1, <1>2
  <1> QED
    BY <1>3 DEF Between, Places, EndsBefore

(* A segment has what stands between two terminators of the text. *)
Owns(b, c, segment) ==
  /\ segment.codes \subseteq CodesIn(Between(b, c))
  /\ \A i \in DOMAIN segment.vtecs : segment.vtecs[i] \in Between(b, c)
  /\ segment.text \in Texts
  /\ \A i \in DOMAIN segment.text : segment.text[i] \in Between(b, c)

LEMMA SegmentOwns ==
  ASSUME NEW b \in Texts, NEW n \in 1 .. (Len(b) + 1), NEW end \in 1 .. (Len(b) + 1),
         \A j \in n .. (end - 1) : Kind(b, j) # "end",
         SegmentHeader(b, n).rest <= end,
         NEW rest \in n .. (Len(b) + 1), NEW stop \in 1 .. (Len(b) + 1),
         stop <= end \/ stop <= rest
  PROVE  Owns(b, Cardinality(EndsBefore(b, n)) + 1,
              Segment(b, [SegmentHeader(b, n) EXCEPT !.rest = rest], stop))
  <1> DEFINE header == SegmentHeader(b, n)
             x == Segment(b, [header EXCEPT !.rest = rest], stop)
             c == Cardinality(EndsBefore(b, n)) + 1
             ugc == Trim(b, n)
  <1>1. \A j \in n .. (end - 1) : j \in DOMAIN b => b[j] \in Between(b, c)
    BY Stretch
  <1>2. x.codes = header.codes /\ x.vtecs = header.vtecs /\ x.text = SubSeq(b, rest, stop - 1)
    <2>1. /\ [header EXCEPT !.rest = rest].codes = header.codes
          /\ [header EXCEPT !.rest = rest].vtecs = header.vtecs
          /\ [header EXCEPT !.rest = rest].rest = rest
      BY DEF SegmentHeader
    <2> QED
      BY <2>1 DEF Segment
  <1>3. /\ header.rest \in n .. (Len(b) + 1)
        /\ \A i \in DOMAIN header.vtecs :
             /\ i \in DOMAIN b /\ header.vtecs[i] = b[i]
             /\ i \in n .. (header.rest - 1)
        /\ IF Kind(b, ugc) = "ugc"
           THEN ugc < header.rest /\ header.codes = Codes(b[ugc].ranges)
           ELSE header.codes = {}
    BY HeaderIn DEF Texts
  <1>4. ugc \in n .. (Len(b) + 1)
    BY TrimIn DEF Texts
  <1>5. Len(b) \in Nat
    BY DEF Texts
  <1> HIDE DEF x, header, c, ugc
  <1>6. x.codes \subseteq CodesIn(Between(b, c))
    <2>1. CASE Kind(b, ugc) = "ugc"
      <3>1. ugc \in DOMAIN b /\ b[ugc].k = "ugc"
        BY <2>1 DEF Kind
      <3>2. ugc \in n .. (end - 1)
        BY <1>3, <1>4, <1>5, <2>1 DEF header
      <3>3. b[ugc] \in Between(b, c)
        BY <1>1, <3>1, <3>2
      <3> QED
        BY <1>2, <1>3, <2>1, <3>1, <3>3 DEF CodesIn
    <2>2. CASE Kind(b, ugc) # "ugc"
      BY <1>2, <1>3, <2>2
    <2> QED
      BY <2>1, <2>2
  <1>7. \A i \in DOMAIN x.vtecs : x.vtecs[i] \in Between(b, c)
    <2> SUFFICES ASSUME NEW i \in DOMAIN header.vtecs PROVE header.vtecs[i] \in Between(b, c)
      BY <1>2
    <2>1. i \in DOMAIN b /\ header.vtecs[i] = b[i] /\ i \in n .. (header.rest - 1)
      BY <1>3
    <2>2. i \in n .. (end - 1)
      BY <1>3, <1>5, <2>1 DEF header
    <2> QED
      BY <1>1, <2>1, <2>2
  <1>8. ASSUME NEW i \in DOMAIN x.text
        PROVE  rest + i - 1 \in DOMAIN b /\ rest + i - 1 \in rest .. (stop - 1) /\ x.text[i] = b[rest + i - 1]
    <2>1. x.text = SubSeq(b, rest, stop - 1) /\ b \in Seq(Line(Etns))
      BY <1>2 DEF Texts
    <2>2. i \in 1 .. (stop - rest) /\ x.text[i] = b[rest + i - 1]
      BY <1>5, <1>8, <2>1
    <2> QED
      BY <1>5, <2>1, <2>2
  <1>9. x.text \in Texts
    <2>1. SubSeq(b, rest, stop - 1) \in Seq(Line(Etns))
      BY <1>5 DEF Texts
    <2> QED
      BY <1>2, <2>1 DEF Texts
  <1>10. \A i \in DOMAIN x.text : x.text[i] \in Between(b, c)
    <2> SUFFICES ASSUME NEW i \in DOMAIN x.text PROVE x.text[i] \in Between(b, c)
      OBVIOUS
    <2>1. rest + i - 1 \in DOMAIN b /\ rest + i - 1 \in rest .. (stop - 1) /\ x.text[i] = b[rest + i - 1]
      BY <1>8
    <2>2. rest + i - 1 \in n .. (end - 1)
      BY <1>5, <2>1
    <2> QED
      BY <1>1, <2>1, <2>2
  <1> QED
    BY <1>6, <1>7, <1>9, <1>10 DEF Owns, x, header, c

LEMMA SegmentsOwn ==
  ASSUME NEW b \in Texts, NEW start \in 1 .. (Len(b) + 1)
  PROVE  \A i \in DOMAIN Segments(b, start).list :
           /\ Cardinality(EndsBefore(b, start)) + i \in 1 .. (Cardinality(EndsOf(b)) + 1)
           /\ Owns(b, Cardinality(EndsBefore(b, start)) + i, Segments(b, start).list[i])
  <1> DEFINE list == Segments(b, start).list
             before == Cardinality(EndsBefore(b, start))
  <1> SUFFICES ASSUME NEW i \in DOMAIN list
               PROVE  before + i \in 1 .. (Cardinality(EndsOf(b)) + 1) /\ Owns(b, before + i, list[i])
    OBVIOUS
  <1>1. Reads(b, start) /\ list = Walk(b)[start].list
    BY WalkReads, WalkIs
  <1>2. PICK m \in start .. Len(b) :
          /\ Terminator(b, m) <= Len(b) /\ list[i] = SegmentAt(b, m)
          /\ Cardinality(EndsBefore(b, m)) = before + i - 1
    BY <1>1 DEF Reads
  <1>3. m \in 1 .. Len(b) /\ Len(b) \in Nat
    BY DEF Texts
  <1> DEFINE header == SegmentHeader(b, m)
             stop == Terminator(b, m)
  <1>4. /\ stop \in m .. (Len(b) + 1) /\ header.rest <= stop
        /\ \A j \in m .. (stop - 1) : Kind(b, j) # "end"
    BY <1>3, EndsThere
  <1>5. header.rest \in m .. (Len(b) + 1)
    BY <1>3, HeaderIn DEF Texts
  <1>6. list[i] = Segment(b, [header EXCEPT !.rest = header.rest], stop)
    <2>1. [header EXCEPT !.rest = header.rest] = header
      BY DEF SegmentHeader
    <2> QED
      BY <1>2, <2>1 DEF SegmentAt, Terminator
  <1> HIDE DEF list, header, stop
  <1>7. Owns(b, Cardinality(EndsBefore(b, m)) + 1, Segment(b, [header EXCEPT !.rest = header.rest], stop))
    <2>1. stop \in 1 .. (Len(b) + 1) /\ m \in 1 .. (Len(b) + 1)
      BY <1>3, <1>4
    <2> QED
      BY <1>4, <1>5, <2>1, SegmentOwns, SMTT(30) DEF header
  <1>8. /\ before \in Nat /\ Cardinality(EndsBefore(b, m)) \in Nat
        /\ Cardinality(EndsBefore(b, m)) <= Cardinality(EndsOf(b)) /\ Cardinality(EndsOf(b)) \in Nat
    BY EndsFinite DEF Texts
  <1>9. i \in Nat
    BY <1>1 DEF Reads, list
  <1>10. Cardinality(EndsBefore(b, m)) + 1 = before + i
    BY <1>2, <1>8, <1>9
  <1>11. before + i \in 1 .. (Cardinality(EndsOf(b)) + 1)
    BY <1>8, <1>9, <1>10
  <1> QED
    BY <1>6, <1>7, <1>10, <1>11

(* A bulletin that begins with its codes. *)
SingleWarning(b) ==
  LET issuance == First(b, SegmentHeader(b, Body(b)).rest, {"issued"})
  IN  Kind(b, Body(b)) = "ugc" /\ issuance \in DOMAIN b =>
        \A i \in Body(b) .. issuance : Kind(b, i) # "end"

LEMMA SingleOwns ==
  ASSUME NEW b \in Texts, SingleWarning(b), Kind(b, Body(b)) = "ugc"
  PROVE  LET header == SegmentHeader(b, Body(b))
             mnd == MNDHeader(b, header.rest)
             stop == First(b, mnd.rest, {"end"})
         IN  Owns(b, Cardinality(EndsBefore(b, Body(b))) + 1,
                  Segment(b, [header EXCEPT !.rest = mnd.rest], stop))
  <1> DEFINE body == Body(b)
             N == Len(b) + 1
             header == SegmentHeader(b, body)
             issuance == First(b, header.rest, {"issued"})
             rest == MNDHeader(b, header.rest).rest
             stop == First(b, rest, {"end"})
  <1>1. body \in 1 .. N /\ N \in Nat
    BY BodyIn DEF Texts
  <1>2. header.rest \in body .. N /\ \A j \in body .. (header.rest - 1) : Kind(b, j) # "end"
    BY <1>1, HeaderIn DEF Opening, Texts
  <1>3. header.rest \in 1 .. N
    BY <1>1, <1>2
  <1>4. issuance \in header.rest .. N
    BY <1>3, FirstIn DEF Texts
  <1>5. rest = Trim(b, After(b, issuance))
    BY DEF MNDHeader
  <1>6. rest \in 1 .. N
    BY <1>3, MNDIn
  <1>7. stop \in rest .. N /\ \A j \in rest .. (stop - 1) : Kind(b, j) # "end"
    <2> HIDE DEF rest
    <2> QED
      BY <1>6, FirstIs DEF Texts
  <1>8. SingleWarning(b) => (issuance \in DOMAIN b => \A i \in body .. issuance : Kind(b, i) # "end")
    BY DEF SingleWarning
  <1>9. ASSUME NEW end \in 1 .. N, \A j \in body .. (end - 1) : Kind(b, j) # "end",
               header.rest <= end, rest \in body .. N, stop <= end \/ stop <= rest
        PROVE  Owns(b, Cardinality(EndsBefore(b, body)) + 1,
                    Segment(b, [header EXCEPT !.rest = rest], stop))
    <2>1. stop \in 1 .. N
      BY <1>1, <1>6, <1>7
    <2> HIDE DEF rest, stop, body
    <2> QED
      BY <1>1, <1>9, <2>1, SegmentOwns
  <1> HIDE DEF issuance, rest, stop, body, N, header
  <1>10. CASE issuance \in DOMAIN b
    <2>1. After(b, issuance) = issuance + 1
      BY <1>10 DEF After
    <2>2. issuance + 1 \in Nat /\ issuance + 1 <= Len(b) + 1
      BY <1>10 DEF Texts
    <2>3. /\ rest \in (issuance + 1) .. N
          /\ \A j \in (issuance + 1) .. (rest - 1) : Kind(b, j) = "blank"
      BY <1>5, <2>1, <2>2, TrimIs DEF N, Texts
    <2>4. \A i \in body .. issuance : Kind(b, i) # "end"
      BY <1>8, <1>10
    <2>5. ASSUME NEW j \in body .. (stop - 1) PROVE Kind(b, j) # "end"
      <3>1. j \in body .. issuance \/ j \in (issuance + 1) .. (rest - 1) \/ j \in rest .. (stop - 1)
        BY <1>1, <1>3, <1>4, <1>6, <1>7, <2>2
      <3> QED
        BY <1>7, <2>3, <2>4, <3>1
    <2>6. stop \in 1 .. N /\ header.rest <= stop /\ rest \in body .. N
      BY <1>1, <1>2, <1>3, <1>4, <1>6, <1>7, <2>2, <2>3
    <2>7. stop <= stop
      BY <1>1, <2>6
    <2> QED
      BY <1>9, <2>5, <2>6, <2>7 DEF rest, stop, body, header
  <1>11. CASE issuance \notin DOMAIN b
    <2>1. issuance = N /\ After(b, issuance) = N
      BY <1>1, <1>3, <1>4, <1>11 DEF After, N, Texts
    <2>2. Trim(b, N) \in N .. N
      BY <1>1, TrimIn DEF Texts, N
    <2>3. rest = N /\ stop = N
      BY <1>1, <1>5, <1>7, <2>1, <2>2
    <2>4. header.rest <= header.rest /\ rest \in body .. N /\ stop <= rest
      BY <1>1, <1>3, <2>3
    <2> QED
      BY <1>2, <1>3, <1>9, <2>4 DEF rest, stop, body, header
  <1> QED
    BY <1>10, <1>11

(* Of every bulletin. *)
LEMMA ParseOwns ==
  ASSUME NEW b \in Texts, NEW reference, SingleWarning(b)
  PROVE  \A i \in DOMAIN Parse(b, reference).segments :
           \E c \in 1 .. (Cardinality(EndsOf(b)) + 1) : Owns(b, c, Parse(b, reference).segments[i])
  <1> DEFINE body == Body(b)
             mnd == MNDHeader(b, body)
             overview == Overview(b, mnd.rest)
             segments == Segments(b, overview.rest)
             header == SegmentHeader(b, body)
             mnd2 == MNDHeader(b, header.rest)
             one == Segment(b, [header EXCEPT !.rest = mnd2.rest], First(b, mnd2.rest, {"end"}))
             list == Parse(b, reference).segments
  <1> SUFFICES \A i \in DOMAIN list :
                 \E c \in 1 .. (Cardinality(EndsOf(b)) + 1) : Owns(b, c, list[i])
    OBVIOUS
  <1>1. body \in 1 .. (Len(b) + 1)
    BY BodyIn
  <1>2. CASE Kind(b, body) = "eof"
    <2>1. list = <<>>
      BY <1>2 DEF Parse
    <2> HIDE DEF list
    <2> QED
      BY <2>1
  <1>3. CASE Kind(b, body) \notin {"eof", "ugc"}
    <2>1. list = segments.list
      BY <1>3 DEF Parse
    <2>2. mnd.rest \in 1 .. (Len(b) + 1)
      BY <1>1, MNDIn
    <2>3. overview.rest \in 1 .. (Len(b) + 1)
      <3> HIDE DEF mnd
      <3> QED
        BY <2>2, OverviewIn
    <2> HIDE DEF overview, list
    <2> QED
      BY <2>1, <2>3, SegmentsOwn
  <1>4. CASE Kind(b, body) = "ugc"
    <2>1. list = <<one>>
      BY <1>4 DEF Parse
    <2>2. Owns(b, Cardinality(EndsBefore(b, body)) + 1, one)
      BY <1>4, SingleOwns
    <2>3. Cardinality(EndsBefore(b, body)) + 1 \in 1 .. (Cardinality(EndsOf(b)) + 1)
      BY EndsFinite DEF Texts
    <2> HIDE DEF list, one
    <2> QED
      BY <2>1, <2>2, <2>3
  <1> QED
    BY <1>2, <1>3, <1>4

(* What a request is sent for. *)
SentFor(b, c, r) ==
  LET lines == Between(b, c)
  IN  /\ r.fips \cup r.zones \subseteq CodesIn(lines)
      /\ r.vtec # None => r.vtec \in lines
      /\ \A i \in DOMAIN r.polygon :
           r.polygon[i][1] \in NumbersIn(lines) /\ r.polygon[i][2] \in NumbersIn(lines)

LEMMA RequestOwn ==
  ASSUME NEW b, NEW c, NEW parsed, NEW now, NEW i \in DOMAIN parsed.segments,
         Owns(b, c, parsed.segments[i])
  PROVE  SentFor(b, c, Normalize(parsed, now)[i])
  <1> DEFINE segment == parsed.segments[i]
             lines == Between(b, c)
             T == NumbersIn(lines)
             r == Normalize(parsed, now)[i]
             vtecs == segment.vtecs
             text == segment.text
  <1>1. /\ r.vtec = (IF Cardinality(DOMAIN vtecs) = 1
                     THEN vtecs[CHOOSE n \in DOMAIN vtecs : TRUE] ELSE None)
        /\ r.polygon = Ring(Points(text))
        /\ r.fips = {x \in segment.codes : x[1] = "C"}
        /\ r.zones = {x \in segment.codes : x[1] = "Z"}
    BY DEF Normalize
  <1>2. /\ segment.codes \subseteq CodesIn(lines)
        /\ \A j \in DOMAIN vtecs : vtecs[j] \in lines
        /\ text \in Texts
        /\ \A j \in DOMAIN text : text[j] \in lines
    BY DEF Owns
  <1> HIDE DEF segment, lines, r
  <1>3. r.vtec # None => r.vtec \in lines
    <2>1. Cardinality(DOMAIN vtecs) = 1 => DOMAIN vtecs # {}
      BY FS_EmptySet
    <2> QED
      BY <1>1, <1>2, <2>1
  <1> HIDE DEF vtecs, text
  <1>4. ASSUME NEW j \in DOMAIN text, text[j].k \in {"latlon", "nums"}
        PROVE  text[j].nums \in Seq(T)
    <2>1. text[j] \in Line(Etns) /\ text[j] \in lines
      BY <1>2, <1>4 DEF Texts
    <2>2. text[j].nums \in Seq(Nat)
      BY <1>4, <2>1, LineKinds
    <2>3. \A x \in DOMAIN text[j].nums : text[j].nums[x] \in T
      BY <1>4, <2>1 DEF NumbersIn
    <2> DEFINE nums == text[j].nums
    <2> HIDE DEF nums, T
    <2>4. nums \in Seq(Nat) /\ \A x \in DOMAIN nums : nums[x] \in T
      BY <2>2, <2>3 DEF nums
    <2>5. nums \in Seq(T)
      BY <2>4
    <2> QED
      BY <2>5 DEF nums
  <1> HIDE DEF T
  <1>5. Points(text) \in Seq(T \X T)
    BY <1>2, <1>4, PointsIn
  <1>6. r.polygon \in Seq(T \X T)
    BY <1>1, <1>5, RingIn
  <1>7. \A j \in DOMAIN r.polygon : r.polygon[j][1] \in T /\ r.polygon[j][2] \in T
    <2> SUFFICES ASSUME NEW j \in DOMAIN r.polygon PROVE r.polygon[j] \in T \X T
      OBVIOUS
    <2> QED
      BY <1>6
  <1>8. r.fips \cup r.zones \subseteq CodesIn(lines)
    BY <1>1, <1>2
  <1> QED
    BY <1>3, <1>7, <1>8 DEF SentFor, T, lines, r

(* Counties, zones, polygon and event of a message are those of one        *)
(* segment of its bulletin.                                                *)
OwnRequests(x) ==
  \A i \in DOMAIN x.requests :
    \E c \in 1 .. (Cardinality(EndsOf(x.text)) + 1) : SentFor(x.text, c, x.requests[i])

LEMMA ReceivedOwn ==
  ASSUME NEW n \in DOMAIN Envelopes
  PROVE  OwnRequests(Received(Envelopes[n]))
  <1> DEFINE envelope == Envelopes[n]
             text == Decode(Delivered(envelope.payload))
             parsed == Parse(text, Coalesce(envelope.issue, envelope.seen))
             x == Received(envelope)
  <1>1. x.text = text /\ x.requests = Normalize(parsed, envelope.seen)
    BY DEF Received, Stanza
  <1>2. text \in Texts
    BY IngestAssumption, DeliveredGood, DecodeGood DEF Texts
  <1>3. SingleWarning(text)
    BY CodesFirstAssumption DEF SingleWarning
  <1>4. \A i \in DOMAIN parsed.segments :
          \E c \in 1 .. (Cardinality(EndsOf(text)) + 1) : Owns(text, c, parsed.segments[i])
    <2> HIDE DEF text
    <2> QED
      BY <1>2, <1>3, ParseOwns
  <1> HIDE DEF text, parsed, envelope, x
  <1>5. DOMAIN x.requests = DOMAIN parsed.segments
    BY <1>1 DEF Normalize
  <1>6. ASSUME NEW i \in DOMAIN parsed.segments
        PROVE  \E c \in 1 .. (Cardinality(EndsOf(text)) + 1) : SentFor(text, c, x.requests[i])
    <2>1. PICK c \in 1 .. (Cardinality(EndsOf(text)) + 1) : Owns(text, c, parsed.segments[i])
      BY <1>4
    <2>2. SentFor(text, c, x.requests[i])
      BY <1>1, <2>1, RequestOwn
    <2> QED
      BY <2>2
  <1> QED
    BY <1>1, <1>5, <1>6 DEF OwnRequests, x, envelope

(* A neighbour's codes, polygon or event never slip into a message. *)
THEOREM SegmentsKeptApart == Spec => []OwnSegment
  <1> DEFINE Came == \A e \in Stanzas : OwnRequests(env[e])
  <1>1. Init => Came
    <2> SUFFICES ASSUME Init PROVE Came
      OBVIOUS
    <2>1. PICK p \in Programmes : env = [e \in Stanzas |-> Received(Envelopes[p[e]])]
      BY DEF Init
    <2>2. \A e \in Stanzas : p[e] \in DOMAIN Envelopes
      BY IngestAssumption
    <2> QED
      BY <2>1, <2>2, ReceivedOwn
  <1>2. Came /\ [Next]_vars => Came'
    BY NextEnv
  <1>3. Came /\ Shape => OwnSegment
    <2> SUFFICES ASSUME Came, Shape, NEW m \in message
                 PROVE  \E c \in 1 .. (Cardinality(EndsOf(Text(m.stanza))) + 1) :
                          SentFor(Text(m.stanza), c, RequestOf(m))
      BY DEF OwnSegment, SentFor
    <2>1. m.stanza \in Stanzas /\ m.segment \in DOMAIN Requests(m.stanza)
      BY DEF Shape, RowGood, MessageRec
    <2>2. OwnRequests(env[m.stanza])
      BY <2>1
    <2> QED
      BY <2>1, <2>2 DEF OwnRequests, RequestOf, Requests, Text
  <1> HIDE DEF Came
  <1> QED
    BY <1>1, <1>2, <1>3, ShapeInvariance, PTL DEF Spec

-----------------------------------------------------------------------------
(* A well-formed bulletin is read as it was written.                       *)

(* Two lines with as many terminators before them have none between them. *)
LEMMA NoneBetween ==
  ASSUME NEW b \in Texts, NEW x \in Nat, NEW y \in Nat, x <= y,
         Cardinality(EndsBefore(b, x)) = Cardinality(EndsBefore(b, y))
  PROVE  \A e \in EndsOf(b) : ~(x <= e /\ e < y)
  <1> SUFFICES ASSUME NEW e \in EndsOf(b), x <= e, e < y PROVE FALSE
    OBVIOUS
  <1>1. EndsOf(b) \subseteq Nat
    BY DEF EndsOf, Texts
  <1>2. EndsBefore(b, x) \subseteq EndsBefore(b, y) /\ EndsBefore(b, x) # EndsBefore(b, y)
    <2>1. e \in EndsBefore(b, y) /\ e \notin EndsBefore(b, x)
      BY <1>1 DEF EndsBefore
    <2> QED
      BY <1>1, <2>1 DEF EndsBefore
  <1>3. IsFiniteSet(EndsBefore(b, y))
    BY EndsFinite DEF Texts
  <1>4. Cardinality(EndsBefore(b, x)) < Cardinality(EndsBefore(b, y))
    BY <1>2, <1>3, FS_Subset, FS_CardinalityType
  <1> QED
    BY <1>4, <1>3, FS_CardinalityType

(* The codes n of the segment c: what the form says of it. *)
Begins(b, c, n) ==
  /\ n \in DOMAIN b /\ b[n].k = "ugc" /\ Codes(b[n].ranges) # {}
  /\ Cardinality(EndsBefore(b, n)) = c - 1
  /\ \A j \in Places(b, c) : b[j].k = "ugc" => j = n
  /\ \E t \in Places(b, c) : n < t /\ b[t].k = "text"
  /\ \E s \in 1 .. (n - 1) : /\ b[s].k \in {"issued", "end"}
                            /\ \A j \in (s + 1) .. (n - 1) : b[j].k = "blank"

LEMMA SegmentsBegin ==
  ASSUME NEW b \in Texts, WellFormed(b), NEW c \in 1 .. Cardinality(EndsOf(b))
  PROVE  \E n \in DOMAIN b : Begins(b, c, n)
  <1>1. PICK n \in Places(b, c) :
       /\ \A j \in Places(b, c) : b[j].k = "ugc" <=> j = n
       /\ Codes(b[n].ranges) # {}
       /\ \E t \in Places(b, c) : n < t /\ b[t].k = "text"
       /\ \E s \in 1 .. (n - 1) : /\ b[s].k \in {"issued", "end"}
                                 /\ \A j \in (s + 1) .. (n - 1) : b[j].k = "blank"
    BY DEF WellFormed
  <1>2. n \in DOMAIN b /\ Cardinality(EndsBefore(b, n)) = c - 1
    BY DEF Places, EndsBefore
  <1> QED
    BY <1>1, <1>2 DEF Begins

(* The loop comes to the codes of each segment. *)
LEMMA BeginsThere ==
  ASSUME NEW b \in Texts, NEW c \in Nat, NEW n \in DOMAIN b, Begins(b, c, n),
         NEW i \in DOMAIN b, \A j \in DOMAIN b : b[j].k = "issued" <=> j = i,
         \A e \in EndsOf(b) : i < e,
         NEW e \in EndsOf(b), NEW m \in DOMAIN b, m = Trim(b, e + 1),
         Cardinality(EndsBefore(b, m)) = c - 1
  PROVE  m = n
  <1>0. /\ Len(b) \in Nat /\ DOMAIN b = 1 .. Len(b) /\ EndsOf(b) \subseteq 1 .. Len(b)
        /\ \A x \in EndsOf(b) : b[x].k = "end"
    BY DEF Texts, EndsOf
  <1>1. /\ m \in (e + 1) .. (Len(b) + 1) /\ b[m].k # "blank"
        /\ \A j \in (e + 1) .. (m - 1) : b[j].k = "blank"
    <2>1. e + 1 \in Nat /\ e + 1 <= Len(b) + 1
      BY <1>0
    <2>2. /\ m \in (e + 1) .. (Len(b) + 1) /\ Kind(b, m) # "blank"
          /\ \A j \in (e + 1) .. (m - 1) : Kind(b, j) = "blank"
      BY <2>1, TrimIs DEF Texts
    <2>3. \A j \in (e + 1) .. (m - 1) : j \in DOMAIN b
      BY <1>0
    <2> QED
      BY <2>2, <2>3 DEF Kind
  <1>2. b[n].k = "ugc" /\ Cardinality(EndsBefore(b, n)) = c - 1
    BY DEF Begins
  <1>3. PICK s \in 1 .. (n - 1) : /\ b[s].k \in {"issued", "end"}
                                 /\ \A j \in (s + 1) .. (n - 1) : b[j].k = "blank"
    BY DEF Begins
  <1>4. m \in Nat /\ n \in Nat /\ e \in Nat /\ s \in DOMAIN b
    BY <1>0
  <1>5. CASE m < n
    <2>1. \A x \in EndsOf(b) : ~(m <= x /\ x < n)
      BY <1>2, <1>4, <1>5, NoneBetween
    <2>2. CASE s < m
      <3>1. m \in (s + 1) .. (n - 1)
        BY <1>4, <1>5, <2>2
      <3> QED
        BY <1>1, <1>3, <3>1
    <2>3. CASE s >= m
      <3>1. s \notin EndsOf(b)
        BY <1>3, <1>4, <2>1, <2>3
      <3>2. b[s].k = "issued"
        BY <1>3, <1>4, <3>1 DEF EndsOf
      <3>3. s = i
        BY <1>4, <3>2
      <3> QED
        BY <1>0, <1>1, <1>4, <2>3, <3>3
    <2> QED
      BY <1>4, <2>2, <2>3
  <1>6. CASE n < m
    <2>1. \A x \in EndsOf(b) : ~(n <= x /\ x < m)
      BY <1>2, <1>4, <1>6, NoneBetween
    <2>2. e < n
      BY <1>1, <1>4, <2>1
    <2>3. n \in (e + 1) .. (m - 1)
      BY <1>4, <1>6, <2>2
    <2> QED
      BY <1>1, <1>2, <2>3
  <1> QED
    BY <1>4, <1>5, <1>6

(* A segment that begins so has its codes and a text. *)
Full(b, c, segment) ==
  /\ Owns(b, c, segment)
  /\ segment.codes = CodesIn(Between(b, c)) /\ segment.codes # {}
  /\ \E j \in DOMAIN segment.text : segment.text[j].k = "text"

LEMMA SegmentFull ==
  ASSUME NEW b \in Texts, NEW c \in Nat, NEW n \in DOMAIN b, Begins(b, c, n),
         Owns(b, c, SegmentAt(b, n)), Terminator(b, n) <= Len(b)
  PROVE  Full(b, c, SegmentAt(b, n))
  <1> DEFINE header == SegmentHeader(b, n)
             stop == Terminator(b, n)
             x == SegmentAt(b, n)
  <1>0. /\ Len(b) \in Nat /\ DOMAIN b = 1 .. Len(b)
        /\ b[n].k = "ugc" /\ Cardinality(EndsBefore(b, n)) = c - 1
    BY DEF Texts, Begins
  <1>1. Trim(b, n) = n
    <2>1. Trim(b, n) \in n .. (Len(b) + 1) /\ \A j \in n .. (Trim(b, n) - 1) : Kind(b, j) = "blank"
      BY <1>0, TrimIs DEF Texts
    <2>2. Kind(b, n) # "blank"
      BY <1>0 DEF Kind
    <2> QED
      BY <1>0, <2>1, <2>2
  <1>2. /\ header.rest \in n .. (Len(b) + 1)
        /\ \A j \in n .. (header.rest - 1) : Kind(b, j) \in Opening
        /\ header.codes = Codes(b[n].ranges)
    <2>1. Kind(b, n) = "ugc"
      BY <1>0 DEF Kind
    <2> QED
      BY <1>0, <1>1, <2>1, HeaderIn DEF Texts
  <1>3. stop \in n .. (Len(b) + 1) /\ stop \in EndsOf(b)
    BY <1>0, EndsThere
  <1>4. x.codes = header.codes /\ x.text = SubSeq(b, header.rest, stop - 1)
    BY DEF SegmentAt, Segment, Terminator
  <1>5. x.codes = CodesIn(Between(b, c))
    <2>1. n \in Places(b, c)
      BY <1>0 DEF Places, EndsBefore
    <2>2. {l \in Between(b, c) : l.k = "ugc"} = {b[n]}
      BY <1>0, <2>1 DEF Between, Begins
    <2> QED
      BY <1>2, <1>4, <2>2 DEF CodesIn
  <1>6. x.codes # {}
    BY <1>2, <1>4 DEF Begins
  <1> HIDE DEF header, stop, x
  <1>7. \E j \in DOMAIN x.text : x.text[j].k = "text"
    <2>1. PICK t \in Places(b, c) : n < t /\ b[t].k = "text"
      BY DEF Begins
    <2>2. t \in DOMAIN b /\ Cardinality(EndsBefore(b, t)) = c - 1 /\ Kind(b, t) = "text"
      BY <2>1 DEF Places, EndsBefore, Kind
    <2>3. t >= header.rest
      <3>1. t \in n .. (header.rest - 1) => Kind(b, t) \in Opening
        BY <1>2
      <3>2. ~(t \in n .. (header.rest - 1))
        BY <2>2, <3>1 DEF Opening
      <3> QED
        BY <1>0, <1>2, <2>1, <2>2, <3>2
    <2>4. t < stop
      <3>1. ~(n <= stop /\ stop < t)
        BY <1>0, <1>3, <2>1, <2>2, NoneBetween
      <3>2. stop # t
        BY <1>3, <2>1 DEF EndsOf
      <3> QED
        BY <1>0, <1>3, <2>2, <3>1, <3>2
    <2> DEFINE j == t - header.rest + 1
    <2>5. j \in 1 .. (stop - header.rest) /\ header.rest + j - 1 = t
      <3> DEFINE first == header.rest
      <3>1. first \in Int /\ stop \in Int /\ t \in Int /\ first <= t /\ t < stop
        BY <1>0, <1>2, <1>3, <2>2, <2>3, <2>4
      <3> HIDE DEF first
      <3>2. t - first + 1 \in 1 .. (stop - first) /\ first + (t - first + 1) - 1 = t
        BY <3>1
      <3> QED
        BY <3>2 DEF first
    <2>6. j \in DOMAIN x.text /\ x.text[j] = b[t]
      <3> HIDE DEF j
      <3> DEFINE first == header.rest
      <3>1. b \in Seq(Line(Etns)) /\ first \in 1 .. (Len(b) + 1) /\ stop \in 1 .. Len(b)
        BY <1>0, <1>2, <1>3 DEF Texts, EndsOf
      <3>2. j \in 1 .. (stop - first) /\ first + j - 1 = t /\ x.text = SubSeq(b, first, stop - 1)
        BY <1>4, <2>5
      <3> HIDE DEF first
      <3>3. /\ Len(SubSeq(b, first, stop - 1)) = IF first <= stop - 1 THEN stop - first ELSE 0
            /\ \A y \in 1 .. (stop - first) : SubSeq(b, first, stop - 1)[y] = b[first + y - 1]
        BY <3>1
      <3>4. j \in Int /\ 1 <= j /\ j <= stop - first /\ first <= stop - 1
        BY <3>1, <3>2
      <3>5. SubSeq(b, first, stop - 1) \in Seq(Line(Etns))
        BY <3>1
      <3> QED
        BY <3>1, <3>2, <3>3, <3>4, <3>5
    <2> QED
      BY <2>1, <2>6
  <1> QED
    BY <1>5, <1>6, <1>7 DEF Full, x

(* The parser comes past the headers to the codes of the first segment. *)
Headed(b, n) ==
  /\ Identifier(b) = 2 /\ b[2].k = "awips"
  /\ Body(b) \in DOMAIN b /\ Kind(b, Body(b)) \notin {"eof", "ugc"}
  /\ MNDHeader(b, Body(b)).rest = n
  /\ Overview(b, n).rest = n
  /\ EndsBefore(b, n) = {}

LEMMA TrimsTo ==
  ASSUME NEW b \in Texts, NEW n \in 1 .. Len(b), NEW m \in n .. Len(b), b[m].k # "blank",
         \A j \in n .. (m - 1) : b[j].k = "blank"
  PROVE  Trim(b, n) = m
  <1>0. Len(b) \in Nat /\ DOMAIN b = 1 .. Len(b)
    BY DEF Texts
  <1>1. /\ Trim(b, n) \in n .. (Len(b) + 1) /\ Kind(b, Trim(b, n)) # "blank"
        /\ \A j \in n .. (Trim(b, n) - 1) : Kind(b, j) = "blank"
    BY TrimIs DEF Texts
  <1>2. ~(m < Trim(b, n))
    <2>1. m < Trim(b, n) => m \in n .. (Trim(b, n) - 1)
      BY <1>0, <1>1
    <2>2. Kind(b, m) # "blank"
      BY <1>0 DEF Kind
    <2> QED
      BY <1>1, <2>1, <2>2
  <1>3. ~(Trim(b, n) < m)
    <2> SUFFICES ASSUME Trim(b, n) < m PROVE FALSE
      OBVIOUS
    <2>1. Trim(b, n) \in n .. (m - 1) /\ Trim(b, n) \in DOMAIN b
      BY <1>0, <1>1
    <2> QED
      BY <1>1, <2>1 DEF Kind
  <1> QED
    BY <1>0, <1>1, <1>2, <1>3

LEMMA HeadersRead ==
  ASSUME NEW b \in Texts, WellFormed(b), NEW n \in DOMAIN b, Begins(b, 1, n),
         NEW i \in DOMAIN b, \A j \in DOMAIN b : b[j].k = "issued" <=> j = i,
         \A e \in EndsOf(b) : i < e
  PROVE  Headed(b, n)
  <1>0. /\ Len(b) \in Nat /\ DOMAIN b = 1 .. Len(b) /\ EndsOf(b) \subseteq 1 .. Len(b)
        /\ i \in 1 .. Len(b) /\ n \in 1 .. Len(b) /\ b[i].k = "issued" /\ b[n].k = "ugc"
    BY DEF Texts, EndsOf, Begins
  <1>1. 1 \in DOMAIN b /\ 2 \in DOMAIN b /\ b[1].k = "wmo" /\ b[2].k = "awips"
    BY DEF WellFormed, Kind
  <1>2. i >= 3 /\ Len(b) >= 3
    <2>1. i # 1 /\ i # 2
      BY <1>0, <1>1
    <2> QED
      BY <1>0, <2>1
  <1>3. Identifier(b) = 2
    <2>1. b[1].k # "blank" /\ b[2].k # "blank"
      BY <1>1
    <2>2. Trim(b, 1) = 1
      BY <1>0, <1>1, <2>1, TrimsTo
    <2>3. Trim(b, 2) = 2
      BY <1>0, <1>1, <2>1, TrimsTo
    <2> QED
      BY <1>1, <2>2, <2>3 DEF Identifier, After
  <1>4. Body(b) = Trim(b, 3)
    BY <1>1, <1>3 DEF Body, After
  <1>5. Body(b) \in 3 .. i /\ Body(b) \in DOMAIN b
    <2>1. /\ Trim(b, 3) \in 3 .. (Len(b) + 1)
          /\ \A j \in 3 .. (Trim(b, 3) - 1) : Kind(b, j) = "blank"
      BY <1>2, TrimIs DEF Texts
    <2>2. Kind(b, i) # "blank"
      BY <1>0 DEF Kind
    <2>3. ~(i \in 3 .. (Trim(b, 3) - 1))
      BY <2>1, <2>2
    <2> QED
      BY <1>0, <1>2, <1>4, <2>1, <2>3
  <1>6. EndsBefore(b, n) = {}
    <2>1. Cardinality(EndsBefore(b, n)) = 0
      BY DEF Begins
    <2> QED
      BY <2>1, EndsFinite, FS_EmptySet DEF Texts
  <1>7. i < n /\ \A j \in (i + 1) .. (n - 1) : b[j].k = "blank"
    <2>1. PICK s \in 1 .. (n - 1) : /\ b[s].k \in {"issued", "end"}
                                   /\ \A j \in (s + 1) .. (n - 1) : b[j].k = "blank"
      BY DEF Begins
    <2>2. s \in DOMAIN b /\ s < n
      BY <1>0
    <2>3. s \notin EndsOf(b)
      BY <1>6, <2>2 DEF EndsBefore
    <2>4. s = i
      BY <2>1, <2>2, <2>3 DEF EndsOf
    <2> QED
      BY <2>1, <2>2, <2>4
  <1>8. Kind(b, Body(b)) = b[Body(b)].k /\ b[Body(b)].k \notin {"eof", "ugc"}
    <2>1. b[Body(b)].k # "eof"
      BY <1>5, LineKinds DEF Texts
    <2>2. EndsBefore(b, Body(b)) = {}
      BY <1>0, <1>5 DEF EndsBefore
    <2>3. Cardinality(EndsBefore(b, Body(b))) = 1 - 1
      BY <2>2, FS_EmptySet
    <2>4. Body(b) \in Places(b, 1)
      BY <1>5, <2>3 DEF Places, EndsBefore
    <2>5. b[Body(b)].k = "ugc" => Body(b) = n
      BY <2>4 DEF Begins
    <2>6. Body(b) # n
      BY <1>0, <1>5, <1>7
    <2> QED
      BY <1>5, <2>1, <2>5, <2>6 DEF Kind
  <1>9. First(b, Body(b), {"issued"}) = i
    <2> DEFINE x == First(b, Body(b), {"issued"})
    <2>1. /\ x \in Body(b) .. (Len(b) + 1) /\ Kind(b, x) \in {"issued", "eof"}
          /\ \A j \in Body(b) .. (x - 1) : Kind(b, j) # "issued"
      <3>1. Body(b) \in Nat /\ Body(b) <= Len(b) + 1
        BY <1>0, <1>5
      <3>2. /\ x \in Body(b) .. (Len(b) + 1) /\ Kind(b, x) \in {"issued"} \cup {"eof"}
            /\ \A j \in Body(b) .. (x - 1) : Kind(b, j) \notin {"issued"}
        BY <3>1, FirstIs DEF Texts
      <3> QED
        BY <3>2
    <2>2. Kind(b, i) = "issued"
      BY <1>0 DEF Kind
    <2> HIDE DEF x
    <2>3. ~(i < x)
      <3>1. i < x => i \in Body(b) .. (x - 1)
        BY <1>0, <1>5, <2>1
      <3> QED
        BY <2>1, <2>2, <3>1
    <2>4. x \in DOMAIN b
      BY <1>0, <1>5, <2>1, <2>3
    <2>5. b[x].k = "issued"
      <3>1. b[x].k # "eof"
        BY <2>4, LineKinds DEF Texts
      <3> QED
        BY <2>1, <2>4, <3>1 DEF Kind
    <2>6. x = i
      BY <2>4, <2>5
    <2> QED
      BY <2>6 DEF x
  <1>10. MNDHeader(b, Body(b)).rest = n
    <2>1. i + 1 \in 1 .. Len(b) /\ n \in (i + 1) .. Len(b)
      BY <1>0, <1>7
    <2>2. Trim(b, i + 1) = n
      BY <1>0, <1>7, <2>1, TrimsTo
    <2>3. After(b, i) = i + 1
      BY DEF After
    <2> QED
      BY <1>9, <2>2, <2>3 DEF MNDHeader
  <1>11. Overview(b, n).rest = n
    BY <1>0 DEF Overview, Kind
  <1> QED
    BY <1>1, <1>3, <1>5, <1>6, <1>8, <1>10, <1>11 DEF Headed

(* All its segments, each with its own codes and text, and nothing else. *)
LEMMA ParseFull ==
  ASSUME NEW b \in Texts, WellFormed(b), NEW reference
  PROVE  LET parsed == Parse(b, reference) IN
         /\ parsed.category = b[2].cat
         /\ parsed.segments \in Seq(SegmentsOf(b))
         /\ Len(parsed.segments) = Cardinality(EndsOf(b))
         /\ \A c \in 1 .. Cardinality(EndsOf(b)) : Full(b, c, parsed.segments[c])
  <1> DEFINE parsed == Parse(b, reference)
             list == parsed.segments
             C == Cardinality(EndsOf(b))
  <1>1. PICK i \in DOMAIN b : /\ \A j \in DOMAIN b : b[j].k = "issued" <=> j = i
                              /\ \A e \in EndsOf(b) : i < e
    BY DEF WellFormed
  <1>2. C \in Nat /\ C >= 1 /\ IsFiniteSet(EndsOf(b))
    <2>1. IsFiniteSet(EndsOf(b)) /\ C \in Nat
      BY EndsFinite, FS_CardinalityType DEF Texts
    <2>2. EndsOf(b) # {}
      BY DEF WellFormed
    <2>3. C # 0
      BY <2>1, <2>2, FS_EmptySet
    <2> QED
      BY <2>1, <2>3
  <1>3. PICK n \in DOMAIN b : Begins(b, 1, n)
    BY <1>2, SegmentsBegin
  <1>4. Headed(b, n)
    BY <1>1, <1>3, HeadersRead
  <1>5. list = Segments(b, n).list /\ parsed.category = b[2].cat
    <2>1. Kind(b, Body(b)) \notin {"eof", "ugc"} /\ MNDHeader(b, Body(b)).rest = n /\ Overview(b, n).rest = n
      BY <1>4 DEF Headed
    <2>2. list = Segments(b, n).list
      BY <2>1 DEF Parse
    <2>3. parsed.category = AWIPSIdentifier(b, Identifier(b))
      BY <2>1 DEF Parse
    <2>4. Identifier(b) = 2 /\ b[2].k = "awips" /\ Kind(b, 2) = "awips"
      BY <1>4 DEF Headed, WellFormed, Kind, Texts
    <2>5. AWIPSIdentifier(b, 2) = b[2].cat
      BY <2>4 DEF AWIPSIdentifier
    <2> QED
      BY <2>2, <2>3, <2>4, <2>5
  <1> HIDE DEF parsed, list
  <1>6. n \in 1 .. (Len(b) + 1) /\ Len(b) \in Nat /\ DOMAIN b = 1 .. Len(b)
    BY DEF Texts
  <1>7. Reads(b, n) /\ list = Walk(b)[n].list
    BY <1>5, <1>6, WalkReads, WalkIs
  <1>8. EndsBefore(b, n) = {} /\ Cardinality(EndsBefore(b, n)) = 0
    BY <1>4, FS_EmptySet DEF Headed
  <1>9. EndsFrom(b, n) = EndsOf(b)
    BY <1>6, <1>8 DEF EndsFrom, EndsBefore, EndsOf
  <1>10. list \in Seq(SegmentsOf(b)) /\ Len(list) = C
    BY <1>7, <1>9 DEF Reads
  <1>11. ASSUME NEW c \in 1 .. C PROVE Full(b, c, list[c])
    <2>1. c \in DOMAIN list /\ c \in Nat
      BY <1>10
    <2>2. PICK m \in n .. Len(b) :
            /\ m = n \/ \E e \in EndsOf(b) : m = Trim(b, e + 1)
            /\ Terminator(b, m) <= Len(b) /\ list[c] = SegmentAt(b, m)
            /\ Cardinality(EndsBefore(b, m)) = Cardinality(EndsBefore(b, n)) + c - 1
      BY <1>7, <2>1 DEF Reads
    <2>3. m \in DOMAIN b /\ Cardinality(EndsBefore(b, m)) = c - 1
      BY <1>6, <1>8, <2>1, <2>2
    <2>4. Begins(b, c, m)
      <3>1. CASE m = n
        <4>1. c = 1
          <5>1. Cardinality(EndsBefore(b, n)) = c - 1
            BY <2>3, <3>1
          <5>2. c - 1 = 0
            BY <1>8, <5>1
          <5> QED
            BY <2>1, <5>2
        <4> QED
          BY <1>3, <3>1, <4>1
      <3>2. CASE \E e \in EndsOf(b) : m = Trim(b, e + 1)
        <4>1. PICK x \in DOMAIN b : Begins(b, c, x)
          BY SegmentsBegin
        <4>2. m = x
          BY <1>1, <2>1, <2>3, <3>2, <4>1, BeginsThere
        <4> QED
          BY <4>1, <4>2
      <3> QED
        BY <2>2, <3>1, <3>2
    <2>5. Owns(b, c, list[c])
      <3>1. Owns(b, Cardinality(EndsBefore(b, n)) + c, Segments(b, n).list[c])
        BY <1>5, <1>6, <2>1, SegmentsOwn
      <3>2. Cardinality(EndsBefore(b, n)) + c = c
        BY <1>8, <2>1
      <3> QED
        BY <1>5, <3>1, <3>2
    <2> QED
      BY <2>1, <2>2, <2>3, <2>4, <2>5, SegmentFull
  <1> QED
    BY <1>5, <1>10, <1>11 DEF list, parsed

(* A code is one of a county or of a zone. *)
LEMMA CodesOf ==
  ASSUME NEW b \in Texts, NEW c, NEW x \in CodesIn(Between(b, c))
  PROVE  x[1] \in {"C", "Z"}
  <1>1. PICK l \in Between(b, c) : l.k = "ugc" /\ x \in Codes(l.ranges)
    BY DEF CodesIn
  <1>2. l \in Line(Etns)
    <2>1. PICK j \in Places(b, c) : l = b[j]
      BY DEF Between
    <2>2. j \in DOMAIN b
      BY DEF Places
    <2> QED
      BY <2>1, <2>2 DEF Texts
  <1>3. l \in UGCCode
    BY <1>1, <1>2 DEF Line, PrimaryVTEC, UGCCode, BroadcastInstruction, IssuanceDateTime
  <1> DEFINE Named(r) == {<<r.fmt, r.state, y>> :
                            y \in IF r.first = 0 THEN 0 .. LastCode ELSE r.first .. r.last}
  <1>4. x \in UNION {Named(l.ranges[i]) : i \in DOMAIN l.ranges}
    BY <1>1 DEF Codes
  <1>5. ASSUME NEW r, x \in Named(r) PROVE x[1] = r.fmt
    BY <1>5
  <1> HIDE DEF Named
  <1>6. PICK i \in DOMAIN l.ranges : x \in Named(l.ranges[i])
    BY <1>4
  <1>7. l.ranges[i].fmt \in {"C", "Z"}
    <2> DEFINE R == [fmt : {"C", "Z"}, state : STRING, first : 0 .. LastCode, last : 0 .. LastCode]
               ranges == l.ranges
    <2>1. ranges \in Seq(R)
      BY <1>3 DEF UGCCode
    <2> HIDE DEF R, ranges
    <2>2. i \in DOMAIN ranges
      BY DEF ranges
    <2>3. ranges[i] \in R
      BY <2>1, <2>2
    <2> QED
      BY <2>3 DEF R, ranges
  <1>8. x[1] = l.ranges[i].fmt
    BY <1>5, <1>6
  <1> QED
    BY <1>7, <1>8

(* What is stored of such a segment. *)
Whole(b, c, r) ==
  /\ r.event = b[2].cat
  /\ r.fips \cup r.zones = CodesIn(Between(b, c)) /\ r.fips \cup r.zones # {}
  /\ r.body # {}

LEMMA RequestWhole ==
  ASSUME NEW b \in Texts, NEW c, NEW parsed, NEW now, NEW i \in DOMAIN parsed.segments,
         parsed.category = b[2].cat, Full(b, c, parsed.segments[i])
  PROVE  Whole(b, c, Normalize(parsed, now)[i])
  <1> DEFINE segment == parsed.segments[i]
             r == Normalize(parsed, now)[i]
  <1>1. /\ r.event = parsed.category
        /\ r.fips = {x \in segment.codes : x[1] = "C"}
        /\ r.zones = {x \in segment.codes : x[1] = "Z"}
        /\ r.body = {l \in parsed.common \cup {segment.text[j] : j \in DOMAIN segment.text} :
                       l.k # "blank"}
    BY DEF Normalize, MessageBody
  <1>2. /\ segment.codes = CodesIn(Between(b, c)) /\ segment.codes # {}
        /\ \E j \in DOMAIN segment.text : segment.text[j].k = "text"
    BY DEF Full
  <1> HIDE DEF segment, r
  <1>3. r.fips \cup r.zones = segment.codes
    <2>1. \A x \in segment.codes : x[1] \in {"C", "Z"}
      BY <1>2, CodesOf
    <2> QED
      BY <1>1, <2>1
  <1>4. r.body # {}
    <2>1. PICK j \in DOMAIN segment.text : segment.text[j].k = "text"
      BY <1>2
    <2>2. segment.text[j] \in r.body
      BY <1>1, <2>1
    <2> QED
      BY <2>2
  <1> QED
    BY <1>1, <1>2, <1>3, <1>4 DEF Whole, r

(* A payload of blank lines has no header. *)
LEMMA DecodeBlank ==
  ASSUME NEW payload \in Texts, Blank(payload)
  PROVE  Blank(Decode(payload))
  <1> DEFINE inner == [i \in DOMAIN payload |->
                         IF payload[i].k = "cdata" THEN [k |-> "blank"] ELSE payload[i]]
             start == Trim(inner, 1)
             body == IF /\ Kind(inner, start) = "count"
                        /\ ~Blank(SubSeq(inner, start + 1, Len(inner)))
                     THEN start + 1 ELSE start
  <1>1. [k |-> "blank"] \in Line(Etns)
    BY DEF Line
  <1>2. inner \in Seq(Line(Etns)) /\ \A i \in DOMAIN inner : inner[i].k = "blank"
    <2>1. DOMAIN payload = 1 .. Len(payload) /\ Len(payload) \in Nat
      BY DEF Texts
    <2>2. \A i \in DOMAIN payload : payload[i] \in Line(Etns) /\ payload[i].k = "blank"
      BY DEF Texts, Blank
    <2>3. \A i \in 1 .. Len(payload) : inner[i] \in Line(Etns) /\ inner[i].k = "blank"
      BY <1>1, <2>1, <2>2
    <2> QED
      BY <2>1, <2>3
  <1> HIDE DEF inner
  <1>3. start \in 1 .. (Len(inner) + 1)
    BY <1>2, TrimIn
  <1>4. body \in {start, start + 1} /\ body \in 1 .. (Len(inner) + 1)
    BY <1>2, <1>3 DEF Kind
  <1> HIDE DEF body
  <1>5. \A i \in DOMAIN SubSeq(inner, body, Len(inner)) : SubSeq(inner, body, Len(inner))[i].k = "blank"
    <2> SUFFICES ASSUME NEW i \in DOMAIN SubSeq(inner, body, Len(inner))
                 PROVE  SubSeq(inner, body, Len(inner))[i].k = "blank"
      OBVIOUS
    <2>1. Len(inner) \in Nat /\ DOMAIN inner = 1 .. Len(inner)
      BY <1>2
    <2>2. i \in 1 .. (Len(inner) - body + 1)
      BY <1>2, <1>4, <2>1
    <2>3. SubSeq(inner, body, Len(inner))[i] = inner[body + i - 1]
      BY <1>2, <1>4, <2>1, <2>2
    <2>4. body + i - 1 \in DOMAIN inner
      BY <1>4, <2>1, <2>2
    <2> QED
      BY <1>2, <2>3, <2>4
  <1> QED
    BY <1>5 DEF Decode, Unmarked, Blank, inner, body

(* What a well-formed bulletin of a product other than NPW comes to. *)
Wanted(b) == WellFormed(b) /\ b[2].cat \in Products \ {"NPW"}
AllThere(x) ==
  Wanted(x.text) =>
    /\ x.category = x.text[2].cat
    /\ ~Blank(Delivered(x.payload)) /\ ~Blank(x.text)
    /\ DOMAIN x.requests = 1 .. Cardinality(EndsOf(x.text))
    /\ \A c \in DOMAIN x.requests : Whole(x.text, c, x.requests[c])

LEMMA ReceivedWhole ==
  ASSUME NEW n \in DOMAIN Envelopes
  PROVE  AllThere(Received(Envelopes[n]))
  <1> DEFINE envelope == Envelopes[n]
             text == Decode(Delivered(envelope.payload))
             parsed == Parse(text, Coalesce(envelope.issue, envelope.seen))
             x == Received(envelope)
  <1>1. /\ x.text = text /\ x.requests = Normalize(parsed, envelope.seen)
        /\ x.payload = envelope.payload /\ x.category = Coalesce(parsed.category, envelope.attr)
    BY DEF Received, Stanza
  <1>2. envelope.payload \in Texts
    BY IngestAssumption DEF Texts
  <1>3. text \in Texts /\ (Blank(Delivered(envelope.payload)) => Blank(text))
    BY <1>2, DeliveredGood, DecodeGood, DecodeBlank
  <1> HIDE DEF text, envelope
  <1> SUFFICES ASSUME Wanted(text)
               PROVE  /\ x.category = text[2].cat
                      /\ ~Blank(Delivered(x.payload)) /\ ~Blank(text)
                      /\ DOMAIN x.requests = 1 .. Cardinality(EndsOf(text))
                      /\ \A c \in DOMAIN x.requests : Whole(text, c, x.requests[c])
    BY <1>1 DEF AllThere, envelope
  <1>4. WellFormed(text) /\ text[2].cat \in Products
    BY DEF Wanted
  <1>5. /\ parsed.category = text[2].cat
        /\ parsed.segments \in Seq(SegmentsOf(text))
        /\ Len(parsed.segments) = Cardinality(EndsOf(text))
        /\ \A c \in 1 .. Cardinality(EndsOf(text)) : Full(text, c, parsed.segments[c])
    BY <1>3, <1>4, ParseFull
  <1> HIDE DEF parsed, x
  <1>6. x.category = text[2].cat
    <2>1. text[2].cat # None
      BY <1>4, IngestAssumption
    <2> QED
      BY <1>1, <1>5, <2>1 DEF Coalesce
  <1>7. ~Blank(text)
    <2>1. 1 \in DOMAIN text /\ text[1].k = "wmo"
      BY <1>4 DEF WellFormed, Kind
    <2> QED
      BY <2>1 DEF Blank
  <1>8. DOMAIN parsed.segments = 1 .. Cardinality(EndsOf(text))
    BY <1>5
  <1>9. DOMAIN x.requests = DOMAIN parsed.segments
    BY <1>1 DEF Normalize
  <1>10. ASSUME NEW c \in DOMAIN x.requests PROVE Whole(text, c, x.requests[c])
    <2>1. c \in DOMAIN parsed.segments /\ Full(text, c, parsed.segments[c])
      BY <1>5, <1>8, <1>9
    <2> QED
      BY <1>1, <1>3, <1>5, <2>1, RequestWhole
  <1> QED
    BY <1>1, <1>3, <1>6, <1>7, <1>8, <1>9, <1>10

(* It is to be stored, with all of them. *)
LEMMA ToBeStored ==
  ASSUME NEW e, Text(e) \in Texts, AllThere(env[e]), Wanted(Text(e))
  PROVE  /\ Verdict(e) = "store"
         /\ Loadables(e) = 1 .. Cardinality(EndsOf(Text(e)))
         /\ \A c \in 1 .. Cardinality(EndsOf(Text(e))) :
              Requests(e)[c].fips \cup Requests(e)[c].zones = CodesIn(Between(Text(e), c))
  <1> DEFINE b == Text(e)
             C == Cardinality(EndsOf(b))
  <1>1. /\ env[e].category = b[2].cat
        /\ ~Blank(Delivered(env[e].payload)) /\ ~Blank(b)
        /\ DOMAIN Requests(e) = 1 .. C
        /\ \A c \in DOMAIN Requests(e) : Whole(b, c, Requests(e)[c])
    BY DEF AllThere, Text, Requests
  <1>2. b[2].cat \in Products /\ b[2].cat # "NPW" /\ EndsOf(b) # {}
    BY DEF Wanted, WellFormed
  <1>3. Allowed(env[e].category)
    BY <1>1, <1>2 DEF Allowed
  <1>4. ASSUME NEW c \in DOMAIN Requests(e) PROVE Loadable(e, c) /\ Valid(Requests(e)[c])
    <2>1. Whole(b, c, Requests(e)[c])
      BY <1>1
    <2>2. Requests(e)[c].event # "NPW" /\ Requests(e)[c].event # None
      BY <1>2, <2>1, IngestAssumption DEF Whole
    <2> QED
      BY <1>3, <2>1, <2>2 DEF Whole, Loadable, ShouldLoad, Valid
  <1>5. Loadables(e) = 1 .. C
    BY <1>1, <1>4 DEF Loadables
  <1>6. 1 .. C # {}
    <2>1. C \in Nat /\ C # 0
      BY <1>2, EndsFinite, FS_EmptySet DEF Texts
    <2> HIDE DEF C
    <2>2. 1 \in 1 .. C
      BY <2>1
    <2> QED
      BY <2>2
  <1>7. Verdict(e) = "store"
    BY <1>1, <1>4, <1>5, <1>6 DEF Verdict, Dropped, Loadables
  <1> QED
    BY <1>1, <1>5, <1>7 DEF Whole

-----------------------------------------------------------------------------
(* With one session and no fault nothing is in the handler's way.          *)

Lone == faults = 0 /\ \A s \in Sessions \ {1} : session[s].state = "none"

(* Nothing reached a session that was not joined. *)
Unjoined(s) == session[s].state = "none" => session[s].inbox = <<>> /\ handler[s] = Idle

(* The snapshot is what the tables hold, so the row that made an INSERT    *)
(* fail is in it.                                                          *)
Ready(h, rows) ==
  /\ h.view \in {None, rows}
  /\ h.pc = "get" => h.own[h.event] # Absent \/ rows[h.event] # Absent

(* Whatever was to be stored and was handled has its source row. *)
Handled(e) == fate[<<1, e>>] # "none" => Verdict(e) # "store" \/ source[e] # "none"

LoneInv ==
  /\ \A s \in Sessions : Unjoined(s)
  /\ Lone => Ready(handler[1], event) /\ \A e \in Stanzas : Handled(e)

LEMMA MoveReady ==
  ASSUME Shape, NEW s \in Sessions, HandlerMove(s), Ready(handler[s], event)
  PROVE  Ready(handler'[s], event')
  <1> DEFINE g == handler[s]
             h == handler'[s]
  <1>0. event' = event
    BY MoveIsTo DEF Kept
  <1>1. CASE StartMove(s) \/ LookupMove(s)
    BY <1>1, OpeningFields DEF Ready
  <1>2. CASE InsertMove(s)
    BY <1>2, InsertFields DEF Ready
  <1>3. CASE SegmentMove(s)
    <2>1. h.view = g.view /\ h.pc # "get"
      BY <1>3, SegmentFields, StepFields
    <2> QED
      BY <1>0, <2>1 DEF Ready
  <1>4. CASE MissMove(s) \/ HitMove(s) \/ GetMove(s)
    <2>1. h.view = ViewOf(s) /\ h.pc # "get"
      BY <1>4, MissFields, HitFields, GetFields
    <2>2. ViewOf(s) = event
      BY DEF ViewOf, Ready
    <2> QED
      BY <1>0, <2>1, <2>2 DEF Ready
  <1>5. CASE NewMove(s) \/ UpdateMove(s) \/ StoreMove(s)
    <2>1. h.view = g.view /\ h.pc # "get"
      BY <1>5, NewFields, UpdateFields, StoreFields
    <2> QED
      BY <1>0, <2>1 DEF Ready
  <1>6. CASE TwiceMove(s)
    <2>1. h.view = g.view /\ h.own = g.own /\ h.event = g.event
      BY <1>6, TwiceFields
    <2>2. g.own[g.event] # Absent \/ event[g.event] # Absent
      BY <1>6 DEF TwiceMove, Latest
    <2> QED
      BY <1>0, <2>1, <2>2 DEF Ready
  <1> QED
    BY <1>1, <1>2, <1>3, <1>4, <1>5, <1>6 DEF HandlerMove, EventMove

LEMMA HandledStays ==
  ASSUME NEW e, Handled(e), env' = env, source'[e] # "none" \/ source'[e] = source[e],
         fate'[<<1, e>>] = fate[<<1, e>>]
  PROVE  Handled(e)'
  <1>1. Verdict(e)' = Verdict(e)
    BY DEF Verdict, Dropped, Loadables, Loadable, Requests, Text
  <1> QED
    BY <1>1 DEF Handled

(* A session nobody joined does nothing. *)
LEMMA OnlyJoined ==
  ASSUME Shape, NEW s \in Sessions, Unjoined(s), Handle(s) \/ StatementFails(s)
  PROVE  session[s].state # "none"
  <1> SUFFICES ASSUME session[s].state = "none" PROVE FALSE
    OBVIOUS
  <1>1. handler[s].pc = "idle"
    BY DEF Unjoined, Idle
  <1>2. ~BreakDeadlock(s)
    <2> SUFFICES ASSUME Deadlocked(s) PROVE FALSE
      BY DEF BreakDeadlock
    <2>1. \E t : Blocks(t, s)
      BY DEF Deadlocked
    <2> QED
      BY <1>1, <2>1 DEF Blocks
  <1> QED
    BY <1>1, <1>2 DEF Handle, Receive, Lookup, InsertSource, NextSegment, Find, Create, Get,
                      Update, Store, Commit, StatementFails

LEMMA UnjoinedStays ==
  ASSUME Shape, \A s \in Sessions : Unjoined(s), [Next]_vars
  PROVE  \A s \in Sessions : Unjoined(s)'
  <1>0. /\ session \in [Sessions -> [state : SessionState, inbox : Seq(Stanzas)]]
        /\ handler \in [Sessions -> HandlerRec]
    BY DEF Shape
  <1>1. CASE UNCHANGED vars
    BY <1>1 DEF vars, Unjoined
  <1>2. CASE Send
    <2> SUFFICES ASSUME NEW s \in Sessions PROVE Unjoined(s)'
      OBVIOUS
    <2>1. session'[s] = IF Listening(s)
                        THEN [session[s] EXCEPT !.inbox = Append(session[s].inbox, sent + 1)]
                        ELSE session[s]
      BY <1>2 DEF Send
    <2>2. session'[s].state = session[s].state
      BY <1>0, <2>1
    <2>3. session[s].state = "none" => session'[s] = session[s]
      BY <2>1 DEF Listening
    <2> QED
      BY <1>2, <2>2, <2>3 DEF Send, Unjoined
  <1>3. CASE Crash
    <2> SUFFICES ASSUME NEW s \in Sessions PROVE Unjoined(s)'
      OBVIOUS
    <2>1. /\ session'[s] = IF session[s].state = "none" THEN session[s]
                           ELSE [state |-> "closed", inbox |-> <<>>]
          /\ handler'[s] = Idle
      BY <1>3 DEF Crash
    <2> QED
      BY <2>1 DEF Unjoined
  <1>4. ASSUME NEW t \in Sessions, Join(t) \/ IdleTimeout(t) \/ Close(t), NEW s \in Sessions
        PROVE  Unjoined(s)'
    <2>1. handler' = handler
      BY <1>4 DEF Join, IdleTimeout, Close
    <2>2. CASE s # t
      BY <1>0, <1>4, <2>1, <2>2 DEF Join, IdleTimeout, Close, Unjoined
    <2>3. CASE s = t
      <3>1. session'[s].state # "none"
        BY <1>0, <1>4, <2>3 DEF Join, IdleTimeout, Close
      <3> QED
        BY <3>1 DEF Unjoined
    <2> QED
      BY <2>2, <2>3
  <1>5. ASSUME NEW t \in Sessions, Handle(t) \/ StatementFails(t), NEW s \in Sessions
        PROVE  Unjoined(s)'
    <2>1. session[t].state # "none"
      BY <1>5, OnlyJoined
    <2>2. session'[s].state = session[s].state /\ (s # t => session'[s] = session[s])
      BY <1>0, <1>5 DEF Handle, Receive, Lookup, InsertSource, NextSegment, Find, Create, Get, Update,
                        Store, Commit, BreakDeadlock, StatementFails, RolledBack, Local
    <2>3. s # t => handler'[s] = handler[s]
      BY <1>0, <1>5 DEF Handle, Receive, Lookup, InsertSource, NextSegment, Find, Create, Get, Update,
                        Store, Commit, BreakDeadlock, StatementFails, RolledBack, Local, Ends, Move
    <2> QED
      BY <2>1, <2>2, <2>3 DEF Unjoined
  <1> QED
    BY <1>1, <1>2, <1>3, <1>4, <1>5 DEF Next

(* Nobody was there before, if nobody is there. *)
LEMMA LoneBefore ==
  ASSUME Shape, [Next]_vars, Lone'
  PROVE  Lone
  <1>0. /\ session \in [Sessions -> [state : SessionState, inbox : Seq(Stanzas)]]
        /\ faults \in Nat
    BY DEF Shape
  <1>1. faults' = 0 /\ \A s \in Sessions \ {1} : session'[s].state = "none"
    BY DEF Lone
  <1>2. faults' = faults \/ faults' = faults + 1
    <2>1. ASSUME NEW s \in Sessions, Handle(s) PROVE faults' = faults
      BY <2>1 DEF Handle, Receive, Lookup, InsertSource, NextSegment, Find, Create, Get, Update,
                  Store, Commit, BreakDeadlock, RolledBack, Local
    <2>2. ASSUME NEW s \in Sessions, Join(s) \/ IdleTimeout(s) \/ Close(s) \/ StatementFails(s)
          PROVE  faults' = faults \/ faults' = faults + 1
      BY <2>2 DEF Join, IdleTimeout, Close, StatementFails, Fault, RolledBack
    <2>3. CASE Send \/ Crash \/ UNCHANGED vars
      BY <2>3 DEF Send, Crash, Fault, vars
    <2> QED
      BY <2>1, <2>2, <2>3 DEF Next
  <1>3. faults = 0
    BY <1>0, <1>1, <1>2
  <1>4. ~Crash /\ \A t \in Sessions : ~StatementFails(t)
    BY <1>1, <1>3 DEF Crash, StatementFails, Fault
  <1>5. ASSUME NEW s \in Sessions \ {1} PROVE session[s].state = "none"
    <2>1. session'[s].state = "none"
      BY <1>1
    <2>2. CASE UNCHANGED vars
      BY <2>1, <2>2 DEF vars
    <2>3. CASE Send
      <3>1. session'[s] = IF Listening(s)
                          THEN [session[s] EXCEPT !.inbox = Append(session[s].inbox, sent + 1)]
                          ELSE session[s]
        BY <2>3 DEF Send
      <3> QED
        BY <1>0, <2>1, <3>1
    <2>4. ASSUME NEW t \in Sessions, Join(t) \/ IdleTimeout(t) \/ Close(t)
          PROVE  session[s].state = "none"
      <3>1. t # s
        BY <1>0, <2>1, <2>4 DEF Join, IdleTimeout, Close
      <3> QED
        BY <1>0, <2>1, <2>4, <3>1 DEF Join, IdleTimeout, Close
    <2>5. ASSUME NEW t \in Sessions, Handle(t)
          PROVE  session[s].state = "none"
      <3>1. session'[s].state = session[s].state
        BY <1>0, <2>5 DEF Handle, Receive, Lookup, InsertSource, NextSegment, Find, Create, Get,
                          Update, Store, Commit, BreakDeadlock, RolledBack, Local
      <3> QED
        BY <2>1, <3>1
    <2> QED
      BY <1>4, <2>2, <2>3, <2>4, <2>5 DEF Next
  <1> QED
    BY <1>3, <1>5 DEF Lone

(* What a step of the one handler tells of the stanzas. *)
LEMMA HandleHandled ==
  ASSUME Shape, Lone, LoneInv, Handle(1), 1 \in Sessions, NEW e \in Stanzas, env' = env
  PROVE  Handled(e)'
  <1>0. /\ Handled(e) /\ Ready(handler[1], event)
        /\ fate \in [Sessions \X Stanzas -> Fate]
        /\ source \in [Stanzas -> {"none", "parsed", "ignored"}]
        /\ handler[1] \in HandlerRec /\ Placed(handler[1], commits)
    BY DEF LoneInv, Shape
  <1> DEFINE x == handler[1].stanza
  <1>1. CASE UNCHANGED <<source, fate>>
    BY <1>0, <1>1, HandledStays
  <1>2. CASE Receive(1) /\ fate' # fate
    <2> DEFINE y == Head(session[1].inbox)
    <2>1. Verdict(y) # "store" /\ fate' = [fate EXCEPT ![<<1, y>>] = Verdict(y)] /\ source' = source
      BY <1>2 DEF Receive, tables
    <2> HIDE DEF y
    <2>2. CASE e = y
      <3>1. Verdict(e)' # "store"
        BY <2>1, <2>2 DEF Verdict, Dropped, Loadables, Loadable, Requests, Text
      <3> QED
        BY <3>1 DEF Handled
    <2>3. CASE e # y
      <3>1. fate'[<<1, e>>] = fate[<<1, e>>]
        BY <1>0, <2>1, <2>3
      <3> QED
        BY <1>0, <2>1, <3>1, HandledStays
    <2> QED
      BY <2>2, <2>3
  <1>3. CASE (Lookup(1) \/ InsertSource(1)) /\ fate' # fate
    <2>1. /\ source[x] # "none" /\ source' = source
          /\ fate' = [fate EXCEPT ![<<1, x>>] = "duplicate"]
      BY <1>3 DEF Lookup, InsertSource, Known, Ends, tables
    <2> HIDE DEF x
    <2>2. CASE e = x
      BY <2>1, <2>2 DEF Handled
    <2>3. CASE e # x
      <3>1. fate'[<<1, e>>] = fate[<<1, e>>]
        BY <1>0, <2>1, <2>3
      <3> QED
        BY <1>0, <2>1, <3>1, HandledStays
    <2> QED
      BY <2>2, <2>3
  <1>4. CASE Get(1)
    <2>1. handler[1].pc = "get"
      BY <1>4 DEF Get
    <2>2. Seen(1, ViewOf(1), handler[1].event) # Absent
      BY <1>0, <2>1 DEF Ready, ViewOf, Seen
    <2>3. UNCHANGED <<source, fate>>
      BY <1>4, <2>2 DEF Get, tables
    <2> QED
      BY <1>1, <2>3
  <1>5. CASE Commit(1)
    <2>1. x \in Stanzas
      BY <1>0, <1>5 DEF Commit, Placed
    <2>2. /\ source' = [source EXCEPT ![x] = StatusOf(handler[1])]
          /\ fate' = [fate EXCEPT ![<<1, x>>] = "stored"]
      BY <1>5 DEF Commit, Committed, Ends
    <2>3. StatusOf(handler[1]) # "none"
      BY DEF StatusOf
    <2> HIDE DEF x
    <2>4. CASE e = x
      <3>1. source'[e] # "none"
        BY <1>0, <2>1, <2>2, <2>3, <2>4
      <3> QED
        BY <3>1 DEF Handled
    <2>5. CASE e # x
      <3>1. fate'[<<1, e>>] = fate[<<1, e>>] /\ source'[e] = source[e]
        BY <1>0, <2>1, <2>2, <2>5
      <3> QED
        BY <1>0, <3>1, HandledStays
    <2> QED
      BY <2>4, <2>5
  <1>6. ~BreakDeadlock(1)
    <2> SUFFICES ASSUME Deadlocked(1) PROVE FALSE
      BY DEF BreakDeadlock
    <2>1. PICK t \in Sessions : Blocks(t, 1)
      BY DEF Deadlocked
    <2>2. handler[t] = Idle
      BY <2>1 DEF Blocks, Others, Lone, LoneInv, Unjoined
    <2> QED
      BY <2>1, <2>2 DEF Blocks, Others, InTransaction, Idle
  <1>7. UNCHANGED <<source, fate>> \/ Receive(1) \/ Lookup(1) \/ InsertSource(1) \/ Get(1) \/ Commit(1)
    BY <1>6 DEF Handle, NextSegment, Find, Create, Update, Store, Local, tables
  <1>8. Receive(1) \/ Lookup(1) \/ InsertSource(1) => source' = source
    BY DEF Receive, Lookup, InsertSource, tables
  <1> QED
    BY <1>1, <1>2, <1>3, <1>4, <1>5, <1>7, <1>8

LEMMA LoneNext ==
  ASSUME Shape, LoneInv, [Next]_vars
  PROVE  LoneInv'
  <1>0. 1 \in Sessions /\ env' = env
    BY IngestAssumption, NextEnv
  <1>1. \A s \in Sessions : Unjoined(s)'
    BY UnjoinedStays DEF LoneInv
  <1> SUFFICES ASSUME Lone' PROVE Ready(handler[1], event)' /\ \A e \in Stanzas : Handled(e)'
    BY <1>1 DEF LoneInv
  <1>2. Lone
    BY LoneBefore
  <1>3. /\ Ready(handler[1], event) /\ \A e \in Stanzas : Handled(e)
        /\ \A s \in Sessions : Unjoined(s)
        /\ handler \in [Sessions -> HandlerRec]
    BY <1>2 DEF LoneInv, Shape
  <1>4. ~Crash /\ \A t \in Sessions : ~StatementFails(t)
    <2>1. faults = 0 /\ faults' = 0
      BY <1>2 DEF Lone
    <2> QED
      BY <2>1 DEF Crash, StatementFails, Fault
  <1>5. CASE UNCHANGED vars \/ Send \/ \E s \in Sessions : Join(s) \/ IdleTimeout(s) \/ Close(s)
    <2>1. UNCHANGED <<handler, source, event, fate>>
      BY <1>5 DEF vars, Send, Join, IdleTimeout, Close, tables
    <2> QED
      BY <1>0, <1>3, <2>1, HandledStays DEF Ready
  <1>6. ASSUME NEW s \in Sessions, Handle(s)
        PROVE  Ready(handler[1], event)' /\ \A e \in Stanzas : Handled(e)'
    <2>1. s = 1
      BY <1>2, <1>3, <1>6, OnlyJoined DEF Lone
    <2>2. \A e \in Stanzas : Handled(e)'
      BY <1>0, <1>2, <1>6, <2>1, HandleHandled
    <2>3. Quiet \/ Gone(1) \/ CommitStep(1) \/ HandlerMove(1)
      BY <1>6, <2>1, HandleCases
    <2>4. CASE Quiet
      BY <1>3, <2>2, <2>4 DEF Quiet, Kept, Ready
    <2>5. CASE Gone(1) \/ CommitStep(1)
      <3>1. handler'[1] = Idle
        BY <1>0, <1>3, <2>5 DEF Gone, CommitStep
      <3> QED
        BY <2>2, <3>1 DEF Ready, Idle
    <2>6. CASE HandlerMove(1)
      BY <1>0, <1>3, <2>2, <2>6, MoveReady DEF Ready
    <2> QED
      BY <2>2, <2>3, <2>4, <2>5, <2>6
  <1> QED
    BY <1>4, <1>5, <1>6 DEF Next

LEMMA LoneInvariance == Spec => []LoneInv
  <1>1. Init => LoneInv
    <2>1. Init => \A s \in Sessions : Unjoined(s)
      BY DEF Init, Unjoined
    <2>2. Init => Ready(handler[1], event)
      BY IngestAssumption DEF Init, Ready, Idle
    <2>3. Init => \A e \in Stanzas : Handled(e)
      BY IngestAssumption DEF Init, Handled
    <2> QED
      BY <2>1, <2>2, <2>3 DEF LoneInv
  <1>2. Shape /\ LoneInv /\ [Next]_vars => LoneInv'
    BY LoneNext
  <1> QED
    BY <1>1, <1>2, ShapeInvariance, PTL DEF Spec

(* With one session and no fault a well-formed bulletin that was handled   *)
(* and names its codes one by one is stored with all its segments, each    *)
(* with its own codes.                                                     *)
THEOREM NothingLost == Spec => []NothingLostAlone
  <1> DEFINE Came == \A e \in Stanzas :
               AllThere(env[e]) /\ Text(e) = Decode(Delivered(env[e].payload))
  <1>1. Init => Came
    <2> SUFFICES ASSUME Init PROVE Came
      OBVIOUS
    <2>1. PICK p \in Programmes : env = [e \in Stanzas |-> Received(Envelopes[p[e]])]
      BY DEF Init
    <2>2. \A e \in Stanzas : p[e] \in DOMAIN Envelopes
      BY IngestAssumption
    <2>3. \A n \in DOMAIN Envelopes :
            Received(Envelopes[n]).text = Decode(Delivered(Received(Envelopes[n]).payload))
      BY DEF Received, Stanza
    <2> QED
      BY <2>1, <2>2, <2>3, ReceivedWhole DEF Text
  <1>2. Came /\ [Next]_vars => Came'
    BY NextEnv DEF Text
  <1>3. Came /\ Shape /\ WholeInv /\ LoneInv => NothingLostAlone
    <2> SUFFICES ASSUME Came, Shape, WholeInv, LoneInv, NEW e \in Stanzas,
                        HandledAlone(e), ~InRanges(e)
                 PROVE  AllStored(e)
      BY DEF NothingLostAlone
    <2>0. Text(e) = Sent(e)
      BY DeliveredAsSent DEF Sent, InRanges
    <2> SUFFICES ASSUME Lone, fate[<<1, e>>] # "none", Wanted(Text(e)),
                        NEW c \in 1 .. Cardinality(EndsOf(Text(e)))
                 PROVE  \E m \in RowsOf(e) :
                          /\ m.segment = c
                          /\ RequestOf(m).fips \cup RequestOf(m).zones = CodesIn(Between(Text(e), c))
      BY <2>0 DEF HandledAlone, AllStored, Lone, Wanted
    <2>1. Text(e) \in Texts
      BY DEF Shape, Read, Text, Texts
    <2>2. /\ Verdict(e) = "store"
          /\ Loadables(e) = 1 .. Cardinality(EndsOf(Text(e)))
          /\ Requests(e)[c].fips \cup Requests(e)[c].zones = CodesIn(Between(Text(e), c))
      BY <2>1, ToBeStored
    <2>3. source[e] # "none"
      BY <2>2 DEF LoneInv, Handled
    <2>4. {m.segment : m \in RowsOf(e)} = Loadables(e)
      BY <2>3 DEF WholeInv, StoredWhole
    <2>5. PICK m \in RowsOf(e) : m.segment = c
      BY <2>2, <2>4
    <2>6. RequestOf(m) = Requests(e)[c]
      BY <2>5 DEF RowsOf, RequestOf
    <2> QED
      BY <2>2, <2>5, <2>6
  <1> HIDE DEF Came
  <1> QED
    BY <1>1, <1>2, <1>3, ShapeInvariance, WholeInvariance, LoneInvariance, PTL DEF Spec
=============================================================================
