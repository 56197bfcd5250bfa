-------------------------- MODULE PlvOutcomeProofs --------------------------
(***************************************************************************)
(* What PlvOutcome promises, for every mail.log, every way to cut it into  *)
(* parts and every order in which parts, leg and verdict arrive.           *)
(***************************************************************************)
EXTENDS PlvOutcome, FiniteSetTheorems, TLAPS

-----------------------------------------------------------------------------
(* Lines in their order.                                                   *)

Upto(S, i) == {j \in S : j <= i}

\* The elements of a set of numbers are counted off in their order.
LEMMA Ranks ==
  ASSUME NEW N \in Nat, NEW S \in SUBSET (0 .. N)
  PROVE  /\ IsFiniteSet(S) /\ Cardinality(S) \in Nat
         /\ \A i \in S : Cardinality(Upto(S, i)) \in 1 .. Cardinality(S)
         /\ \A i, k \in S : i < k => Cardinality(Upto(S, i)) < Cardinality(Upto(S, k))
         /\ \A n \in 1 .. Cardinality(S) : \E i \in S : Cardinality(Upto(S, i)) = n
<1>1. IsFiniteSet(S) /\ Cardinality(S) \in Nat
  <2>1. IsFiniteSet(0 .. N)
    BY FS_Interval
  <2>2. IsFiniteSet(S)
    BY <2>1, FS_Subset
  <2> QED  BY <2>2, FS_CardinalityType
<1>2. ASSUME NEW i \in S
      PROVE  /\ IsFiniteSet(Upto(S, i))
             /\ Cardinality(Upto(S, i)) \in 1 .. Cardinality(S)
  <2>1. Upto(S, i) \in SUBSET S /\ i \in Upto(S, i)
    BY DEF Upto
  <2>2. IsFiniteSet(Upto(S, i)) /\ Cardinality(Upto(S, i)) <= Cardinality(S)
    BY <1>1, <2>1, FS_Subset
  <2>3. Cardinality(Upto(S, i)) \in Nat /\ Cardinality(Upto(S, i)) # 0
    BY <2>1, <2>2, FS_CardinalityType, FS_EmptySet
  <2> QED  BY <1>1, <2>2, <2>3
<1>3. ASSUME NEW i \in S, NEW k \in S, i < k
      PROVE  Cardinality(Upto(S, i)) < Cardinality(Upto(S, k))
  <2>1. i \in Nat /\ k \in Nat
    OBVIOUS
  <2>2. Upto(S, i) \in SUBSET Upto(S, k) /\ k \in Upto(S, k) /\ k \notin Upto(S, i)
    <3>1. \A j \in S : j \in Nat
      OBVIOUS
    <3>2. \A j \in S : j <= i => j <= k
      BY <1>3, <2>1, <3>1
    <3>3. k <= k /\ ~(k <= i)
      BY <1>3, <2>1
    <3> QED  BY <3>2, <3>3 DEF Upto
  <2>3. /\ Cardinality(Upto(S, i)) <= Cardinality(Upto(S, k))
        /\ Cardinality(Upto(S, i)) # Cardinality(Upto(S, k))
    BY <1>2, <2>2, FS_Subset
  <2>4. Cardinality(Upto(S, i)) \in Nat /\ Cardinality(Upto(S, k)) \in Nat
    BY <1>2
  <2> QED  BY <2>3, <2>4
<1>4. ASSUME NEW n \in 1 .. Cardinality(S)
      PROVE  \E i \in S : Cardinality(Upto(S, i)) = n
  <2> DEFINE T == 1 .. Cardinality(S)
             f == [i \in S |-> Cardinality(Upto(S, i))]
  <2>1. f \in [S -> T]
    BY <1>2
  <2>2. \A i, k \in S : i # k => f[i] # f[k]
    <3> SUFFICES ASSUME NEW i \in S, NEW k \in S, i < k PROVE f[i] # f[k]
      OBVIOUS
    <3>1. f[i] < f[k] /\ f[i] \in Nat /\ f[k] \in Nat
      BY <1>2, <1>3
    <3> QED  BY <3>1
  <2>3. f \in Injection(S, T)
    BY <2>1, <2>2 DEF Injection, IsInjective
  <2>4. IsFiniteSet(T) /\ Cardinality(T) = Cardinality(S)
    BY <1>1, FS_Interval
  <2>5. f \in Surjection(S, T)
    BY <2>3, <2>4, FS_Injection
  <2>6. \E i \in S : f[i] = n
    BY <2>5 DEF Surjection
  <2> QED  BY <2>6
<1> QED  BY <1>1, <1>2, <1>3, <1>4

Lines == 0 .. Len(Log)

LogLine == [q : {"main", "leg", "filter"},
            kind : Statuses \cup {"handoff", "queued", "other"}]

LEMMA LogType ==
  /\ Len(Log) \in Nat /\ DOMAIN Log = 1 .. Len(Log)
  /\ \A i \in DOMAIN Log : Log[i] \in LogLine
<1>1. Log \in Seq(LogLine)
  BY OutcomeAssumption DEF LogLine
<1> HIDE DEF LogLine
<1> QED  BY <1>1

\* InOrder lists the lines of a set, in their order.
LEMMA InOrderSorts ==
  ASSUME NEW S
  PROVE  /\ InOrder(S) \in Seq(Lines)
         /\ ToSet(InOrder(S)) = S \cap Lines
         /\ \A m, n \in DOMAIN InOrder(S) : m < n => InOrder(S)[m] < InOrder(S)[n]
<1> DEFINE at == S \cap Lines
           c == Cardinality(at)
           Nth(n) == CHOOSE i \in at : Cardinality(Upto(at, i)) = n
<1>1. at \in SUBSET (0 .. Len(Log)) /\ Len(Log) \in Nat
  BY LogType DEF Lines
<1>2. /\ c \in Nat
      /\ \A i \in at : Cardinality(Upto(at, i)) \in 1 .. c
      /\ \A i, k \in at : i < k => Cardinality(Upto(at, i)) < Cardinality(Upto(at, k))
      /\ \A n \in 1 .. c : \E i \in at : Cardinality(Upto(at, i)) = n
  <2> HIDE DEF at
  <2> QED  BY <1>1, Ranks
<1>3. InOrder(S) = [n \in 1 .. c |-> Nth(n)]
  BY DEF InOrder, Upto, Lines
<1> HIDE DEF at, c
<1>4. ASSUME NEW n \in 1 .. c
      PROVE  Nth(n) \in at /\ Cardinality(Upto(at, Nth(n))) = n
  BY <1>2
<1>5. at \subseteq Lines /\ Lines \subseteq Nat
  BY DEF at, Lines
<1>6. InOrder(S) \in Seq(Lines) /\ DOMAIN InOrder(S) = 1 .. c
  <2>1. InOrder(S) \in [1 .. c -> Lines]
    BY <1>3, <1>4, <1>5
  <2> QED  BY <1>2, <2>1
<1>7. ASSUME NEW m \in 1 .. c, NEW n \in 1 .. c, m < n
      PROVE  Nth(m) < Nth(n)
  <2> DEFINE i == Nth(m)  k == Nth(n)
  <2>1. i \in at /\ k \in at /\ i \in Nat /\ k \in Nat
    BY <1>4, <1>5
  <2>2. Cardinality(Upto(at, i)) = m /\ Cardinality(Upto(at, k)) = n
    BY <1>4
  <2> HIDE DEF i, k, Nth
  <2>3. ~(k < i) /\ k # i
    BY <1>2, <1>7, <2>1, <2>2
  <2> QED  BY <2>1, <2>3 DEF i, k
<1>8. ASSUME NEW i \in at PROVE \E n \in 1 .. c : Nth(n) = i
  <2> DEFINE n == Cardinality(Upto(at, i))  k == Nth(n)
  <2>1. n \in 1 .. c
    BY <1>2
  <2>2. k \in at /\ Cardinality(Upto(at, k)) = n
    BY <1>4, <2>1
  <2> HIDE DEF k, Nth
  <2>3. ~(k < i) /\ ~(i < k)
    <3>1. Cardinality(Upto(at, i)) \in Nat
      BY <2>1
    <3> QED  BY <1>2, <2>2, <3>1
  <2>4. k \in Nat /\ i \in Nat
    BY <1>5, <2>2
  <2> QED  BY <2>1, <2>3, <2>4 DEF k
<1>9. ToSet(InOrder(S)) = at
  BY <1>3, <1>4, <1>6, <1>8 DEF ToSet
<1>10. \A m, n \in 1 .. c : m < n => InOrder(S)[m] < InOrder(S)[n]
  <2> HIDE DEF Nth
  <2> QED  BY <1>3, <1>7
<1> QED  BY <1>6, <1>9, <1>10 DEF at

-----------------------------------------------------------------------------
(* The status a row reads off its lines.                                   *)

Tells(i) == i \in DOMAIN Log /\ Log[i].kind \in Statuses \cup {"handoff"}
Reported(i) == IF Log[i].kind = "handoff" THEN "sent" ELSE Log[i].kind

LEMMA ReportedType ==
  ASSUME NEW i, Tells(i)
  PROVE  Reported(i) \in Statuses
BY DEF Tells, Reported, Statuses

\* A set of positions that is not empty has a last one.
LEMMA LastExists ==
  ASSUME NEW N \in Nat, NEW S \in SUBSET (0 .. N), S # {}
  PROVE  \E i \in S : \A j \in S : j <= i
<1>1. /\ IsFiniteSet(S) /\ Cardinality(S) \in Nat
      /\ \A i \in S : Cardinality(Upto(S, i)) \in 1 .. Cardinality(S)
      /\ \A n \in 1 .. Cardinality(S) : \E i \in S : Cardinality(Upto(S, i)) = n
  BY Ranks
<1>2. Cardinality(S) \in 1 .. Cardinality(S)
  <2>1. PICK i \in S : TRUE
    OBVIOUS
  <2>2. Cardinality(Upto(S, i)) \in 1 .. Cardinality(S)
    BY <1>1
  <2> QED  BY <1>1, <2>2
<1>3. PICK i \in S : Cardinality(Upto(S, i)) = Cardinality(S)
  BY <1>1, <1>2
<1>4. Upto(S, i) \in SUBSET S
  BY DEF Upto
<1>5. Upto(S, i) = S
  BY <1>1, <1>3, <1>4, FS_Subset
<1> QED  BY <1>5 DEF Upto

\* ExtractStatus takes the last telling line of the row, if there is one.
LEMMA StatusRead ==
  ASSUME NEW raw \in Seq(Lines)
  PROVE  \/ /\ \A i \in ToSet(raw) : ~Tells(i)
            /\ ExtractStatus(raw) = ""
         \/ \E n \in DOMAIN raw :
              /\ Tells(raw[n]) /\ ExtractStatus(raw) = Reported(raw[n])
              /\ \A m \in DOMAIN raw : Tells(raw[m]) => m <= n
<1> DEFINE at == {i \in DOMAIN raw : raw[i] # 0 /\ Log[raw[i]].kind \in Statuses \cup {"handoff"}}
           n == CHOOSE i \in at : \A j \in at : j <= i
           k == Log[raw[n]].kind
<1>1. \A i \in DOMAIN raw : i \in at <=> Tells(raw[i])
  <2>1. \A i \in DOMAIN raw : raw[i] # 0 <=> raw[i] \in DOMAIN Log
    BY LogType DEF Lines
  <2> QED  BY <2>1 DEF Tells
<1>2. ExtractStatus(raw) = IF at = {} THEN "" ELSE IF k = "handoff" THEN "sent" ELSE k
  BY DEF ExtractStatus
<1>3. CASE at = {}
  BY <1>1, <1>2, <1>3 DEF ToSet
<1>4. CASE at # {}
  <2>1. at \in SUBSET (0 .. Len(raw)) /\ Len(raw) \in Nat
    OBVIOUS
  <2>2. n \in at /\ \A j \in at : j <= n
    <3> HIDE DEF at
    <3>1. \E i \in at : \A j \in at : j <= i
      BY <1>4, <2>1, LastExists
    <3> QED  BY <3>1
  <2>3. at \subseteq DOMAIN raw
    OBVIOUS
  <2> HIDE DEF at, n
  <2>4. ExtractStatus(raw) = Reported(raw[n])
    BY <1>2, <1>4 DEF Reported
  <2> QED  BY <1>1, <2>2, <2>3, <2>4
<1> QED  BY <1>3, <1>4

LEMMA StatusType ==
  ASSUME NEW raw \in Seq(Lines)
  PROVE  ExtractStatus(raw) \in Statuses \cup {""}
BY StatusRead, ReportedType

-----------------------------------------------------------------------------
(* Types.                                                                  *)

LEMMA DerivedType ==
  ASSUME NEW r, r.status \in Statuses \cup {""}
  PROVE  DeriveDisposition(r) \in Dispositions
<1>1. r.status \in {"sent", "saved", "deferred", "bounced", "reject", "spam reject", ""}
  BY DEF Statuses
<1> QED  BY <1>1 DEF DeriveDisposition, Dispositions

Scanner == (Filters \cup Actions \cup {""}) \ {"none"}

\* A row, or one whose disposition was not decided yet.
AnyRow == [raw : Seq(Lines), status : Statuses \cup {""}, disp : Dispositions \cup {""},
           size : BOOLEAN, action : Scanner, link : BOOLEAN]

LEMMA NoRowType ==
  /\ NoRow \in AnyRow /\ NoRow.raw = <<>> /\ NoRow.status = "" /\ NoRow.disp = ""
  /\ NoRow.size = FALSE /\ NoRow.action = "" /\ NoRow.link = FALSE
<1>1. <<>> \in Seq(Lines) /\ "" \in Scanner
  BY DEF Scanner
<1> QED  BY <1>1 DEF NoRow, AnyRow

LEMMA RowType == \A r : r \in Row <=> r \in AnyRow /\ r.disp \in Dispositions
BY DEF Row, AnyRow, Lines, Scanner, Dispositions

LEMMA RowFields ==
  ASSUME NEW r \in Row
  PROVE  /\ r.raw \in Seq(Lines) /\ r.status \in Statuses \cup {""}
         /\ r.disp \in Dispositions /\ r.size \in BOOLEAN
         /\ r.action \in Scanner /\ r.link \in BOOLEAN
         /\ r # NoRow
<1>1. r.disp # ""
  BY DEF Row, Dispositions
<1>2. r # NoRow
  BY <1>1, NoRowType
<1> QED  BY <1>2 DEF Row, Lines, Scanner

\* What a part is made of.
PartRaw(q, a, b) == InOrder(LinesOf(q) \cap (a + 1) .. b)
JudgedHere(q, a, b, known) ==
  /\ "handoff" \in {Log[i].kind : i \in ToSet(PartRaw(q, a, b))}
  /\ known /\ filter # "none"
IsPart(src, q, a, b, known) ==
  /\ src \in Row
  /\ src.status = ExtractStatus(PartRaw(q, a, b))
  /\ JudgedHere(q, a, b, known) =>
       /\ src.raw = InOrder(ToSet(PartRaw(q, a, b)) \cup LinesOf("filter"))
       /\ src.disp = FilterDisposition(filter)
       /\ src.action = filter
       /\ src.link <=> filter = "accept"
  /\ ~JudgedHere(q, a, b, known) =>
       /\ src.raw = PartRaw(q, a, b)
       /\ src.disp = DeriveDisposition(src)
       /\ src.action = ""
       /\ ~src.link

LEMMA Parsed ==
  ASSUME NEW q, NEW a, NEW b, NEW known \in BOOLEAN, filter \in Filters
  PROVE  IsPart(ParseLines(q, a, b, known), q, a, b, known)
<1> DEFINE raw == InOrder(LinesOf(q) \cap (a + 1) .. b)
           all == InOrder(ToSet(raw) \cup LinesOf("filter"))
           kinds == {Log[i].kind : i \in ToSet(raw)}
           st == ExtractStatus(raw)
           sized == "queued" \in kinds
           r == [NoRow EXCEPT !.raw = raw, !.status = st, !.size = sized]
           src == ParseLines(q, a, b, known)
           judged == "handoff" \in kinds /\ known /\ filter # "none"
           derived == [r EXCEPT !.disp = DeriveDisposition(r)]
           onward == filter = "accept"
           scanned == [r EXCEPT !.action = filter, !.link = onward,
                                !.raw = all, !.disp = FilterDisposition(filter)]
<1>1. src = IF judged THEN EnrichFromVerdict(r) ELSE derived
  BY DEF ParseLines
<1>2. raw \in Seq(Lines) /\ all \in Seq(Lines)
  BY InOrderSorts
<1>3. st \in Statuses \cup {""}
  BY <1>2, StatusType
<1>4. /\ r \in AnyRow /\ r.raw = raw /\ r.status = st /\ r.disp = "" /\ r.action = ""
      /\ r.link = FALSE
  <2>1. sized \in BOOLEAN
    OBVIOUS
  <2> HIDE DEF raw, st, sized
  <2> QED  BY <1>2, <1>3, <2>1, NoRowType DEF AnyRow
<1>5. EnrichFromVerdict(r) = scanned
  <2>1. r.raw = raw
    BY <1>4
  <2> HIDE DEF r, raw
  <2> QED  BY <2>1 DEF EnrichFromVerdict
<1>6. ASSUME judged
      PROVE  /\ scanned \in Row /\ scanned.status = st /\ scanned.raw = all
             /\ scanned.disp = FilterDisposition(filter) /\ scanned.action = filter
             /\ scanned.link = onward
  <2>1. FilterDisposition(filter) \in Dispositions /\ filter \in Scanner
    BY <1>6, OutcomeAssumption DEF FilterDisposition, Dispositions, Scanner
  <2>2. onward \in BOOLEAN
    OBVIOUS
  <2> HIDE DEF r, all, st, onward
  <2>3. /\ scanned \in AnyRow /\ scanned.status = r.status /\ scanned.raw = all
        /\ scanned.disp = FilterDisposition(filter) /\ scanned.action = filter
        /\ scanned.link = onward
    BY <1>2, <1>4, <2>1, <2>2 DEF AnyRow
  <2> QED  BY <1>4, <2>1, <2>3, RowType
<1>7. /\ derived \in Row /\ derived.status = st /\ derived.raw = raw
      /\ derived.disp = DeriveDisposition(derived) /\ derived.action = ""
      /\ derived.link = FALSE
  <2>1. DeriveDisposition(r) \in Dispositions
    BY <1>3, <1>4, DerivedType
  <2> HIDE DEF r, raw, st
  <2>4. /\ derived \in AnyRow /\ derived.status = r.status /\ derived.raw = r.raw
        /\ derived.disp = DeriveDisposition(r) /\ derived.action = r.action
        /\ derived.link = r.link /\ derived.size = r.size
    BY <1>4, <2>1 DEF AnyRow
  <2>2. /\ derived \in Row /\ derived.status = st /\ derived.raw = raw
        /\ derived.disp = DeriveDisposition(r) /\ derived.action = ""
        /\ derived.link = FALSE /\ derived.size = r.size
    BY <1>4, <2>1, <2>4, RowType
  <2>3. DeriveDisposition(derived) = DeriveDisposition(r)
    <3> HIDE DEF derived
    <3> QED  BY <1>4, <2>2 DEF DeriveDisposition
  <2> QED  BY <2>2, <2>3
<1> HIDE DEF r, raw, all, st, derived, scanned, judged, src, onward
<1>8. /\ src \in Row /\ src.status = st
      /\ judged => /\ src.raw = all /\ src.disp = FilterDisposition(filter)
                   /\ src.action = filter /\ src.link = onward
      /\ ~judged => /\ src.raw = raw /\ src.disp = DeriveDisposition(src)
                    /\ src.action = "" /\ src.link = FALSE
  BY <1>1, <1>5, <1>6, <1>7
<1>9. (judged => (src.link <=> onward)) /\ (~judged => ~src.link)
  BY <1>8
<1>10. PartRaw(q, a, b) = raw /\ (JudgedHere(q, a, b, known) <=> judged)
  BY DEF PartRaw, JudgedHere, judged, raw
<1>11. all = InOrder(ToSet(raw) \cup LinesOf("filter")) /\ st = ExtractStatus(raw)
  BY DEF all, st
<1>12. onward <=> filter = "accept"
  BY DEF onward
<1>13. IsPart(src, q, a, b, known)
  BY <1>8, <1>9, <1>10, <1>11, <1>12 DEF IsPart
<1> QED  BY <1>13 DEF src

\* What a later part makes of a row.
LEMMA Merged ==
  ASSUME NEW dst \in Row, NEW src \in Row
  PROVE  LET m == MergeRecord(dst, src)
             raw == dst.raw \o InOrder(ToSet(src.raw) \ ToSet(dst.raw))
             st == ExtractStatus(raw)
         IN  /\ m \in Row /\ m.raw = raw
             /\ m.status = IF st # "" THEN st ELSE dst.status
             /\ m.disp = IF IsStatusDisposition(dst.disp) THEN DeriveDisposition(m)
                         ELSE dst.disp
             /\ m.action = IF dst.action = "" THEN src.action ELSE dst.action
<1> DEFINE new == InOrder(ToSet(src.raw) \ ToSet(dst.raw))
           raw == dst.raw \o new
           size == dst.size \/ src.size
           act == IF dst.action = "" THEN src.action ELSE dst.action
           link == dst.link \/ src.link
           r == [dst EXCEPT !.raw = raw, !.size = size, !.action = act, !.link = link]
           st == ExtractStatus(r.raw)
           status == IF st # "" THEN st ELSE r.status
           s == [r EXCEPT !.status = status]
           d == [s EXCEPT !.disp = DeriveDisposition(s)]
           m == MergeRecord(dst, src)
<1>1. m = Reclassify(s)
  BY DEF MergeRecord
<1>2. Reclassify(s) = IF IsStatusDisposition(s.disp) THEN d ELSE s
  BY DEF Reclassify
<1>3. /\ dst \in AnyRow /\ dst.disp \in Dispositions
      /\ dst.raw \in Seq(Lines) /\ dst.action \in Scanner /\ src.action \in Scanner
  BY RowFields, RowType
<1>4. raw \in Seq(Lines) /\ size \in BOOLEAN /\ act \in Scanner /\ link \in BOOLEAN
  <2>1. new \in Seq(Lines)
    BY InOrderSorts
  <2>2. raw \in Seq(Lines)
    <3> HIDE DEF new
    <3> QED  BY <1>3, <2>1
  <2>3. size \in BOOLEAN /\ link \in BOOLEAN
    OBVIOUS
  <2>4. act \in Scanner
    BY <1>3
  <2> QED  BY <2>2, <2>3, <2>4
<1>5. r \in AnyRow /\ r.raw = raw /\ r.status = dst.status /\ r.disp = dst.disp /\ r.action = act
  <2> HIDE DEF raw, size, act, link
  <2> QED  BY <1>3, <1>4 DEF AnyRow
<1>6. status \in Statuses \cup {""} /\ r.status \in Statuses \cup {""}
  <2>1. r.status \in Statuses \cup {""}
    BY <1>3, <1>5 DEF AnyRow
  <2>2. st \in Statuses \cup {""}
    BY <1>4, <1>5, StatusType
  <2> QED  BY <2>1, <2>2
<1>7. /\ s \in AnyRow /\ s.raw = raw /\ s.status = status /\ s.disp = dst.disp /\ s.action = act
  <2> HIDE DEF r, status, raw, act
  <2> QED  BY <1>5, <1>6 DEF AnyRow
<1>8. /\ d \in AnyRow /\ d.raw = raw /\ d.status = status /\ d.action = act
      /\ d.disp = DeriveDisposition(s) /\ d.disp \in Dispositions /\ d.size = s.size
  <2>1. DeriveDisposition(s) \in Dispositions
    BY <1>6, <1>7, DerivedType
  <2> HIDE DEF s, status, raw, act
  <2> QED  BY <1>7, <2>1 DEF AnyRow
<1>9. DeriveDisposition(d) = DeriveDisposition(s)
  <2> HIDE DEF d, s, status
  <2> QED  BY <1>7, <1>8 DEF DeriveDisposition
<1>10. st = ExtractStatus(raw) /\ r.status = dst.status
  BY <1>5
<1> HIDE DEF d, s, st, r, act, raw, m
<1>11. /\ m \in Row /\ m.raw = raw
       /\ m.status = IF st # "" THEN st ELSE dst.status
       /\ m.disp = IF IsStatusDisposition(dst.disp) THEN DeriveDisposition(m) ELSE dst.disp
       /\ m.action = act
  BY <1>1, <1>2, <1>3, <1>7, <1>8, <1>9, <1>10, RowType
<1> QED  BY <1>10, <1>11 DEF m, raw, act

\* What the leg makes of the message's row.
LEMMA FoldedLeg ==
  ASSUME NEW primary \in Row, NEW l \in Row
  PROVE  LET m == MergeDeliveryLeg(primary, l)
         IN  /\ m \in Row
             /\ m.raw = SortRawByTime(primary.raw \o l.raw)
             /\ m.status = IF l.status = "" THEN primary.status ELSE l.status
             /\ m.disp = IF l.status = "" THEN primary.disp ELSE DeriveDisposition(m)
             /\ m.action = primary.action
             /\ m.size = primary.size
<1> DEFINE raw == SortRawByTime(primary.raw \o l.raw)
           dd == DeriveDisposition(l)
           r == [primary EXCEPT !.link = TRUE, !.raw = raw]
           d == [r EXCEPT !.status = l.status, !.disp = dd]
           m == MergeDeliveryLeg(primary, l)
<1>1. m = IF l.status = "" THEN r ELSE d
  BY DEF MergeDeliveryLeg
<1>2. primary \in AnyRow /\ primary.disp \in Dispositions /\ l.status \in Statuses \cup {""}
  BY RowFields, RowType
<1>3. raw \in Seq(Lines) /\ dd \in Dispositions
  BY <1>2, InOrderSorts, DerivedType DEF SortRawByTime
<1>4. /\ r \in AnyRow /\ r.raw = raw /\ r.status = primary.status /\ r.disp = primary.disp
      /\ r.action = primary.action /\ r.size = primary.size
  <2> HIDE DEF raw
  <2> QED  BY <1>2, <1>3 DEF AnyRow
<1>5. /\ d \in AnyRow /\ d.raw = raw /\ d.status = l.status /\ d.disp = dd
      /\ d.action = primary.action /\ d.size = primary.size
  <2> HIDE DEF r, raw, dd
  <2> QED  BY <1>2, <1>3, <1>4 DEF AnyRow
<1>6. l.status # "" => dd = DeriveDisposition(d)
  <2> SUFFICES ASSUME l.status # "" PROVE dd = DeriveDisposition(d)
    OBVIOUS
  <2> HIDE DEF d
  <2> QED  BY <1>5 DEF DeriveDisposition
<1> HIDE DEF r, d, dd, m, raw
<1>7. /\ m \in Row /\ m.raw = raw
      /\ m.status = IF l.status = "" THEN primary.status ELSE l.status
      /\ m.disp = IF l.status = "" THEN primary.disp ELSE DeriveDisposition(m)
      /\ m.action = primary.action /\ m.size = primary.size
  BY <1>1, <1>2, <1>3, <1>4, <1>5, <1>6, RowType
<1> QED  BY <1>7 DEF m, raw

\* What the rspamd verdict makes of it.
LEMMA EnrichedRow ==
  ASSUME NEW r \in Row, action \in Actions \ {"none"}
  PROVE  LET m == EnrichRecordWithRspamd(r)
         IN  /\ m \in Row
             /\ ToSet(m.raw) = ToSet(r.raw) \cup {0}
             /\ m.raw = IF 0 \in ToSet(r.raw) THEN r.raw ELSE Append(r.raw, 0)
             /\ m.status = r.status /\ m.size = r.size /\ m.action = action
             /\ m.disp = IF RspamdDisposition(action) # "" THEN RspamdDisposition(action)
                         ELSE r.disp
<1> DEFINE raw == IF 0 \in ToSet(r.raw) THEN r.raw ELSE Append(r.raw, 0)
           dd == IF RspamdDisposition(action) # "" THEN RspamdDisposition(action) ELSE r.disp
           m == EnrichRecordWithRspamd(r)
<1>1. m = [r EXCEPT !.action = action, !.disp = dd, !.raw = raw]
  BY DEF EnrichRecordWithRspamd
<1>2. r \in AnyRow /\ r.disp \in Dispositions /\ r.raw \in Seq(Lines) /\ 0 \in Lines
  <2>1. 0 \in Lines
    BY LogType DEF Lines
  <2> QED  BY <2>1, RowFields, RowType
<1>3. raw \in Seq(Lines) /\ ToSet(raw) = ToSet(r.raw) \cup {0}
  <2>1. CASE 0 \in ToSet(r.raw)
    BY <1>2, <2>1
  <2>2. CASE 0 \notin ToSet(r.raw)
    <3>1. raw = Append(r.raw, 0)
      BY <2>2
    <3>2. /\ raw \in Seq(Lines) /\ DOMAIN raw = 1 .. Len(r.raw) + 1
          /\ raw[Len(r.raw) + 1] = 0 /\ \A i \in 1 .. Len(r.raw) : raw[i] = r.raw[i]
      BY <1>2, <3>1
    <3>3. DOMAIN r.raw = 1 .. Len(r.raw) /\ Len(r.raw) \in Nat
      BY <1>2
    <3> HIDE DEF raw
    <3>4. ToSet(raw) \subseteq ToSet(r.raw) \cup {0}
      BY <3>2, <3>3 DEF ToSet
    <3>5. ToSet(r.raw) \cup {0} \subseteq ToSet(raw)
      BY <3>2, <3>3 DEF ToSet
    <3> QED  BY <3>2, <3>4, <3>5
  <2> QED  BY <2>1, <2>2
<1>4. dd \in Dispositions /\ action \in Scanner
  BY <1>2 DEF RspamdDisposition, Dispositions, Scanner
<1> HIDE DEF raw, dd
<1>5. /\ m \in AnyRow /\ m.raw = raw /\ m.status = r.status /\ m.size = r.size
      /\ m.action = action /\ m.disp = dd
  BY <1>1, <1>2, <1>3, <1>4 DEF AnyRow
<1> HIDE DEF m
<1>6. m \in Row
  BY <1>4, <1>5, RowType
<1> QED  BY <1>3, <1>5, <1>6 DEF raw, dd, m

-----------------------------------------------------------------------------
(* Type correctness.  That rows stay rows rests on how the flags and the   *)
(* two rows go together: only a message the filter accepted has a leg, a   *)
(* linked one has its row and no leg beside it, and a verdict is held      *)
(* exactly while it was told and there is no row.                          *)

TInv ==
  /\ TypeOK
  /\ filter \in Filters /\ action \in Actions /\ "none" \in {filter, action}
  /\ pending <=> told /\ main = NoRow
  /\ told => action # "none"
  /\ linked => filter = "accept" /\ main # NoRow /\ leg = NoRow
  /\ leg # NoRow => filter = "accept"

\* What FeedMain works with.
LEMMA MainParts ==
  ASSUME TInv, NEW b \in DOMAIN Log, NEW known \in BOOLEAN
  PROVE  LET src == ParseLines("main", fed.main, b, known)
             own == IF main = NoRow THEN src ELSE MergeRecord(main, src)
             fold == src.link /\ leg # NoRow
             r == IF fold THEN MergeDeliveryLeg(own, leg) ELSE own
         IN  /\ src \in Row /\ own \in Row /\ r \in Row
             /\ main # NoRow => main \in Row
             /\ leg # NoRow => leg \in Row
             /\ src.link => filter = "accept"
             /\ pending => action \in Actions \ {"none"} /\ EnrichRecordWithRspamd(r) \in Row
<1> DEFINE src == ParseLines("main", fed.main, b, known)
           own == IF main = NoRow THEN src ELSE MergeRecord(main, src)
           fold == src.link /\ leg # NoRow
           r == IF fold THEN MergeDeliveryLeg(own, leg) ELSE own
<1>1. src \in Row /\ (src.link => filter = "accept")
  <2>1. filter \in Filters
    BY DEF TInv
  <2>2. IsPart(src, "main", fed.main, b, known)
    BY <2>1, Parsed
  <2> HIDE DEF src
  <2> QED  BY <2>2 DEF IsPart
<1> HIDE DEF src
<1>2. (main # NoRow => main \in Row) /\ (leg # NoRow => leg \in Row)
  BY DEF TInv, TypeOK
<1>3. own \in Row
  BY <1>1, <1>2, Merged
<1> HIDE DEF own
<1>4. r \in Row
  BY <1>2, <1>3, FoldedLeg
<1> HIDE DEF r
<1>5. pending => action \in Actions \ {"none"} /\ EnrichRecordWithRspamd(r) \in Row
  BY <1>4, EnrichedRow DEF TInv
<1> QED  BY <1>1, <1>2, <1>3, <1>4, <1>5 DEF src, own, r

\* What FeedLeg works with.
LEMMA LegParts ==
  ASSUME TInv, NEW b \in DOMAIN Log
  PROVE  LET src == ParseLines("leg", fed.leg, b, FALSE)
         IN  /\ src \in Row /\ ~src.link
             /\ linked => main \in Row /\ MergeDeliveryLeg(main, src) \in Row
             /\ leg # NoRow => leg \in Row /\ MergeRecord(leg, src) \in Row
<1> DEFINE src == ParseLines("leg", fed.leg, b, FALSE)
<1>1. src \in Row /\ ~src.link
  <2>1. filter \in Filters
    BY DEF TInv
  <2>2. IsPart(src, "leg", fed.leg, b, FALSE)
    BY <2>1, Parsed
  <2>3. ~JudgedHere("leg", fed.leg, b, FALSE)
    BY DEF JudgedHere
  <2> HIDE DEF src
  <2> QED  BY <2>2, <2>3 DEF IsPart
<1> HIDE DEF src
<1>2. (linked => main \in Row) /\ (leg # NoRow => leg \in Row)
  BY DEF TInv, TypeOK
<1>3. linked => MergeDeliveryLeg(main, src) \in Row
  BY <1>1, <1>2, FoldedLeg
<1>4. leg # NoRow => MergeRecord(leg, src) \in Row
  BY <1>1, <1>2, Merged
<1> QED  BY <1>1, <1>2, <1>3, <1>4 DEF src

LEMMA TInvInit == Init => TInv
<1> SUFFICES ASSUME Init PROVE TInv
  OBVIOUS
<1>1. fed \in [{"main", "leg"} -> 0 .. Len(Log)]
  <2>1. 0 \in 0 .. Len(Log)
    BY LogType
  <2>2. fed = [main |-> 0, leg |-> 0]
    BY DEF Init
  <2>3. fed = [x \in {"main", "leg"} |-> 0]
    BY <2>2
  <2> QED  BY <2>1, <2>3
<1> QED  BY <1>1 DEF Init, TInv, TypeOK

LEMMA TInvMain ==
  ASSUME TInv, NEW b \in DOMAIN Log, FeedMain(b)
  PROVE  TInv'
<1>1. PICK known \in BOOLEAN :
        LET src == ParseLines("main", fed.main, b, known)
            own == IF main = NoRow THEN src ELSE MergeRecord(main, src)
            fold == src.link /\ leg # NoRow
            r == IF fold THEN MergeDeliveryLeg(own, leg) ELSE own
        IN  /\ src.raw # <<>>
            /\ main' = IF pending THEN EnrichRecordWithRspamd(r) ELSE r
            /\ leg' = IF fold THEN NoRow ELSE leg
            /\ linked' = (linked \/ src.link)
            /\ pending' = FALSE
            /\ fed' = [fed EXCEPT !.main = b]
            /\ UNCHANGED <<filter, action, told>>
  BY DEF FeedMain
<1> DEFINE src == ParseLines("main", fed.main, b, known)
           own == IF main = NoRow THEN src ELSE MergeRecord(main, src)
           fold == src.link /\ leg # NoRow
           r == IF fold THEN MergeDeliveryLeg(own, leg) ELSE own
<1>2. /\ src \in Row /\ own \in Row /\ r \in Row
      /\ leg # NoRow => leg \in Row
      /\ src.link => filter = "accept"
      /\ pending => EnrichRecordWithRspamd(r) \in Row
  BY MainParts
<1>3. /\ main' = IF pending THEN EnrichRecordWithRspamd(r) ELSE r
      /\ leg' = IF fold THEN NoRow ELSE leg
      /\ linked' = (linked \/ src.link)
      /\ pending' = FALSE
      /\ fed' = [fed EXCEPT !.main = b]
      /\ UNCHANGED <<filter, action, told>>
  BY <1>1
<1> HIDE DEF r, src, own
<1>4. main' \in Row /\ main' # NoRow
  BY <1>2, <1>3, RowFields
<1>5. leg' \in Row \cup {NoRow}
  BY <1>2, <1>3
<1>6. fed' \in [{"main", "leg"} -> 0 .. Len(Log)]
  <2>1. b \in 0 .. Len(Log)
    BY LogType
  <2> QED  BY <1>3, <2>1 DEF TInv, TypeOK
<1>7. linked' \in BOOLEAN /\ src.link \in BOOLEAN
  BY <1>2, <1>3, RowFields DEF TInv, TypeOK
<1>8. linked' => filter' = "accept" /\ leg' = NoRow
  BY <1>2, <1>3, <1>7 DEF TInv
<1>9. leg' # NoRow => filter' = "accept"
  BY <1>3 DEF TInv
<1> QED  BY <1>3, <1>4, <1>5, <1>6, <1>7, <1>8, <1>9 DEF TInv, TypeOK

LEMMA TInvLeg ==
  ASSUME TInv, NEW b \in DOMAIN Log, FeedLeg(b)
  PROVE  TInv'
<1> DEFINE src == ParseLines("leg", fed.leg, b, FALSE)
<1>1. /\ src \in Row
      /\ linked => main \in Row /\ MergeDeliveryLeg(main, src) \in Row
      /\ leg # NoRow => leg \in Row /\ MergeRecord(leg, src) \in Row
  BY LegParts
<1>2. /\ filter = "accept"
      /\ IF linked
         THEN main' = MergeDeliveryLeg(main, src) /\ UNCHANGED leg
         ELSE leg' = (IF leg = NoRow THEN src ELSE MergeRecord(leg, src)) /\ UNCHANGED main
      /\ fed' = [fed EXCEPT !.leg = b]
      /\ UNCHANGED <<filter, action, linked, pending, told>>
  BY DEF FeedLeg
<1> HIDE DEF src
<1>3. main' \in Row \cup {NoRow} /\ leg' \in Row \cup {NoRow}
  BY <1>1, <1>2 DEF TInv, TypeOK
<1>4. fed' \in [{"main", "leg"} -> 0 .. Len(Log)]
  <2>1. b \in 0 .. Len(Log)
    BY LogType
  <2> QED  BY <1>2, <2>1 DEF TInv, TypeOK
<1>5. main' = NoRow <=> main = NoRow
  BY <1>1, <1>2, RowFields
<1>6. linked' => main' # NoRow /\ leg' = NoRow
  BY <1>2, <1>5 DEF TInv
<1> QED  BY <1>2, <1>3, <1>4, <1>5, <1>6 DEF TInv, TypeOK

LEMMA TInvVerdict ==
  ASSUME TInv, FeedVerdict
  PROVE  TInv'
<1>1. main # NoRow => EnrichRecordWithRspamd(main) \in Row
  BY EnrichedRow DEF TInv, TypeOK, FeedVerdict
<1>2. main' \in Row \cup {NoRow} /\ (main' = NoRow <=> main = NoRow)
  BY <1>1, RowFields DEF FeedVerdict
<1> QED  BY <1>2 DEF FeedVerdict, TInv, TypeOK

LEMMA TInvStep == TInv /\ [Next]_vars => TInv'
<1> SUFFICES ASSUME TInv, [Next]_vars PROVE TInv'
  OBVIOUS
<1>1. ASSUME NEW b \in DOMAIN Log, FeedMain(b) PROVE TInv'
  BY <1>1, TInvMain
<1>2. ASSUME NEW b \in DOMAIN Log, FeedLeg(b) PROVE TInv'
  BY <1>2, TInvLeg
<1>3. CASE FeedVerdict
  BY <1>3, TInvVerdict
<1>4. CASE UNCHANGED vars
  BY <1>4 DEF vars, TInv, TypeOK
<1> QED  BY <1>1, <1>2, <1>3, <1>4 DEF Next

LEMMA TInvAlways == Spec => []TInv
BY TInvInit, TInvStep, PTL DEF Spec

\* The outcome is well typed: parsing, merging, folding and enrichment make a
\* row out of rows (parser.go, store.go, rspamd.go), for every log, every
\* filter and rspamd action, and every order of the parts.
THEOREM OutcomeTypeCorrect == Spec => []TypeOK
<1>1. TInv => TypeOK
  BY DEF TInv
<1> QED  BY <1>1, TInvAlways, PTL

-----------------------------------------------------------------------------
(* A verdict stands.  Only three things stop a message: the content        *)
(* filter, rspamd's reject, and a refusal that Postfix logs as spam.       *)

SpamLogged == \E i \in DOMAIN Log : Log[i].kind = "spam reject"

\* A message that a milter refuses as spam at the end of its data is not
\* queued: no filter sees it, and no greylisting defers it.
OneVerdict == SpamLogged => Filters \subseteq {"none"} /\ "soft reject" \notin Actions

\* What stops a row was read off the log or is a scanner's verdict.
StopsAs(r) ==
  /\ r.status = "spam reject" => SpamLogged
  /\ r.disp \in {"virus", "blocked"} => filter = r.disp
  /\ r.disp = "spam" => filter = "spam" \/ action = "reject" \/ SpamLogged

VInv == StopsAs(main) /\ (leg.status = "spam reject" => SpamLogged)

LEMMA SpamIsLogged ==
  ASSUME NEW raw \in Seq(Lines), ExtractStatus(raw) = "spam reject"
  PROVE  SpamLogged
<1>1. PICK n \in DOMAIN raw : Tells(raw[n]) /\ Reported(raw[n]) = "spam reject"
  BY StatusRead
<1> QED  BY <1>1 DEF Tells, Reported, SpamLogged

\* A disposition derived from a status stops a message only as spam.
LEMMA DerivedStop ==
  ASSUME NEW r, r.status \in Statuses \cup {""}
  PROVE  /\ DeriveDisposition(r) \notin {"virus", "blocked", ""}
         /\ DeriveDisposition(r) = "spam" <=> r.status = "spam reject"
<1>1. r.status \in {"sent", "saved", "deferred", "bounced", "reject", "spam reject", ""}
  BY DEF Statuses
<1> QED  BY <1>1 DEF DeriveDisposition

LEMMA ParsedStops ==
  ASSUME filter \in Filters, NEW q, NEW a, NEW b, NEW known \in BOOLEAN
  PROVE  StopsAs(ParseLines(q, a, b, known))
<1> DEFINE src == ParseLines(q, a, b, known)
<1>1. IsPart(src, q, a, b, known)
  BY Parsed
<1>2. PartRaw(q, a, b) \in Seq(Lines)
  BY InOrderSorts DEF PartRaw
<1> HIDE DEF src
<1>3. src.status = "spam reject" => SpamLogged
  BY <1>1, <1>2, SpamIsLogged DEF IsPart
<1>4. src.status \in Statuses \cup {""}
  BY <1>1, RowFields DEF IsPart
<1>5. StopsAs(src)
  <2>1. CASE src.disp = DeriveDisposition(src)
    BY <1>3, <1>4, <2>1, DerivedStop DEF StopsAs
  <2>2. CASE src.disp = FilterDisposition(filter)
    BY <1>3, <2>2 DEF StopsAs, FilterDisposition
  <2> QED  BY <1>1, <2>1, <2>2 DEF IsPart
<1> QED  BY <1>5 DEF src

LEMMA MergedStops ==
  ASSUME NEW dst \in Row, NEW src \in Row, StopsAs(dst)
  PROVE  /\ StopsAs(MergeRecord(dst, src))
         /\ dst.disp \in Stopped => MergeRecord(dst, src).disp = dst.disp
<1> DEFINE m == MergeRecord(dst, src)
           raw == dst.raw \o InOrder(ToSet(src.raw) \ ToSet(dst.raw))
<1>1. /\ m \in Row
      /\ m.status \in {ExtractStatus(raw), dst.status}
      /\ m.disp = IF IsStatusDisposition(dst.disp) THEN DeriveDisposition(m) ELSE dst.disp
  BY Merged
<1>2. raw \in Seq(Lines)
  <2>1. dst.raw \in Seq(Lines) /\ InOrder(ToSet(src.raw) \ ToSet(dst.raw)) \in Seq(Lines)
    BY RowFields, InOrderSorts
  <2> QED  BY <2>1
<1> HIDE DEF m, raw
<1>3. m.status = "spam reject" => SpamLogged
  BY <1>1, <1>2, SpamIsLogged DEF StopsAs
<1>4. m.status \in Statuses \cup {""}
  BY <1>1, RowFields
<1>5. StopsAs(m)
  BY <1>1, <1>3, <1>4, DerivedStop DEF StopsAs
<1>6. dst.disp \in Stopped => m.disp = dst.disp
  BY <1>1 DEF Stopped, IsStatusDisposition
<1> QED  BY <1>5, <1>6 DEF m

LEMMA FoldedStops ==
  ASSUME NEW primary \in Row, NEW l \in Row, StopsAs(primary), l.status = "spam reject" => SpamLogged
  PROVE  StopsAs(MergeDeliveryLeg(primary, l))
<1> DEFINE m == MergeDeliveryLeg(primary, l)
<1>1. /\ m \in Row
      /\ m.status = IF l.status = "" THEN primary.status ELSE l.status
      /\ m.disp = IF l.status = "" THEN primary.disp ELSE DeriveDisposition(m)
  BY FoldedLeg
<1> HIDE DEF m
<1>2. m.status = "spam reject" => SpamLogged
  BY <1>1 DEF StopsAs
<1>3. m.status \in Statuses \cup {""}
  BY <1>1, RowFields
<1>4. StopsAs(m)
  BY <1>1, <1>2, <1>3, DerivedStop DEF StopsAs
<1> QED  BY <1>4 DEF m

LEMMA EnrichedStops ==
  ASSUME NEW r \in Row, action \in Actions \ {"none"}, StopsAs(r)
  PROVE  StopsAs(EnrichRecordWithRspamd(r))
<1> DEFINE m == EnrichRecordWithRspamd(r)
<1>1. /\ m.status = r.status
      /\ m.disp = IF RspamdDisposition(action) # "" THEN RspamdDisposition(action) ELSE r.disp
  BY EnrichedRow
<1> HIDE DEF m
<1>2. StopsAs(m)
  BY <1>1 DEF StopsAs, RspamdDisposition
<1> QED  BY <1>2 DEF m

LEMMA VInvInit == Init => VInv
BY NoRowType DEF Init, VInv, StopsAs

LEMMA VInvMain ==
  ASSUME TInv, VInv, NEW b \in DOMAIN Log, FeedMain(b)
  PROVE  /\ VInv'
         /\ OneVerdict /\ main.disp \in Stopped => main'.disp = main.disp
<1>1. PICK known \in BOOLEAN :
        LET src == ParseLines("main", fed.main, b, known)
            own == IF main = NoRow THEN src ELSE MergeRecord(main, src)
            fold == src.link /\ leg # NoRow
            r == IF fold THEN MergeDeliveryLeg(own, leg) ELSE own
        IN  /\ main' = IF pending THEN EnrichRecordWithRspamd(r) ELSE r
            /\ leg' = IF fold THEN NoRow ELSE leg
            /\ UNCHANGED <<filter, action>>
  BY DEF FeedMain
<1> DEFINE src == ParseLines("main", fed.main, b, known)
           own == IF main = NoRow THEN src ELSE MergeRecord(main, src)
           fold == src.link /\ leg # NoRow
           r == IF fold THEN MergeDeliveryLeg(own, leg) ELSE own
           e == EnrichRecordWithRspamd(r)
<1>2. /\ src \in Row /\ own \in Row /\ r \in Row
      /\ main # NoRow => main \in Row
      /\ leg # NoRow => leg \in Row
      /\ src.link => filter = "accept"
      /\ pending => action \in Actions \ {"none"}
  BY MainParts
<1>3. /\ main' = IF pending THEN e ELSE r
      /\ leg' = IF fold THEN NoRow ELSE leg
      /\ UNCHANGED <<filter, action>>
  BY <1>1
<1>4. StopsAs(src)
  <2>1. filter \in Filters
    BY DEF TInv
  <2> QED  BY <2>1, ParsedStops
<1> HIDE DEF src
<1>5. StopsAs(own) /\ (main \in Row /\ main.disp \in Stopped => own.disp = main.disp)
  <2>1. CASE main = NoRow
    BY <1>4, <2>1, RowFields
  <2>2. CASE main # NoRow
    <3>1. StopsAs(main)
      BY DEF VInv
    <3> QED  BY <1>2, <2>2, <3>1, MergedStops
  <2> QED  BY <2>1, <2>2
<1> HIDE DEF own
<1>6. StopsAs(r)
  <2>1. leg.status = "spam reject" => SpamLogged
    BY DEF VInv
  <2> QED  BY <1>2, <1>5, <2>1, FoldedStops
<1> HIDE DEF r
<1>7. pending => StopsAs(e)
  BY <1>2, <1>6, EnrichedStops
<1> HIDE DEF e
<1>8. VInv'
  <2>1. StopsAs(main')
    BY <1>3, <1>6, <1>7
  <2>2. leg'.status = "spam reject" => SpamLogged
    BY <1>3, NoRowType DEF VInv
  <2> QED  BY <1>3, <2>1, <2>2 DEF VInv, StopsAs
<1>9. ASSUME OneVerdict, main.disp \in Stopped PROVE main'.disp = main.disp
  <2>1. main # NoRow /\ main \in Row
    BY <1>2, <1>9, NoRowType DEF Stopped
  <2>2. ~pending
    BY <2>1 DEF TInv
  <2>3. filter # "accept"
    <3> SUFFICES ASSUME filter = "accept" PROVE FALSE
      OBVIOUS
    <3>1. SpamLogged \/ action = "reject"
      BY <1>9 DEF VInv, StopsAs, Stopped
    <3>2. action = "none" /\ filter \in Filters
      BY DEF TInv
    <3> QED  BY <1>9, <3>1, <3>2 DEF OneVerdict
  <2> QED  BY <1>2, <1>3, <1>5, <1>9, <2>1, <2>2, <2>3 DEF r
<1> QED  BY <1>8, <1>9

LEMMA VInvLeg ==
  ASSUME TInv, VInv, NEW b \in DOMAIN Log, FeedLeg(b)
  PROVE  /\ VInv'
         /\ OneVerdict => main.disp \notin Stopped
<1> DEFINE src == ParseLines("leg", fed.leg, b, FALSE)
           f == MergeDeliveryLeg(main, src)
           m == MergeRecord(leg, src)
<1>1. /\ src \in Row
      /\ linked => main \in Row
      /\ leg # NoRow => leg \in Row
  BY LegParts
<1>2. /\ filter = "accept"
      /\ IF linked
         THEN main' = f /\ UNCHANGED leg
         ELSE leg' = (IF leg = NoRow THEN src ELSE m) /\ UNCHANGED main
      /\ UNCHANGED <<filter, action>>
  BY DEF FeedLeg
<1>3. StopsAs(src)
  <2>1. filter \in Filters
    BY DEF TInv
  <2> QED  BY <2>1, ParsedStops
<1> HIDE DEF src
<1>4. linked => StopsAs(f)
  BY <1>1, <1>3, FoldedStops DEF VInv, StopsAs
<1>5. leg # NoRow => (m.status = "spam reject" => SpamLogged)
  <2> DEFINE raw == leg.raw \o InOrder(ToSet(src.raw) \ ToSet(leg.raw))
  <2> SUFFICES ASSUME leg # NoRow PROVE m.status = "spam reject" => SpamLogged
    OBVIOUS
  <2>1. m.status \in {ExtractStatus(raw), leg.status}
    BY <1>1, Merged
  <2>2. raw \in Seq(Lines)
    <3>1. leg.raw \in Seq(Lines) /\ InOrder(ToSet(src.raw) \ ToSet(leg.raw)) \in Seq(Lines)
      BY <1>1, RowFields, InOrderSorts
    <3> QED  BY <3>1
  <2> HIDE DEF raw, m
  <2> QED  BY <2>1, <2>2, SpamIsLogged DEF VInv
<1> HIDE DEF f, m
<1>6. StopsAs(main')
  BY <1>2, <1>4 DEF VInv
<1>7. leg'.status = "spam reject" => SpamLogged
  BY <1>2, <1>3, <1>5 DEF VInv, StopsAs
<1>8. VInv'
  BY <1>2, <1>6, <1>7 DEF VInv, StopsAs
<1>9. ASSUME OneVerdict PROVE main.disp \notin Stopped
  <2>1. action = "none" /\ filter \in Filters
    BY <1>2 DEF TInv
  <2> QED  BY <1>2, <1>9, <2>1 DEF VInv, StopsAs, Stopped, OneVerdict
<1> QED  BY <1>8, <1>9

LEMMA VInvVerdict ==
  ASSUME TInv, VInv, FeedVerdict
  PROVE  /\ VInv'
         /\ OneVerdict /\ main.disp \in Stopped => main'.disp = main.disp
<1> DEFINE e == EnrichRecordWithRspamd(main)
<1>1. /\ main' = IF main = NoRow THEN main ELSE e
      /\ action # "none" /\ UNCHANGED <<filter, action, leg>>
  BY DEF FeedVerdict
<1>2. filter = "none" /\ action \in Actions \ {"none"} /\ (main # NoRow => main \in Row)
  BY <1>1 DEF TInv, TypeOK
<1>3. main # NoRow => StopsAs(e)
  BY <1>2, EnrichedStops DEF VInv
<1>4. main # NoRow => e.disp = IF RspamdDisposition(action) # ""
                               THEN RspamdDisposition(action) ELSE main.disp
  BY <1>2, EnrichedRow
<1> HIDE DEF e
<1>5. VInv'
  BY <1>1, <1>3 DEF VInv, StopsAs
<1>6. ASSUME OneVerdict, main.disp \in Stopped PROVE main'.disp = main.disp
  <2>1. main.disp = "spam" /\ (action = "reject" \/ SpamLogged)
    BY <1>2, <1>6 DEF VInv, StopsAs, Stopped
  <2>2. action # "soft reject"
    BY <1>2, <1>6, <2>1 DEF OneVerdict
  <2> QED  BY <1>1, <1>4, <2>1, <2>2 DEF RspamdDisposition
<1> QED  BY <1>5, <1>6

LEMMA VInvStep ==
  TInv /\ VInv /\ [Next]_vars =>
    VInv' /\ (OneVerdict /\ main.disp \in Stopped => main'.disp = main.disp)
<1> SUFFICES ASSUME TInv, VInv, [Next]_vars
             PROVE  VInv' /\ (OneVerdict /\ main.disp \in Stopped => main'.disp = main.disp)
  OBVIOUS
<1> DEFINE Goal == VInv' /\ (OneVerdict /\ main.disp \in Stopped => main'.disp = main.disp)
<1>1. ASSUME NEW b \in DOMAIN Log, FeedMain(b) PROVE Goal
  BY <1>1, VInvMain
<1>2. ASSUME NEW b \in DOMAIN Log, FeedLeg(b) PROVE Goal
  BY <1>2, VInvLeg
<1>3. CASE FeedVerdict
  BY <1>3, VInvVerdict
<1>4. CASE UNCHANGED vars
  BY <1>4 DEF vars, VInv, StopsAs
<1> QED  BY <1>1, <1>2, <1>3, <1>4 DEF Next

\* "A scanner verdict must never be overwritten by a status change"
\* (store.go:555): a row that the filter, rspamd or a refusal stopped stays
\* stopped as it was, whatever parts, legs and verdicts are read later, for
\* every log in which a message refused as spam met no other scanner.
THEOREM VerdictsStand ==
  ASSUME OneVerdict
  PROVE  Spec => VerdictStands
<1>1. TInv /\ VInv /\ [Next]_vars => [main.disp \in Stopped => main'.disp = main.disp]_vars
  BY VInvStep
<1>2. TInv /\ VInv /\ [Next]_vars => VInv'
  BY VInvStep
<1> QED  BY VInvInit, TInvAlways, <1>1, <1>2, PTL DEF Spec, VerdictStands

-----------------------------------------------------------------------------
(* The status is that of the latest line.                                  *)

\* What Postfix logs of one message: the filter's lines have no status, the
\* hand-over to the filter or a refusal as spam is the message's last one,
\* and the leg's come after the message's.  Without the last MergeRecord
\* takes an outcome back, as LegDecides shows.
LogInOrder ==
  /\ \A i \in LinesOf("filter") : ~Tells(i)
  /\ \A i, j \in DOMAIN Log :
       Tells(i) /\ Tells(j) /\ Log[i].q = "main" =>
         /\ Log[j].q = "main" /\ Log[i].kind \in {"handoff", "spam reject"} => j <= i
         /\ Log[j].q = "leg" => i < j

IsLatest(st, S) ==
  \/ (\A i \in S : ~Tells(i)) /\ st = ""
  \/ \E i \in S : Tells(i) /\ st = Reported(i) /\ \A j \in S : Tells(j) => j <= i

Rising(raw) ==
  \A m, n \in DOMAIN raw : m < n /\ Tells(raw[m]) /\ Tells(raw[n]) => raw[m] <= raw[n]

LEMMA RisingLatest ==
  ASSUME NEW raw \in Seq(Lines), Rising(raw)
  PROVE  IsLatest(ExtractStatus(raw), ToSet(raw))
<1>1. CASE (\A i \in ToSet(raw) : ~Tells(i)) /\ ExtractStatus(raw) = ""
  BY <1>1 DEF IsLatest
<1>2. CASE \E n \in DOMAIN raw :
             /\ Tells(raw[n]) /\ ExtractStatus(raw) = Reported(raw[n])
             /\ \A m \in DOMAIN raw : Tells(raw[m]) => m <= n
  <2>1. PICK n \in DOMAIN raw :
             /\ Tells(raw[n]) /\ ExtractStatus(raw) = Reported(raw[n])
             /\ \A m \in DOMAIN raw : Tells(raw[m]) => m <= n
    BY <1>2
  <2>2. ASSUME NEW m \in DOMAIN raw, Tells(raw[m]) PROVE raw[m] <= raw[n]
    <3>1. m \in Int /\ n \in Int /\ raw[n] \in Int /\ m <= n
      BY <2>1, <2>2 DEF Lines
    <3>2. CASE m < n
      BY <2>1, <2>2, <3>2 DEF Rising
    <3>3. CASE m = n
      BY <3>1, <3>3
    <3> QED  BY <3>1, <3>2, <3>3
  <2>3. raw[n] \in ToSet(raw) /\ \A j \in ToSet(raw) : Tells(j) => j <= raw[n]
    BY <2>2 DEF ToSet
  <2> QED  BY <2>1, <2>3 DEF IsLatest
<1> QED  BY <1>1, <1>2, StatusRead

LEMMA SortedRises ==
  ASSUME NEW S
  PROVE  Rising(InOrder(S))
<1> DEFINE raw == InOrder(S)
<1>1. raw \in Seq(Lines) /\ \A m, n \in DOMAIN raw : m < n => raw[m] < raw[n]
  BY InOrderSorts
<1> HIDE DEF raw
<1>2. \A m, n \in DOMAIN raw : m < n => raw[m] <= raw[n]
  BY <1>1 DEF Lines
<1>3. Rising(raw)
  BY <1>2 DEF Rising
<1> QED  BY <1>3 DEF raw

LEMMA LatestUnique ==
  ASSUME NEW S \in SUBSET Lines, NEW x, NEW y, IsLatest(x, S), IsLatest(y, S)
  PROVE  x = y
<1>1. CASE \A i \in S : ~Tells(i)
  BY <1>1 DEF IsLatest
<1>2. CASE \E i \in S : Tells(i)
  <2>1. PICK i \in S : Tells(i) /\ x = Reported(i) /\ \A j \in S : Tells(j) => j <= i
    BY <1>2 DEF IsLatest
  <2>2. PICK k \in S : Tells(k) /\ y = Reported(k) /\ \A j \in S : Tells(j) => j <= k
    BY <1>2 DEF IsLatest
  <2>3. i = k
    <3>1. i <= k /\ k <= i /\ i \in Int /\ k \in Int
      BY <2>1, <2>2 DEF Lines
    <3> QED  BY <3>1
  <2> QED  BY <2>1, <2>2, <2>3
<1> QED  BY <1>1, <1>2

LEMMA ConcatRises ==
  ASSUME NEW s \in Seq(Lines), NEW t \in Seq(Lines), Rising(s), Rising(t),
         \A i \in ToSet(s), j \in ToSet(t) : Tells(i) /\ Tells(j) => i <= j
  PROVE  /\ Rising(s \o t) /\ s \o t \in Seq(Lines)
         /\ ToSet(s \o t) = ToSet(s) \cup ToSet(t)
<1> DEFINE c == s \o t
<1>1. /\ c \in Seq(Lines) /\ Len(s) \in Nat /\ Len(t) \in Nat
      /\ DOMAIN s = 1 .. Len(s) /\ DOMAIN t = 1 .. Len(t)
      /\ DOMAIN c = 1 .. Len(s) + Len(t)
      /\ \A n \in 1 .. Len(s) : c[n] = s[n]
      /\ \A n \in 1 .. Len(t) : c[Len(s) + n] = t[n]
  OBVIOUS
<1>2. \A n \in DOMAIN c : n > Len(s) => /\ n - Len(s) \in DOMAIN t
                                        /\ c[n] = t[n - Len(s)]
  <2> SUFFICES ASSUME NEW n \in DOMAIN c, n > Len(s)
               PROVE  n - Len(s) \in DOMAIN t /\ c[n] = t[n - Len(s)]
    OBVIOUS
  <2> HIDE DEF c
  <2>1. n - Len(s) \in 1 .. Len(t) /\ Len(s) + (n - Len(s)) = n
    BY <1>1
  <2> QED  BY <1>1, <2>1
<1> HIDE DEF c
<1>3. \A n \in DOMAIN c : n <= Len(s) => n \in DOMAIN s /\ c[n] = s[n]
  BY <1>1
<1>4. ToSet(c) = ToSet(s) \cup ToSet(t)
  <2>1. ASSUME NEW n \in DOMAIN c PROVE c[n] \in ToSet(s) \cup ToSet(t)
    <3>1. n <= Len(s) \/ n > Len(s)
      BY <1>1
    <3> QED  BY <1>2, <1>3, <3>1 DEF ToSet
  <2>2. ASSUME NEW n \in DOMAIN s PROVE s[n] \in ToSet(c)
    <3>1. n \in DOMAIN c
      BY <1>1
    <3> QED  BY <1>1, <3>1 DEF ToSet
  <2>3. ASSUME NEW n \in DOMAIN t PROVE t[n] \in ToSet(c)
    <3>1. Len(s) + n \in DOMAIN c
      BY <1>1
    <3> QED  BY <1>1, <3>1 DEF ToSet
  <2> QED  BY <2>1, <2>2, <2>3 DEF ToSet
<1>5. ASSUME NEW m \in DOMAIN c, NEW n \in DOMAIN c, m < n, Tells(c[m]), Tells(c[n])
      PROVE  c[m] <= c[n]
  <2>1. m \in Int /\ n \in Int /\ Len(s) \in Int
    BY <1>1
  <2>2. CASE n <= Len(s)
    <3>1. m <= Len(s)
      BY <1>5, <2>1, <2>2
    <3> QED  BY <1>3, <1>5, <2>2, <3>1 DEF Rising
  <2>3. CASE m > Len(s)
    <3>1. n > Len(s) /\ m - Len(s) < n - Len(s)
      BY <1>5, <2>1, <2>3
    <3> QED  BY <1>2, <1>5, <2>3, <3>1 DEF Rising
  <2>4. CASE m <= Len(s) /\ n > Len(s)
    <3>1. c[m] \in ToSet(s) /\ c[n] \in ToSet(t)
      BY <1>2, <1>3, <2>4 DEF ToSet
    <3> QED  BY <1>5, <3>1
  <2> QED  BY <2>1, <2>2, <2>3, <2>4
<1>6. Rising(c)
  BY <1>5 DEF Rising
<1> QED  BY <1>1, <1>4, <1>6 DEF c

\* A row whose status is that of its latest line.
Current(r) == IsLatest(r.status, ToSet(r.raw)) /\ Rising(r.raw)

\* The telling lines of S come before those of T.
Before(S, T) == \A i \in S, j \in T : Tells(i) /\ Tells(j) => i < j

LEMMA RawInLines ==
  ASSUME NEW r \in Row
  PROVE  r.raw \in Seq(Lines) /\ ToSet(r.raw) \in SUBSET Lines
<1>1. r.raw \in Seq(Lines)
  BY RowFields
<1> QED  BY <1>1 DEF ToSet

LEMMA NothingTold ==
  ASSUME NEW S, IsLatest("", S)
  PROVE  \A i \in S : ~Tells(i)
<1>1. \A i : Tells(i) => Reported(i) # ""
  BY ReportedType DEF Statuses
<1> QED  BY <1>1 DEF IsLatest

IsNews(src, q, a, b) ==
  /\ Current(src)
  /\ \A i \in ToSet(src.raw) : Tells(i) => Log[i].q = q /\ a < i /\ i <= b
  /\ src.raw # <<>> => a <= b
  /\ src.link => \E h \in ToSet(src.raw) :
                   Tells(h) /\ Log[h].q = q /\ Log[h].kind = "handoff" /\ h <= b

LEMMA PartIsCurrent ==
  ASSUME LogInOrder, NEW q, NEW a \in Nat, NEW b \in DOMAIN Log, NEW known \in BOOLEAN,
         NEW src, IsPart(src, q, a, b, known)
  PROVE  IsNews(src, q, a, b)
<1> DEFINE P == LinesOf(q) \cap (a + 1) .. b
           raw == PartRaw(q, a, b)
           F == ToSet(raw) \cup LinesOf("filter")
<1>1. b \in Nat /\ b \in Lines /\ LinesOf(q) \subseteq DOMAIN Log /\ DOMAIN Log \subseteq Lines
  BY LogType DEF LinesOf, Lines
<1>2. P \subseteq Lines
  BY <1>1
<1>3. raw \in Seq(Lines) /\ ToSet(raw) = P /\ Rising(raw)
  <2>1. raw = InOrder(P)
    BY DEF PartRaw
  <2> HIDE DEF P, raw
  <2>2. ToSet(raw) = P \cap Lines /\ raw \in Seq(Lines) /\ Rising(raw)
    BY <2>1, InOrderSorts, SortedRises
  <2> QED  BY <1>2, <2>2
<1>4. \A i \in P : Log[i].q = q /\ a < i /\ i <= b
  <2>1. \A i \in P : Log[i].q = q
    BY DEF LinesOf
  <2>2. \A i \in (a + 1) .. b : a < i /\ i <= b
    BY <1>1
  <2> QED  BY <2>1, <2>2
<1>5. \A i \in LinesOf("filter") : ~Tells(i)
  BY DEF LogInOrder
<1>6. IsLatest(src.status, P)
  <2>1. src.status = ExtractStatus(raw)
    BY DEF IsPart
  <2> HIDE DEF raw, P
  <2> QED  BY <1>3, <2>1, RisingLatest
<1>7. LinesOf("filter") \subseteq Lines
  BY LogType DEF LinesOf, Lines
<1> HIDE DEF P, raw
<1>8. CASE JudgedHere(q, a, b, known)
  <2>1. src.raw = InOrder(F) /\ src \in Row
    BY <1>8 DEF IsPart, raw
  <2>2. ToSet(InOrder(F)) = F \cap Lines /\ Rising(InOrder(F))
    <3> HIDE DEF F
    <3> QED  BY InOrderSorts, SortedRises
  <2>3. F = P \cup LinesOf("filter") /\ F \subseteq Lines
    BY <1>2, <1>3, <1>7
  <2>4. ToSet(src.raw) = P \cup LinesOf("filter") /\ Rising(src.raw)
    BY <2>1, <2>2, <2>3
  <2>5. PICK h \in P : Log[h].kind = "handoff"
    BY <1>3, <1>8 DEF JudgedHere, raw
  <2>6. Tells(h) /\ h <= b /\ a < h /\ Log[h].q = q
    BY <1>1, <1>4, <2>5 DEF Tells, P
  <2>7. a <= b
    <3>1. h \in Int
      BY <1>2 DEF Lines
    <3> QED  BY <1>1, <2>6, <3>1
  <2>8. IsLatest(src.status, ToSet(src.raw))
    BY <1>5, <1>6, <2>4 DEF IsLatest
  <2> QED  BY <1>4, <1>5, <2>4, <2>5, <2>6, <2>7, <2>8 DEF Current, IsNews
<1>9. CASE ~JudgedHere(q, a, b, known)
  <2>1. src.raw = raw /\ ~src.link
    BY <1>9 DEF IsPart, raw
  <2>2. Current(src)
    BY <1>3, <1>6, <2>1 DEF Current
  <2>3. src.raw # <<>> => a <= b
    <3> SUFFICES ASSUME src.raw # <<>> PROVE a <= b
      OBVIOUS
    <3>0. raw # <<>> /\ raw \in Seq(Lines)
      BY <1>3, <2>1
    <3>1. PICK n \in DOMAIN raw : TRUE
      <4>1. Len(raw) \in Nat \ {0}
        BY <3>0
      <4>2. 1 \in DOMAIN raw
        BY <1>3, <4>1
      <4> QED  BY <4>2
    <3>2. raw[n] \in P
      BY <1>3 DEF ToSet
    <3> DEFINE i == raw[n]
    <3>3. a < i /\ i <= b /\ i \in Lines
      BY <1>2, <1>4, <3>2
    <3> HIDE DEF i
    <3>4. i \in Int
      BY <3>3 DEF Lines
    <3> QED  BY <1>1, <3>3, <3>4
  <2> QED  BY <1>3, <1>4, <2>1, <2>2, <2>3 DEF IsNews
<1> QED  BY <1>8, <1>9

LEMMA MergedIsCurrent ==
  ASSUME NEW dst \in Row, NEW src \in Row, Current(dst), Current(src),
         Before(ToSet(dst.raw), ToSet(src.raw))
  PROVE  /\ Current(MergeRecord(dst, src))
         /\ ToSet(MergeRecord(dst, src).raw) = ToSet(dst.raw) \cup ToSet(src.raw)
<1> DEFINE m == MergeRecord(dst, src)
           new == InOrder(ToSet(src.raw) \ ToSet(dst.raw))
           raw == dst.raw \o new
<1>1. /\ m.raw = raw
      /\ m.status = IF ExtractStatus(raw) # "" THEN ExtractStatus(raw) ELSE dst.status
  BY Merged
<1>2. dst.raw \in Seq(Lines) /\ ToSet(dst.raw) \in SUBSET Lines /\ ToSet(src.raw) \in SUBSET Lines
  BY RawInLines
<1>3. new \in Seq(Lines) /\ ToSet(new) = ToSet(src.raw) \ ToSet(dst.raw) /\ Rising(new)
  <2>1. ToSet(new) = (ToSet(src.raw) \ ToSet(dst.raw)) \cap Lines
    BY InOrderSorts
  <2> QED  BY <1>2, <2>1, InOrderSorts, SortedRises
<1> HIDE DEF new
<1>4. /\ Rising(raw) /\ raw \in Seq(Lines)
      /\ ToSet(raw) = ToSet(dst.raw) \cup ToSet(src.raw)
  <2>1. \A i \in ToSet(dst.raw), j \in ToSet(new) : Tells(i) /\ Tells(j) => i <= j
    BY <1>2, <1>3 DEF Before, Lines
  <2>2. ToSet(raw) = ToSet(dst.raw) \cup ToSet(new) /\ Rising(raw) /\ raw \in Seq(Lines)
    BY <1>2, <1>3, <2>1, ConcatRises DEF Current
  <2> QED  BY <1>3, <2>2
<1> HIDE DEF raw, m
<1>5. IsLatest(ExtractStatus(raw), ToSet(raw))
  BY <1>4, RisingLatest
<1>6. ExtractStatus(raw) = "" => dst.status = ""
  <2> SUFFICES ASSUME ExtractStatus(raw) = "" PROVE dst.status = ""
    OBVIOUS
  <2>1. \A i \in ToSet(dst.raw) : ~Tells(i)
    BY <1>4, <1>5, NothingTold
  <2> QED  BY <2>1 DEF Current, IsLatest
<1>7. Current(m) /\ ToSet(m.raw) = ToSet(dst.raw) \cup ToSet(src.raw)
  <2>1. m.status = ExtractStatus(raw) /\ m.raw = raw
    BY <1>1, <1>6
  <2> QED  BY <1>4, <1>5, <2>1 DEF Current
<1> QED  BY <1>7 DEF m

LEMMA FoldedIsCurrent ==
  ASSUME NEW primary \in Row, NEW l \in Row, Current(primary), Current(l),
         Before(ToSet(primary.raw), ToSet(l.raw))
  PROVE  /\ Current(MergeDeliveryLeg(primary, l))
         /\ ToSet(MergeDeliveryLeg(primary, l).raw) = ToSet(primary.raw) \cup ToSet(l.raw)
<1> DEFINE m == MergeDeliveryLeg(primary, l)
           both == primary.raw \o l.raw
           S == ToSet(primary.raw)  T == ToSet(l.raw)
<1>1. /\ m.raw = SortRawByTime(both)
      /\ m.status = IF l.status = "" THEN primary.status ELSE l.status
  BY FoldedLeg
<1>2. /\ primary.raw \in Seq(Lines) /\ S \in SUBSET Lines
      /\ l.raw \in Seq(Lines) /\ T \in SUBSET Lines
  BY RawInLines
<1>3. ToSet(both) = S \cup T
  <2>1. \A i \in S, j \in T : Tells(i) /\ Tells(j) => i <= j
    BY <1>2 DEF Before, Lines
  <2> QED  BY <1>2, <2>1, ConcatRises DEF Current
<1> HIDE DEF m, both
<1>4. ToSet(m.raw) = S \cup T /\ Rising(m.raw)
  <2>1. m.raw = InOrder(S \cup T)
    BY <1>1, <1>3 DEF SortRawByTime
  <2>2. ToSet(m.raw) = (S \cup T) \cap Lines /\ Rising(m.raw)
    BY <2>1, InOrderSorts, SortedRises
  <2> QED  BY <1>2, <2>2
<1>5. IsLatest(m.status, S \cup T)
  <2>0. IsLatest(primary.status, S) /\ IsLatest(l.status, T)
    BY DEF Current
  <2> HIDE DEF S, T
  <2>1. CASE l.status = ""
    <3>1. \A i \in T : ~Tells(i)
      BY <2>0, <2>1, NothingTold
    <3> QED  BY <1>1, <2>0, <2>1, <3>1 DEF IsLatest
  <2>2. CASE l.status # ""
    <3>1. PICK i \in T : Tells(i) /\ l.status = Reported(i) /\ \A j \in T : Tells(j) => j <= i
      BY <2>0, <2>2 DEF IsLatest
    <3>2. \A j \in S : Tells(j) => j <= i
      BY <1>2, <3>1 DEF Before, Lines, S, T
    <3> QED  BY <1>1, <2>2, <3>1, <3>2 DEF IsLatest
  <2> QED  BY <2>1, <2>2
<1> QED  BY <1>4, <1>5 DEF Current, m

LEMMA EnrichedIsCurrent ==
  ASSUME NEW r \in Row, action \in Actions \ {"none"}, Current(r)
  PROVE  /\ Current(EnrichRecordWithRspamd(r))
         /\ ToSet(EnrichRecordWithRspamd(r).raw) = ToSet(r.raw) \cup {0}
<1> DEFINE m == EnrichRecordWithRspamd(r)
<1>1. /\ ToSet(m.raw) = ToSet(r.raw) \cup {0} /\ m.status = r.status
      /\ m.raw = IF 0 \in ToSet(r.raw) THEN r.raw ELSE Append(r.raw, 0)
  BY EnrichedRow
<1>2. ~Tells(0)
  BY LogType DEF Tells
<1>3. r.raw \in Seq(Lines)
  BY RawInLines
<1> HIDE DEF m
<1>4. Rising(m.raw)
  <2>1. CASE 0 \in ToSet(r.raw)
    BY <1>1, <2>1 DEF Current
  <2>2. CASE 0 \notin ToSet(r.raw)
    <3> DEFINE n == Len(r.raw) + 1
    <3>1. /\ m.raw = Append(r.raw, 0) /\ DOMAIN r.raw = 1 .. Len(r.raw) /\ Len(r.raw) \in Nat
      BY <1>1, <1>3, <2>2
    <3>2. DOMAIN m.raw = 1 .. n /\ m.raw[n] = 0 /\ \A i \in 1 .. Len(r.raw) : m.raw[i] = r.raw[i]
      BY <1>3, <3>1
    <3>3. \A i \in DOMAIN m.raw : Tells(m.raw[i]) => i \in DOMAIN r.raw /\ m.raw[i] = r.raw[i]
      BY <1>2, <3>1, <3>2
    <3> QED  BY <3>3 DEF Rising, Current
  <2> QED  BY <2>1, <2>2
<1>5. IsLatest(m.status, ToSet(m.raw))
  BY <1>1, <1>2 DEF Current, IsLatest
<1> QED  BY <1>1, <1>4, <1>5 DEF Current, m

\* Both rows are current; of the message's row every telling line is one of
\* its own, or of the leg once the two are linked, and then the hand-over,
\* the message's last status, was read.
HandedOver(n) ==
  \E h \in DOMAIN Log : Tells(h) /\ Log[h].q = "main" /\ Log[h].kind = "handoff" /\ h <= n

SInv ==
  /\ Current(main) /\ Current(leg)
  /\ \A i \in ToSet(main.raw) : Tells(i) =>
       \/ Log[i].q = "main" /\ i <= fed.main
       \/ Log[i].q = "leg" /\ i <= fed.leg /\ linked
  /\ \A i \in ToSet(leg.raw) : Tells(i) => Log[i].q = "leg" /\ i <= fed.leg
  /\ linked => HandedOver(fed.main)

LEMMA NoRowIsCurrent == Current(NoRow) /\ ToSet(NoRow.raw) = {}
<1>1. NoRow.raw = <<>> /\ NoRow.status = ""
  BY NoRowType
<1>2. DOMAIN NoRow.raw = {} /\ ToSet(NoRow.raw) = {}
  <2>1. <<>> \in Seq(Lines) /\ Len(<<>>) = 0
    OBVIOUS
  <2>2. DOMAIN <<>> = {}
    BY <2>1
  <2> QED  BY <1>1, <2>2 DEF ToSet
<1> QED  BY <1>1, <1>2 DEF Current, IsLatest, Rising

LEMMA FedType ==
  ASSUME TInv
  PROVE  fed.main \in Nat /\ fed.leg \in Nat /\ \A i : Tells(i) => i \in Nat
BY LogType DEF TInv, TypeOK, Tells

LEMMA NewsOf ==
  ASSUME LogInOrder, TInv, NEW q \in {"main", "leg"}, NEW b \in DOMAIN Log,
         NEW known \in BOOLEAN, NEW src, IsPart(src, q, fed[q], b, known)
  PROVE  IsNews(src, q, fed[q], b)
<1>1. fed[q] \in Nat
  BY FedType
<1> QED  BY <1>1, PartIsCurrent

OwnRow(src) == IF main = NoRow THEN src ELSE MergeRecord(main, src)
FoldRow(src) ==
  IF src.link /\ leg # NoRow THEN MergeDeliveryLeg(OwnRow(src), leg) ELSE OwnRow(src)

\* A part of the message comes after all the status lines the row shows.
LEMMA PartComesAfter ==
  ASSUME LogInOrder, TInv, SInv, NEW b \in DOMAIN Log, NEW known \in BOOLEAN,
         NEW src, IsPart(src, "main", fed.main, b, known)
  PROVE  Before(ToSet(main.raw), ToSet(src.raw))
<1> SUFFICES ASSUME NEW i \in ToSet(main.raw), NEW j \in ToSet(src.raw), Tells(i), Tells(j)
             PROVE  i < j
  BY DEF Before
<1>1. fed.main \in Nat /\ i \in Nat /\ j \in Nat
  BY FedType
<1>2. Log[j].q = "main" /\ fed.main < j
  BY <1>1, NewsOf DEF IsNews
<1>3. CASE i <= fed.main
  BY <1>1, <1>2, <1>3
<1>4. CASE linked
  <2>1. PICK h \in DOMAIN Log : /\ Tells(h) /\ Log[h].q = "main"
                                /\ Log[h].kind = "handoff" /\ h <= fed.main
    BY <1>4 DEF SInv, HandedOver
  <2>2. j <= h /\ h \in Nat
    <3>1. h \in Nat /\ j \in DOMAIN Log
      BY <2>1, LogType DEF Tells
    <3> QED  BY <1>2, <2>1, <3>1 DEF LogInOrder
  <2> QED  BY <1>1, <1>2, <2>1, <2>2
<1> QED  BY <1>3, <1>4 DEF SInv

LEMMA OwnIsCurrent ==
  ASSUME LogInOrder, TInv, SInv, NEW b \in DOMAIN Log, NEW known \in BOOLEAN,
         NEW src, IsPart(src, "main", fed.main, b, known)
  PROVE  /\ OwnRow(src) \in Row /\ Current(OwnRow(src))
         /\ ToSet(OwnRow(src).raw) = ToSet(main.raw) \cup ToSet(src.raw)
<1>1. src \in Row /\ Current(src)
  <2>1. IsNews(src, "main", fed.main, b)
    BY NewsOf
  <2> QED  BY <2>1 DEF IsPart, IsNews
<1>2. CASE main = NoRow
  BY <1>1, <1>2, NoRowIsCurrent DEF OwnRow
<1>3. CASE main # NoRow
  <2>1. main \in Row /\ Current(main)
    BY <1>3 DEF TInv, TypeOK, SInv
  <2>2. Before(ToSet(main.raw), ToSet(src.raw))
    BY PartComesAfter
  <2>3. MergeRecord(main, src) \in Row
    BY <1>1, <2>1, Merged
  <2>4. /\ Current(MergeRecord(main, src))
        /\ ToSet(MergeRecord(main, src).raw) = ToSet(main.raw) \cup ToSet(src.raw)
    BY <1>1, <2>1, <2>2, MergedIsCurrent
  <2> QED  BY <1>3, <2>3, <2>4 DEF OwnRow
<1> QED  BY <1>2, <1>3

\* When the leg is folded the row shows the message's own lines only.
LEMMA FoldIsCurrent ==
  ASSUME LogInOrder, TInv, SInv, NEW b \in DOMAIN Log, NEW known \in BOOLEAN,
         NEW src, IsPart(src, "main", fed.main, b, known)
  PROVE  /\ FoldRow(src) \in Row /\ Current(FoldRow(src))
         /\ ToSet(FoldRow(src).raw) =
              ToSet(OwnRow(src).raw) \cup
                (IF src.link /\ leg # NoRow THEN ToSet(leg.raw) ELSE {})
<1>1. /\ OwnRow(src) \in Row /\ Current(OwnRow(src))
      /\ ToSet(OwnRow(src).raw) = ToSet(main.raw) \cup ToSet(src.raw)
  BY OwnIsCurrent
<1>2. CASE src.link /\ leg # NoRow
  <2>1. leg \in Row /\ Current(leg) /\ ~linked
    BY <1>2 DEF TInv, TypeOK, SInv
  <2>2. Before(ToSet(OwnRow(src).raw), ToSet(leg.raw))
    <3> SUFFICES ASSUME NEW i \in ToSet(OwnRow(src).raw), NEW j \in ToSet(leg.raw),
                        Tells(i), Tells(j)
                 PROVE  i < j
      BY DEF Before
    <3>1. Log[i].q = "main"
      <4>1. \A x \in ToSet(src.raw) : Tells(x) => Log[x].q = "main"
        BY NewsOf DEF IsNews
      <4> QED  BY <1>1, <2>1, <4>1 DEF SInv
    <3>2. Log[j].q = "leg"
      BY DEF SInv
    <3> QED  BY <3>1, <3>2 DEF LogInOrder, Tells
  <2>3. MergeDeliveryLeg(OwnRow(src), leg) \in Row
    BY <1>1, <2>1, FoldedLeg
  <2>4. /\ Current(MergeDeliveryLeg(OwnRow(src), leg))
        /\ ToSet(MergeDeliveryLeg(OwnRow(src), leg).raw) =
             ToSet(OwnRow(src).raw) \cup ToSet(leg.raw)
    BY <1>1, <2>1, <2>2, FoldedIsCurrent
  <2> QED  BY <1>2, <2>3, <2>4 DEF FoldRow
<1>3. CASE ~(src.link /\ leg # NoRow)
  BY <1>1, <1>3 DEF FoldRow
<1> QED  BY <1>2, <1>3

\* FeedMain, its part named.
LEMMA MainShape ==
  ASSUME TInv, NEW b \in DOMAIN Log, FeedMain(b)
  PROVE  \E known \in BOOLEAN, src \in Row :
           /\ IsPart(src, "main", fed.main, b, known)
           /\ src.raw # <<>>
           /\ main' = IF pending THEN EnrichRecordWithRspamd(FoldRow(src)) ELSE FoldRow(src)
           /\ leg' = IF src.link /\ leg # NoRow THEN NoRow ELSE leg
           /\ linked' = (linked \/ src.link)
           /\ fed' = [fed EXCEPT !.main = b]
           /\ pending' = FALSE
           /\ UNCHANGED <<filter, action, told>>
<1>1. PICK known \in BOOLEAN :
        LET src == ParseLines("main", fed.main, b, known)
            own == IF main = NoRow THEN src ELSE MergeRecord(main, src)
            fold == src.link /\ leg # NoRow
            r == IF fold THEN MergeDeliveryLeg(own, leg) ELSE own
        IN  /\ src.raw # <<>>
            /\ main' = IF pending THEN EnrichRecordWithRspamd(r) ELSE r
            /\ leg' = IF fold THEN NoRow ELSE leg
            /\ linked' = (linked \/ src.link)
            /\ pending' = FALSE
            /\ fed' = [fed EXCEPT !.main = b]
            /\ UNCHANGED <<filter, action, told>>
  BY DEF FeedMain
<1> DEFINE src == ParseLines("main", fed.main, b, known)
<1>2. IsPart(src, "main", fed.main, b, known)
  <2>1. filter \in Filters
    BY DEF TInv
  <2> QED  BY <2>1, Parsed
<1>3. /\ src.raw # <<>>
      /\ main' = IF pending THEN EnrichRecordWithRspamd(FoldRow(src)) ELSE FoldRow(src)
      /\ leg' = IF src.link /\ leg # NoRow THEN NoRow ELSE leg
      /\ linked' = (linked \/ src.link)
      /\ fed' = [fed EXCEPT !.main = b]
      /\ pending' = FALSE
      /\ UNCHANGED <<filter, action, told>>
  BY <1>1 DEF FoldRow, OwnRow
<1> HIDE DEF src
<1> QED  BY <1>2, <1>3 DEF IsPart

LEMMA LegShape ==
  ASSUME TInv, NEW b \in DOMAIN Log, FeedLeg(b)
  PROVE  \E src \in Row :
           /\ IsPart(src, "leg", fed.leg, b, FALSE)
           /\ src.raw # <<>> /\ filter = "accept" /\ ~src.link
           /\ linked => main' = MergeDeliveryLeg(main, src) /\ leg' = leg
           /\ ~linked => /\ leg' = (IF leg = NoRow THEN src ELSE MergeRecord(leg, src))
                         /\ main' = main
           /\ fed' = [fed EXCEPT !.leg = b]
           /\ UNCHANGED <<filter, action, linked, pending, told>>
<1> DEFINE src == ParseLines("leg", fed.leg, b, FALSE)
<1>1. IsPart(src, "leg", fed.leg, b, FALSE) /\ ~JudgedHere("leg", fed.leg, b, FALSE)
  <2>1. filter \in Filters
    BY DEF TInv
  <2> QED  BY <2>1, Parsed DEF JudgedHere
<1>2. /\ filter = "accept" /\ src.raw # <<>>
      /\ IF linked
         THEN main' = MergeDeliveryLeg(main, src) /\ UNCHANGED leg
         ELSE leg' = (IF leg = NoRow THEN src ELSE MergeRecord(leg, src)) /\ UNCHANGED main
      /\ fed' = [fed EXCEPT !.leg = b]
      /\ UNCHANGED <<filter, action, linked, pending, told>>
  BY DEF FeedLeg
<1> HIDE DEF src
<1> QED  BY <1>1, <1>2 DEF IsPart

LEMMA LessIsAtMost == \A x, y \in Nat : x < y => x <= y
OBVIOUS

LEMMA SInvInit == Init => SInv
<1> SUFFICES ASSUME Init PROVE SInv
  OBVIOUS
<1>1. main = NoRow /\ leg = NoRow /\ linked = FALSE
  BY DEF Init
<1> QED  BY <1>1, NoRowIsCurrent DEF SInv

LEMMA SInvMain ==
  ASSUME LogInOrder, TInv, SInv, NEW b \in DOMAIN Log, FeedMain(b)
  PROVE  SInv'
<1>1. PICK known \in BOOLEAN, src \in Row :
        /\ IsPart(src, "main", fed.main, b, known)
        /\ src.raw # <<>>
        /\ main' = IF pending THEN EnrichRecordWithRspamd(FoldRow(src)) ELSE FoldRow(src)
        /\ leg' = IF src.link /\ leg # NoRow THEN NoRow ELSE leg
        /\ linked' = (linked \/ src.link)
        /\ fed' = [fed EXCEPT !.main = b]
        /\ UNCHANGED <<filter, action, told>>
  BY MainShape
<1> DEFINE r == FoldRow(src)
<1>2. /\ r \in Row /\ Current(r)
      /\ ToSet(r.raw) = ToSet(main.raw) \cup ToSet(src.raw) \cup
           (IF src.link /\ leg # NoRow THEN ToSet(leg.raw) ELSE {})
  BY <1>1, OwnIsCurrent, FoldIsCurrent
<1> HIDE DEF r
<1>3. IsNews(src, "main", fed.main, b)
  BY <1>1, NewsOf
<1>4. /\ Current(main')
      /\ \A i : Tells(i) => (i \in ToSet(main'.raw) <=> i \in ToSet(r.raw))
  <2>1. CASE ~pending
    BY <1>1, <1>2, <2>1 DEF r
  <2>2. CASE pending
    <3>1. action \in Actions \ {"none"}
      BY <2>2 DEF TInv
    <3>2. main' = EnrichRecordWithRspamd(r)
      BY <1>1, <2>2 DEF r
    <3>3. Current(main') /\ ToSet(main'.raw) = ToSet(r.raw) \cup {0}
      BY <1>2, <3>1, <3>2, EnrichedIsCurrent
    <3>4. ~Tells(0)
      BY LogType DEF Tells
    <3> QED  BY <3>3, <3>4
  <2> QED  BY <2>1, <2>2
<1>5. Current(leg') /\ ToSet(leg'.raw) \subseteq ToSet(leg.raw)
  BY <1>1, NoRowIsCurrent DEF SInv
<1>6. /\ fed'.main = b /\ fed'.leg = fed.leg /\ b \in Nat /\ fed.main \in Nat /\ fed.leg \in Nat
      /\ fed.main <= b
  <2>1. b \in Nat /\ fed.main \in Nat /\ fed.leg \in Nat
    BY FedType, LogType
  <2>2. fed'.main = b /\ fed'.leg = fed.leg
    BY <1>1 DEF TInv, TypeOK
  <2> QED  BY <1>1, <1>3, <2>1, <2>2 DEF IsNews
<1>7. \A i : Tells(i) /\ i <= fed.main => i <= b
  <2>1. \A i : Tells(i) => i \in Nat
    BY FedType
  <2> QED  BY <1>6, <2>1
<1>8. linked' <=> linked \/ src.link
  BY <1>1
<1>9. ASSUME NEW i \in ToSet(main'.raw), Tells(i)
      PROVE  \/ Log[i].q = "main" /\ i <= fed'.main
             \/ Log[i].q = "leg" /\ i <= fed'.leg /\ linked'
  <2>1. i \in ToSet(r.raw)
    BY <1>4, <1>9
  <2>2. CASE i \in ToSet(main.raw)
    BY <1>6, <1>7, <1>8, <1>9, <2>2 DEF SInv
  <2>3. CASE i \in ToSet(src.raw)
    BY <1>3, <1>6, <1>9, <2>3 DEF IsNews
  <2>4. CASE src.link /\ i \in ToSet(leg.raw)
    BY <1>6, <1>8, <1>9, <2>4 DEF SInv
  <2> QED  BY <1>2, <2>1, <2>2, <2>3, <2>4
<1>10. \A i \in ToSet(leg'.raw) : Tells(i) => Log[i].q = "leg" /\ i <= fed'.leg
  BY <1>5, <1>6 DEF SInv
<1>11. linked' => HandedOver(b)
  <2>1. CASE linked
    BY <1>7, <2>1 DEF SInv, HandedOver
  <2>2. CASE src.link
    <3>1. PICK h \in ToSet(src.raw) :
            Tells(h) /\ Log[h].q = "main" /\ Log[h].kind = "handoff" /\ h <= b
      BY <1>3, <2>2 DEF IsNews
    <3> QED  BY <3>1 DEF HandedOver, Tells
  <2> QED  BY <1>8, <2>1, <2>2
<1> QED  BY <1>4, <1>5, <1>6, <1>9, <1>10, <1>11 DEF SInv, HandedOver, Current, IsLatest, Rising

LEMMA SInvLeg ==
  ASSUME LogInOrder, TInv, SInv, NEW b \in DOMAIN Log, FeedLeg(b)
  PROVE  /\ SInv'
         /\ ToSet(main.raw) \subseteq ToSet(main'.raw)
<1>1. PICK src \in Row :
        /\ IsPart(src, "leg", fed.leg, b, FALSE)
        /\ src.raw # <<>>
        /\ linked => main' = MergeDeliveryLeg(main, src) /\ leg' = leg
        /\ ~linked => /\ leg' = (IF leg = NoRow THEN src ELSE MergeRecord(leg, src))
                      /\ main' = main
        /\ fed' = [fed EXCEPT !.leg = b]
        /\ UNCHANGED <<filter, action, linked, pending, told>>
  BY LegShape
<1>2. IsNews(src, "leg", fed.leg, b) /\ Current(src)
  <2>1. IsNews(src, "leg", fed.leg, b)
    BY <1>1, NewsOf
  <2> QED  BY <2>1 DEF IsNews
<1>3. /\ fed'.leg = b /\ fed'.main = fed.main /\ b \in Nat /\ fed.main \in Nat /\ fed.leg \in Nat
      /\ fed.leg <= b
  <2>1. b \in Nat /\ fed.main \in Nat /\ fed.leg \in Nat
    BY FedType, LogType
  <2>2. fed'.leg = b /\ fed'.main = fed.main
    BY <1>1 DEF TInv, TypeOK
  <2> QED  BY <1>1, <1>2, <2>1, <2>2 DEF IsNews
<1>4. \A i : Tells(i) /\ i <= fed.leg => i <= b
  <2>1. \A i : Tells(i) => i \in Nat
    BY FedType
  <2> QED  BY <1>3, <2>1
<1>5. \A i \in ToSet(src.raw) : Tells(i) => Log[i].q = "leg" /\ fed.leg < i /\ i <= b
  BY <1>2 DEF IsNews
<1>6. \A i, j : Tells(i) /\ Tells(j) /\ i <= fed.leg /\ fed.leg < j => i < j
  <2>1. \A i : Tells(i) => i \in Nat
    BY FedType
  <2> QED  BY <1>3, <2>1
<1>7. CASE linked
  <2>1. main \in Row /\ Current(main)
    BY <1>7 DEF TInv, TypeOK, SInv
  <2>2. Before(ToSet(main.raw), ToSet(src.raw))
    <3> SUFFICES ASSUME NEW i \in ToSet(main.raw), NEW j \in ToSet(src.raw), Tells(i), Tells(j)
                 PROVE  i < j
      BY DEF Before
    <3>1. Log[j].q = "leg" /\ fed.leg < j
      BY <1>5
    <3>2. CASE Log[i].q = "main"
      BY <3>1, <3>2 DEF LogInOrder, Tells
    <3>3. CASE i <= fed.leg
      BY <1>6, <3>1, <3>3
    <3> QED  BY <3>2, <3>3 DEF SInv
  <2>3. Current(main') /\ ToSet(main'.raw) = ToSet(main.raw) \cup ToSet(src.raw)
    BY <1>1, <1>2, <1>7, <2>1, <2>2, FoldedIsCurrent
  <2>4. ASSUME NEW i \in ToSet(main'.raw), Tells(i)
        PROVE  \/ Log[i].q = "main" /\ i <= fed'.main
               \/ Log[i].q = "leg" /\ i <= fed'.leg /\ linked'
    <3>1. CASE i \in ToSet(main.raw)
      BY <1>1, <1>3, <1>4, <2>4, <3>1 DEF SInv
    <3>2. CASE i \in ToSet(src.raw)
      BY <1>1, <1>3, <1>5, <1>7, <2>4, <3>2
    <3> QED  BY <2>3, <3>1, <3>2
  <2>5. /\ leg' = leg
        /\ \A i \in ToSet(leg.raw) : Tells(i) => Log[i].q = "leg" /\ i <= fed'.leg
    BY <1>1, <1>3, <1>4, <1>7 DEF SInv
  <2>6. linked' => HandedOver(fed'.main)
    BY <1>1, <1>3 DEF SInv
  <2>7. SInv'
    BY <2>3, <2>4, <2>5, <2>6 DEF SInv, HandedOver, Current, IsLatest, Rising
  <2> QED  BY <2>3, <2>7
<1>8. CASE ~linked
  <2>1. Current(leg') /\ ToSet(leg'.raw) = ToSet(leg.raw) \cup ToSet(src.raw)
    <3>1. CASE leg = NoRow
      BY <1>1, <1>2, <1>8, <3>1, NoRowIsCurrent
    <3>2. CASE leg # NoRow
      <4>1. leg \in Row /\ Current(leg)
        BY <3>2 DEF TInv, TypeOK, SInv
      <4>2. Before(ToSet(leg.raw), ToSet(src.raw))
        BY <1>5, <1>6 DEF Before, SInv
      <4>3. leg' = MergeRecord(leg, src)
        BY <1>1, <1>8, <3>2
      <4> QED  BY <1>2, <4>1, <4>2, <4>3, MergedIsCurrent
    <3> QED  BY <3>1, <3>2
  <2>2. \A i \in ToSet(leg'.raw) : Tells(i) => Log[i].q = "leg" /\ i <= fed'.leg
    BY <1>3, <1>4, <1>5, <2>1 DEF SInv
  <2>3. main' = main /\ ~linked'
    BY <1>1, <1>8
  <2>4. SInv'
    BY <1>3, <1>8, <2>1, <2>2, <2>3 DEF SInv, HandedOver, Current, IsLatest, Rising
  <2> QED  BY <2>3, <2>4
<1> QED  BY <1>7, <1>8

LEMMA SInvVerdict ==
  ASSUME TInv, SInv, FeedVerdict
  PROVE  /\ SInv'
         /\ \A i : Tells(i) => (i \in ToSet(main'.raw) <=> i \in ToSet(main.raw))
<1>1. CASE main = NoRow
  BY <1>1 DEF FeedVerdict, SInv, HandedOver, Current, IsLatest, Rising
<1>2. CASE main # NoRow
  <2>1. main \in Row /\ action \in Actions \ {"none"} /\ Current(main)
    BY <1>2 DEF FeedVerdict, TInv, TypeOK, SInv
  <2>2. main' = EnrichRecordWithRspamd(main) /\ UNCHANGED <<filter, action, leg, linked, fed>>
    BY <1>2 DEF FeedVerdict
  <2>3. Current(main') /\ ToSet(main'.raw) = ToSet(main.raw) \cup {0}
    BY <2>1, <2>2, EnrichedIsCurrent
  <2>4. ~Tells(0)
    BY LogType DEF Tells
  <2>5. \A i : Tells(i) => (i \in ToSet(main'.raw) <=> i \in ToSet(main.raw))
    BY <2>3, <2>4
  <2> QED  BY <2>2, <2>3, <2>5 DEF SInv, HandedOver, Current, IsLatest, Rising
<1> QED  BY <1>1, <1>2

LEMMA SInvStep ==
  ASSUME LogInOrder
  PROVE  TInv /\ SInv /\ [Next]_vars => SInv'
<1> SUFFICES ASSUME TInv, SInv, [Next]_vars PROVE SInv'
  OBVIOUS
<1>1. ASSUME NEW b \in DOMAIN Log, FeedMain(b) PROVE SInv'
  BY <1>1, SInvMain
<1>2. ASSUME NEW b \in DOMAIN Log, FeedLeg(b) PROVE SInv'
  BY <1>2, SInvLeg
<1>3. CASE FeedVerdict
  BY <1>3, SInvVerdict
<1>4. CASE UNCHANGED vars
  BY <1>4 DEF vars, SInv, HandedOver, Current, IsLatest, Rising
<1> QED  BY <1>1, <1>2, <1>3, <1>4 DEF Next

\* Both hold of every current row of a log in order.
LEMMA CurrentRowsTell ==
  ASSUME LogInOrder
  PROVE  Spec => [](StatusIsLatest /\ LegDecides)
<1>1. TInv /\ SInv => StatusIsLatest
  <2> SUFFICES ASSUME TInv, SInv, NEW r \in {main, leg} \ {NoRow}
               PROVE  r.status = ExtractStatus(SortRawByTime(r.raw))
    BY DEF StatusIsLatest
  <2> DEFINE S == ToSet(r.raw)
  <2>1. r \in Row /\ IsLatest(r.status, S)
    BY DEF TInv, TypeOK, SInv, Current
  <2>2. S \in SUBSET Lines
    BY <2>1, RawInLines
  <2>3. InOrder(S) \in Seq(Lines) /\ ToSet(InOrder(S)) = S /\ Rising(InOrder(S))
    <3> HIDE DEF S
    <3>1. ToSet(InOrder(S)) = S \cap Lines
      BY InOrderSorts
    <3> QED  BY <2>2, <3>1, InOrderSorts, SortedRises
  <2>4. SortRawByTime(r.raw) = InOrder(S)
    BY DEF SortRawByTime
  <2> HIDE DEF S
  <2>5. IsLatest(ExtractStatus(InOrder(S)), S)
    BY <2>3, RisingLatest
  <2> QED  BY <2>1, <2>2, <2>4, <2>5, LatestUnique
<1>2. TInv /\ SInv => LegDecides
  <2> DEFINE S == ToSet(main.raw)
             L == S \cap LinesOf("leg")
             st == ExtractStatus(InOrder(L))
  <2> SUFFICES ASSUME TInv, SInv, st # "" PROVE main.status = st
    BY DEF LegDecides
  <2>1. S \in SUBSET Lines /\ IsLatest(main.status, S)
    <3>1. CASE main = NoRow
      BY <3>1, NoRowIsCurrent DEF Current
    <3>2. CASE main # NoRow
      BY <3>2, RawInLines DEF TInv, TypeOK, SInv, Current
    <3> QED  BY <3>1, <3>2
  <2>2. IsLatest(st, L)
    <3> HIDE DEF L
    <3>1. ToSet(InOrder(L)) = L \cap Lines
      BY InOrderSorts
    <3>2. L \cap Lines = L
      BY <2>1 DEF L
    <3> QED  BY <3>1, <3>2, InOrderSorts, SortedRises, RisingLatest
  <2> HIDE DEF st
  <2>3. PICK i \in L : Tells(i) /\ st = Reported(i) /\ \A j \in L : Tells(j) => j <= i
    BY <2>2 DEF IsLatest
  <2>4. \A j \in S : Tells(j) => j <= i
    <3> SUFFICES ASSUME NEW j \in S, Tells(j) PROVE j <= i
      OBVIOUS
    <3>0. i \in Nat /\ j \in Nat
      BY <2>3, FedType
    <3>1. Log[i].q = "leg"
      BY <2>3 DEF LinesOf
    <3>2. CASE Log[j].q = "main"
      <4>1. j < i
        BY <2>3, <3>1, <3>2 DEF LogInOrder, Tells
      <4> QED  BY <3>0, <4>1, LessIsAtMost, Zenon
    <3>3. CASE Log[j].q = "leg"
      <4>1. j \in L
        BY <3>3 DEF LinesOf, Tells
      <4> QED  BY <2>3, <4>1
    <3> QED  BY <3>2, <3>3 DEF SInv
  <2>5. IsLatest(st, S)
    BY <2>3, <2>4 DEF IsLatest
  <2> QED  BY <2>1, <2>5, LatestUnique
<1>3. TInv /\ SInv => StatusIsLatest /\ LegDecides
  BY <1>1, <1>2
<1> QED  BY <1>3, SInvInit, SInvStep, TInvAlways, PTL DEF Spec

\* "The terminal line is the real outcome" (parser.go:383): a row's status is
\* that of the latest status line it shows, whatever parts flushes and restarts
\* cut the log into and in whatever order parts, leg and verdict come, for every
\* log that Postfix writes in order.
THEOREM StatusIsTheLatest ==
  ASSUME LogInOrder
  PROVE  Spec => []StatusIsLatest
BY CurrentRowsTell, PTL

\* A row that shows an outcome of the leg has it ("gains [...] the final delivery
\* status", docs/disposition.md:69; mergeDeliveryLeg, store.go:427), whether the
\* leg was folded in whole, in parts, before or after parts of the message, for
\* every log that Postfix writes in order.
THEOREM LegHasTheLastWord ==
  ASSUME LogInOrder
  PROVE  Spec => []LegDecides
BY CurrentRowsTell, PTL

-----------------------------------------------------------------------------
(* The badge is that of the whole message.                                 *)

\* The filter passes the message on or does not see it, and rspamd does not
\* greylist it: the other verdicts do not always decide the badge (README).
NoStop == Filters \subseteq {"none", "accept"} /\ "soft reject" \notin Actions

HandoffShown(r) ==
  \E h \in ToSet(r.raw) : Tells(h) /\ Log[h].q = "main" /\ Log[h].kind = "handoff"

\* rspamd's reject decides; else the disposition is that of the status.
BadgeOf(r) ==
  /\ r.disp = IF told /\ action = "reject" THEN "spam" ELSE DeriveDisposition(r)
  /\ r.action = "accept" => HandoffShown(r)

BInv == main # NoRow => BadgeOf(main)

LEMMA DerivedSame ==
  ASSUME NEW r, NEW s, r.status = s.status, r.size = s.size
  PROVE  DeriveDisposition(r) = DeriveDisposition(s)
BY DEF DeriveDisposition

\* A part that carries the hand-over has its status.
LEMMA PartBadge ==
  ASSUME LogInOrder, NoStop, TInv, NEW b \in DOMAIN Log, NEW known \in BOOLEAN,
         NEW src, IsPart(src, "main", fed.main, b, known)
  PROVE  /\ src.disp = DeriveDisposition(src)
         /\ src.action = "accept" => HandoffShown(src)
<1>1. IsNews(src, "main", fed.main, b)
  BY NewsOf
<1>2. CASE ~JudgedHere("main", fed.main, b, known)
  BY <1>2 DEF IsPart
<1>3. CASE JudgedHere("main", fed.main, b, known)
  <2>1. filter = "accept"
    BY <1>3 DEF JudgedHere, NoStop, TInv
  <2>2. src.link /\ src.disp = "sent"
    BY <1>3, <2>1 DEF IsPart, FilterDisposition
  <2>3. PICK h \in ToSet(src.raw) : Tells(h) /\ Log[h].q = "main" /\ Log[h].kind = "handoff"
    BY <1>1, <2>2 DEF IsNews
  <2>4. \A j \in ToSet(src.raw) : Tells(j) => j <= h
    BY <1>1, <2>3 DEF IsNews, LogInOrder, Tells
  <2>5. IsLatest("sent", ToSet(src.raw))
    BY <2>3, <2>4 DEF IsLatest, Reported
  <2>6. src.status = "sent"
    <3>1. IsLatest(src.status, ToSet(src.raw))
      BY <1>1 DEF IsNews, Current
    <3>2. ToSet(src.raw) \in SUBSET Lines
      BY RawInLines DEF IsPart
    <3> QED  BY <2>5, <3>1, <3>2, LatestUnique
  <2>7. DeriveDisposition(src) = "sent"
    BY <2>6 DEF DeriveDisposition
  <2> QED  BY <2>2, <2>3, <2>7 DEF HandoffShown
<1> QED  BY <1>2, <1>3

LEMMA NoCycle == \A x, y, z \in Nat : x <= y /\ y < z => ~(z <= x)
OBVIOUS

\* After a refusal as spam no part brings another status.
LEMMA RefusalIsLast ==
  ASSUME LogInOrder, TInv, SInv, main # NoRow, main.status = "spam reject",
         NEW b \in DOMAIN Log, NEW known \in BOOLEAN,
         NEW src, IsPart(src, "main", fed.main, b, known)
  PROVE  OwnRow(src).status = "spam reject"
<1>1. IsNews(src, "main", fed.main, b)
  BY NewsOf
<1>2. /\ OwnRow(src) \in Row /\ Current(OwnRow(src))
      /\ ToSet(OwnRow(src).raw) = ToSet(main.raw) \cup ToSet(src.raw)
  BY OwnIsCurrent
<1>3. PICK i \in ToSet(main.raw) : /\ Tells(i) /\ Reported(i) = "spam reject"
                                   /\ \A j \in ToSet(main.raw) : Tells(j) => j <= i
  BY DEF SInv, Current, IsLatest
<1>4. Log[i].kind = "spam reject"
  BY <1>3 DEF Reported
<1>5. ASSUME NEW j \in ToSet(src.raw), Tells(j) PROVE FALSE
  <2>1. Log[j].q = "main" /\ fed.main < j
    BY <1>1, <1>5 DEF IsNews
  <2>4. j \in Nat /\ i \in Nat /\ fed.main \in Nat
    BY <1>3, <1>5, FedType
  <2>2. CASE Log[i].q = "main" /\ i <= fed.main
    <3>1. j <= i
      BY <1>3, <1>4, <1>5, <2>1, <2>2 DEF LogInOrder, Tells
    <3> QED  BY <2>1, <2>2, <2>4, <3>1, NoCycle, Zenon
  <2>3. CASE linked
    <3>1. PICK h \in DOMAIN Log : /\ Tells(h) /\ Log[h].q = "main"
                                  /\ Log[h].kind = "handoff" /\ h <= fed.main
      BY <2>3 DEF SInv, HandedOver
    <3>2. j <= h
      BY <1>5, <2>1, <3>1 DEF LogInOrder, Tells
    <3>3. h \in Nat
      BY <3>1, FedType
    <3> QED  BY <2>1, <2>4, <3>1, <3>2, <3>3, NoCycle, Zenon
  <2> QED  BY <1>3, <2>2, <2>3 DEF SInv
<1>6. IsLatest("spam reject", ToSet(OwnRow(src).raw))
  BY <1>2, <1>3, <1>5 DEF IsLatest
<1>7. ToSet(OwnRow(src).raw) \in SUBSET Lines
  BY <1>2, RawInLines
<1> QED  BY <1>2, <1>6, <1>7, LatestUnique DEF Current

\* Until the verdict is applied; told and action are those before the step.
LEMMA OwnBadge ==
  ASSUME LogInOrder, NoStop, TInv, SInv, BInv, NEW b \in DOMAIN Log, NEW known \in BOOLEAN,
         NEW src \in Row, IsPart(src, "main", fed.main, b, known)
  PROVE  /\ main = NoRow => OwnRow(src).disp = DeriveDisposition(OwnRow(src))
         /\ main # NoRow => BadgeOf(OwnRow(src))
         /\ OwnRow(src).action = "accept" => HandoffShown(OwnRow(src))
<1> DEFINE o == OwnRow(src)
<1>1. /\ src.disp = DeriveDisposition(src)
      /\ src.action = "accept" => HandoffShown(src)
  BY PartBadge
<1>2. CASE main = NoRow
  BY <1>1, <1>2 DEF OwnRow
<1>3. CASE main # NoRow
  <2>1. main \in Row /\ o = MergeRecord(main, src) /\ BadgeOf(main)
    BY <1>3 DEF TInv, TypeOK, OwnRow, BInv
  <2> HIDE DEF o
  <2>2. /\ o.disp = IF IsStatusDisposition(main.disp) THEN DeriveDisposition(o)
                    ELSE main.disp
        /\ o.action = IF main.action = "" THEN src.action ELSE main.action
    BY <2>1, Merged
  <2> USE DEF o
  <2>3. ToSet(o.raw) = ToSet(main.raw) \cup ToSet(src.raw)
    BY OwnIsCurrent
  <2>4. main.status = "spam reject" => o.status = "spam reject"
    BY <1>3, RefusalIsLast
  <2> HIDE DEF o
  <2>5. o.action = "accept" => HandoffShown(o)
    BY <1>1, <2>1, <2>2, <2>3 DEF BadgeOf, HandoffShown
  <2>6. o.disp = IF told /\ action = "reject" THEN "spam" ELSE DeriveDisposition(o)
    <3>1. CASE told /\ action = "reject"
      BY <2>1, <2>2, <3>1 DEF BadgeOf, IsStatusDisposition
    <3>2. CASE ~(told /\ action = "reject") /\ IsStatusDisposition(main.disp)
      BY <2>2, <3>2
    <3>3. CASE ~(told /\ action = "reject") /\ ~IsStatusDisposition(main.disp)
      <4>1. main.disp = DeriveDisposition(main)
        BY <2>1, <3>3 DEF BadgeOf
      <4>2. main.status \in {"sent", "saved", "deferred", "bounced", "reject", "spam reject", ""}
        BY <2>1, RowFields DEF Statuses
      <4>3. main.status = "spam reject" /\ main.disp = "spam"
        BY <3>3, <4>1, <4>2 DEF DeriveDisposition, IsStatusDisposition
      <4>4. DeriveDisposition(o) = "spam"
        BY <2>4, <4>3 DEF DeriveDisposition
      <4> QED  BY <2>2, <3>3, <4>3, <4>4
    <3> QED  BY <3>1, <3>2, <3>3
  <2> QED  BY <1>3, <2>5, <2>6 DEF BadgeOf, o
<1> QED  BY <1>2, <1>3

\* The leg's outcome, once folded.
LEMMA FoldedBadge ==
  ASSUME NEW r \in Row, NEW l \in Row, action = "none", BadgeOf(r),
         ToSet(r.raw) \subseteq ToSet(MergeDeliveryLeg(r, l).raw)
  PROVE  BadgeOf(MergeDeliveryLeg(r, l))
<1> DEFINE m == MergeDeliveryLeg(r, l)
<1>1. /\ m.status = IF l.status = "" THEN r.status ELSE l.status
      /\ m.disp = IF l.status = "" THEN r.disp ELSE DeriveDisposition(m)
      /\ m.action = r.action /\ m.size = r.size
  BY FoldedLeg
<1> HIDE DEF m
<1>2. m.disp = DeriveDisposition(m)
  <2>1. CASE l.status = ""
    BY <1>1, <2>1, DerivedSame DEF BadgeOf
  <2>2. CASE l.status # ""
    BY <1>1, <2>2
  <2> QED  BY <2>1, <2>2
<1>3. m.action = "accept" => HandoffShown(m)
  BY <1>1 DEF BadgeOf, HandoffShown, m
<1>4. BadgeOf(m)
  BY <1>2, <1>3 DEF BadgeOf
<1> QED  BY <1>4 DEF m

\* The verdict, on a row that shows the status so far.
LEMMA EnrichedBadge ==
  ASSUME NoStop, NEW r \in Row, action \in Actions \ {"none"}, r.disp = DeriveDisposition(r)
  PROVE  LET m == EnrichRecordWithRspamd(r)
         IN  /\ m.disp = IF action = "reject" THEN "spam" ELSE DeriveDisposition(m)
             /\ m.action # "accept"
<1> DEFINE m == EnrichRecordWithRspamd(r)
<1>1. /\ m.status = r.status /\ m.size = r.size /\ m.action = action
      /\ m.disp = IF RspamdDisposition(action) # "" THEN RspamdDisposition(action)
                  ELSE r.disp
  BY EnrichedRow
<1>2. action \in {"reject", "add header"}
  BY OutcomeAssumption DEF NoStop
<1> HIDE DEF m
<1>3. DeriveDisposition(m) = DeriveDisposition(r)
  BY <1>1, DerivedSame
<1>4. m.disp = IF action = "reject" THEN "spam" ELSE DeriveDisposition(m)
  BY <1>1, <1>2, <1>3 DEF RspamdDisposition
<1>5. m.action # "accept"
  BY <1>1, <1>2
<1> QED  BY <1>4, <1>5 DEF m

LEMMA BInvMain ==
  ASSUME LogInOrder, NoStop, TInv, SInv, BInv, NEW b \in DOMAIN Log, FeedMain(b)
  PROVE  BadgeOf(main)'
<1>1. PICK known \in BOOLEAN, src \in Row :
        /\ IsPart(src, "main", fed.main, b, known)
        /\ main' = IF pending THEN EnrichRecordWithRspamd(FoldRow(src)) ELSE FoldRow(src)
        /\ UNCHANGED <<filter, action, told>>
  BY MainShape
<1> DEFINE o == OwnRow(src)
<1>2. /\ o \in Row
      /\ main = NoRow => o.disp = DeriveDisposition(o)
      /\ main # NoRow => BadgeOf(o)
      /\ o.action = "accept" => HandoffShown(o)
  BY <1>1, OwnBadge, OwnIsCurrent
<1>3. CASE pending
  <2>1. /\ main = NoRow /\ told /\ action \in Actions \ {"none"} /\ leg = NoRow
    BY <1>3 DEF TInv
  <2>2. main' = EnrichRecordWithRspamd(o)
    BY <1>1, <1>3, <2>1 DEF FoldRow
  <2> HIDE DEF o
  <2>3. /\ main'.disp = IF action = "reject" THEN "spam" ELSE DeriveDisposition(main')
        /\ main'.action # "accept"
    BY <1>2, <2>1, <2>2, EnrichedBadge
  <2> QED  BY <1>1, <2>1, <2>3 DEF BadgeOf
<1>4. CASE ~pending
  <2>1. main' = FoldRow(src)
    BY <1>1, <1>4
  <2>2. BadgeOf(o)
    <3> HIDE DEF o
    <3>1. CASE main = NoRow
      <4>1. ~told
        BY <1>4, <3>1 DEF TInv
      <4> QED  BY <1>2, <3>1, <4>1 DEF BadgeOf
    <3> QED  BY <1>2, <3>1
  <2>3. BadgeOf(FoldRow(src))
    <3>1. CASE src.link /\ leg # NoRow
      <4>1. leg \in Row /\ action = "none"
        BY <3>1 DEF TInv, TypeOK, NoStop
      <4>2. FoldRow(src) = MergeDeliveryLeg(o, leg)
        BY <3>1 DEF FoldRow
      <4>3. ToSet(o.raw) \subseteq ToSet(FoldRow(src).raw)
        BY <1>1, FoldIsCurrent
      <4> HIDE DEF o
      <4> QED  BY <1>2, <2>2, <4>1, <4>2, <4>3, FoldedBadge
    <3>2. CASE ~(src.link /\ leg # NoRow)
      BY <2>2, <3>2 DEF FoldRow
    <3> QED  BY <3>1, <3>2
  <2> QED  BY <1>1, <2>1, <2>3 DEF BadgeOf, HandoffShown
<1> QED  BY <1>3, <1>4

LEMMA BInvLeg ==
  ASSUME LogInOrder, NoStop, TInv, SInv, BInv, NEW b \in DOMAIN Log, FeedLeg(b)
  PROVE  BInv'
<1>1. PICK src \in Row :
        /\ filter = "accept"
        /\ linked => main' = MergeDeliveryLeg(main, src)
        /\ ~linked => main' = main
        /\ UNCHANGED <<filter, action, told>>
  BY LegShape
<1>2. CASE ~linked
  BY <1>1, <1>2 DEF BInv, BadgeOf, HandoffShown
<1>3. CASE linked
  <2>1. main \in Row /\ main # NoRow /\ action = "none" /\ BadgeOf(main)
    BY <1>1, <1>3 DEF TInv, TypeOK, BInv
  <2>2. ToSet(main.raw) \subseteq ToSet(main'.raw)
    BY SInvLeg
  <2>3. BadgeOf(MergeDeliveryLeg(main, src))
    BY <1>1, <1>3, <2>1, <2>2, FoldedBadge
  <2> QED  BY <1>1, <1>3, <2>3 DEF BInv, BadgeOf, HandoffShown
<1> QED  BY <1>2, <1>3

LEMMA BInvVerdict ==
  ASSUME NoStop, TInv, BInv, FeedVerdict
  PROVE  BInv'
<1>1. action \in Actions \ {"none"} /\ ~told /\ told' /\ action' = action
  BY DEF FeedVerdict, TInv
<1>2. CASE main = NoRow
  BY <1>2 DEF FeedVerdict, BInv
<1>3. CASE main # NoRow
  <2>1. main \in Row /\ main' = EnrichRecordWithRspamd(main)
    BY <1>3 DEF FeedVerdict, TInv, TypeOK
  <2>2. main.disp = DeriveDisposition(main)
    BY <1>1, <1>3 DEF BInv, BadgeOf
  <2>3. /\ main'.disp = IF action = "reject" THEN "spam" ELSE DeriveDisposition(main')
        /\ main'.action # "accept"
    BY <1>1, <2>1, <2>2, EnrichedBadge
  <2> QED  BY <1>1, <2>3 DEF BInv, BadgeOf
<1> QED  BY <1>2, <1>3

LEMMA BInvStep ==
  ASSUME LogInOrder, NoStop
  PROVE  TInv /\ SInv /\ BInv /\ [Next]_vars => BInv'
<1> SUFFICES ASSUME TInv, SInv, BInv, [Next]_vars PROVE BInv'
  OBVIOUS
<1>1. ASSUME NEW b \in DOMAIN Log, FeedMain(b) PROVE BInv'
  BY <1>1, BInvMain DEF BInv
<1>2. ASSUME NEW b \in DOMAIN Log, FeedLeg(b) PROVE BInv'
  BY <1>2, BInvLeg
<1>3. CASE FeedVerdict
  BY <1>3, BInvVerdict
<1>4. CASE UNCHANGED vars
  BY <1>4 DEF vars, BInv, BadgeOf, HandoffShown
<1> QED  BY <1>1, <1>2, <1>3, <1>4 DEF Next

\* The badge does not depend on where flushes and restarts cut the message up
\* nor on which of message, leg and verdict came first (store.go:260-360,
\* rspamd.go: enrichRecordWithRspamd): it is that of the whole message, for
\* every log that Postfix writes in order, where no scanner but rspamd's
\* reject stops the message.
THEOREM BadgeTellsTheTruth ==
  ASSUME LogInOrder, NoStop
  PROVE  Spec => []BadgeIsTruth
<1>1. Init => BInv
  BY DEF Init, BInv
<1>2. TInv /\ SInv /\ BInv => BadgeIsTruth
  <2> SUFFICES ASSUME TInv, SInv, BInv, main # NoRow, told \/ action = "none"
               PROVE  main.disp = IF RspamdDisposition(action) # ""
                                    THEN RspamdDisposition(action)
                                  ELSE IF fed.leg = 0 /\ main.action = "accept" THEN "sent"
                                  ELSE Truth
    BY DEF BadgeIsTruth
  <2> DEFINE S == ToSet(main.raw)
             own == S \ LinesOf("filter")
             st == ExtractStatus(InOrder(own))
  <2>1. main \in Row /\ main \in AnyRow /\ BadgeOf(main) /\ IsLatest(main.status, S)
    BY RowType DEF TInv, TypeOK, BInv, SInv, Current
  <2>2. action \in {"reject", "add header", "none"}
    BY OutcomeAssumption DEF NoStop, TInv
  <2>3. CASE action = "reject"
    BY <2>1, <2>3 DEF BadgeOf, RspamdDisposition
  <2>4. CASE action # "reject"
    <3>1. RspamdDisposition(action) = "" /\ main.disp = DeriveDisposition(main)
      BY <2>1, <2>2, <2>4 DEF BadgeOf, RspamdDisposition
    <3>2. S \in SUBSET Lines
      BY <2>1, RawInLines
    <3>3. Truth = DeriveDisposition(main)
      <4>1. IsLatest(st, own)
        <5> HIDE DEF own
        <5>1. ToSet(InOrder(own)) = own \cap Lines
          BY InOrderSorts
        <5>2. own \cap Lines = own
          BY <3>2 DEF own
        <5> QED  BY <5>1, <5>2, InOrderSorts, SortedRises, RisingLatest
      <4>2. \A i : Tells(i) => (i \in own <=> i \in S)
        <5>1. \A i \in S : Tells(i) => i \notin LinesOf("filter")
          BY DEF SInv, LinesOf
        <5> QED  BY <5>1
      <4> HIDE DEF st, own, S
      <4>3. IsLatest(st, S)
        BY <4>1, <4>2 DEF IsLatest
      <4>4. st = main.status
        BY <2>1, <3>2, <4>3, LatestUnique
      <4>5. st \in Statuses \cup {""}
        BY <2>1, <4>4 DEF AnyRow
      <4> DEFINE t == [main EXCEPT !.status = st]
      <4>6. t.status = main.status /\ t.size = main.size
        BY <2>1, <4>4, <4>5 DEF AnyRow
      <4>7. Truth = DeriveDisposition(t)
        BY DEF Truth, st, own, S
      <4> HIDE DEF t
      <4> QED  BY <4>6, <4>7, DerivedSame
    <3>4. CASE fed.leg = 0 /\ main.action = "accept"
      <4>1. PICK h \in S : Tells(h) /\ Log[h].q = "main" /\ Log[h].kind = "handoff"
        BY <2>1, <3>4 DEF BadgeOf, HandoffShown
      <4>2. ASSUME NEW j \in S, Tells(j) PROVE j <= h
        <5>1. Log[j].q = "main"
          <6>1. j \in Nat /\ j # 0
            BY <4>2, LogType DEF Tells
          <6>2. ~(j <= 0)
            BY <6>1
          <6> QED  BY <3>4, <4>2, <6>2 DEF SInv
        <5> QED  BY <4>1, <4>2, <5>1 DEF LogInOrder, Tells
      <4>3. IsLatest("sent", S)
        BY <4>1, <4>2 DEF IsLatest, Reported
      <4>4. main.status = "sent"
        BY <2>1, <3>2, <4>3, LatestUnique
      <4>5. DeriveDisposition(main) = "sent"
        BY <4>4 DEF DeriveDisposition
      <4> QED  BY <3>1, <3>4, <4>5
    <3> QED  BY <3>1, <3>3, <3>4
  <2> QED  BY <2>3, <2>4
<1> QED  BY <1>1, <1>2, SInvInit, SInvStep, BInvStep, TInvAlways, PTL DEF Spec
=============================================================================
