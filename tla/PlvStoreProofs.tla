--------------------------- MODULE PlvStoreProofs ---------------------------
(***************************************************************************)
(* Theorems about PlvStore.  Part 1: the types, and the safety of the      *)
(* subscripts the code takes from its queue-id index.  Part 2, while       *)
(* retention is off: where log lines end up, and that every queue id leads *)
(* to the row that shows its lines.  Parts 3 and 4 rest on part 2: held    *)
(* verdicts, and that each line is shown in exactly one listed row.        *)
(* Part 5, with retention: what a purge takes, and what it leaves behind.  *)
(***************************************************************************)
EXTENDS PlvStore, SequenceTheorems, FiniteSetTheorems, WellFoundedInduction,
        TLAPS

-----------------------------------------------------------------------------
(* Rows and indexes as the operations build them, before they are stored.  *)

Store == [recs : Seq(Record), byQ : [Key -> Nat], byD : [Key -> Nat]]

\* Typed, and byQueueID does not point past the rows.
Sound(s) == s \in Store /\ \A k \in Key : s.byQ[k] <= Len(s.recs)

Stored == [recs |-> records, byQ |-> byQueueID, byD |-> byDelivery]

\* Merging rows and building a record yield records.
LEMMA RowsAreRecords ==
  ASSUME NEW r \in Record, NEW t \in Record, NEW q \in QIDs
  PROVE  /\ MergeRecord(r, t) \in Record
         /\ MergeDeliveryLeg(r, t) \in Record
         /\ EnrichRecordWithRspamd(r, q) \in Record
         /\ [r EXCEPT !.subsumed = TRUE] \in Record
         /\ RecKey(r) \in Key
         /\ r.dqid # NoQid => OnwardKey(r) \in Key
<1>1. MergeRecord(r, t) \in Record
  BY DEF MergeRecord, Record
<1>2. MergeDeliveryLeg(r, t) \in Record
  BY DEF MergeDeliveryLeg, Record
<1>3. EnrichRecordWithRspamd(r, q) \in Record
  BY DEF EnrichRecordWithRspamd, Record, RspamdLine, Line
<1>4. [r EXCEPT !.subsumed = TRUE] \in Record
  BY DEF Record
<1>5. RecKey(r) \in Key /\ (r.dqid # NoQid => OnwardKey(r) \in Key)
  BY DEF RecKey, OnwardKey, Key, Record
<1> QED  BY <1>1, <1>2, <1>3, <1>4, <1>5

\* A parsed record is a Record of the local origin.
LEMMA ParseLinesType ==
  ASSUME NEW q \in QIDs, NEW a \in Nat,
         NEW b \in (a + 1) .. Len(Stamp[q]), NEW known \in BOOLEAN
  PROVE  ParseLines(q, a, b, known) \in Record
<1>1. Stamp[q] \in Seq(0 .. MaxTime)
  BY LogAssumption
<1>2. a + 1 \in 1 .. Len(Stamp[q])
  BY <1>1, LenProperties
<1>3. Stamp[q][a + 1] \in 0 .. MaxTime
  BY <1>1, <1>2, ElementOfSeq
<1>4. {[q |-> q, n |-> n] : n \in (a + 1) .. b} \in SUBSET Line
  BY <1>1, LenProperties DEF Line
<1>5. Leg[q] \in QIDs \cup {NoQid}
  BY LegAssumption
<1> QED  BY <1>3, <1>4, <1>5, LogAssumption DEF ParseLines, Record

\* RegisterDelivery keeps the store sound and adds no row.
LEMMA RegisterDeliverySound ==
  ASSUME NEW s, Sound(s), NEW i \in DOMAIN s.recs, s.recs[i].dqid # NoQid
  PROVE  /\ Sound(RegisterDelivery(s, i))
         /\ Len(RegisterDelivery(s, i).recs) = Len(s.recs)
<1> DEFINE d == OnwardKey(s.recs[i])
           o == s.byQ[d]
<1>1. s.recs \in Seq(Record) /\ i \in 1 .. Len(s.recs)
  BY LenProperties DEF Sound, Store
<1>2. s.recs[i] \in Record
  BY <1>1, ElementOfSeq
<1>3. d \in Key
  BY <1>2, RowsAreRecords, LegAssumption DEF Record
<1>4. [s.byD EXCEPT ![d] = i] \in [Key -> Nat] /\ i \in Nat /\ Len(s.recs) \in Nat
  BY <1>1, <1>3, LenProperties DEF Sound, Store
<1>5. CASE o # 0 /\ o # i /\ ~s.recs[o].subsumed
  <2>1. o \in 1 .. Len(s.recs)
    BY <1>3, <1>4, <1>5 DEF Sound, Store
  <2>2. s.recs[o] \in Record
    BY <1>1, <2>1, ElementOfSeq
  <2> DEFINE m == MergeDeliveryLeg(s.recs[i], s.recs[o])
             x == [s.recs[o] EXCEPT !.subsumed = TRUE]
             one == [s.recs EXCEPT ![i] = m]
             two == [one EXCEPT ![o] = x]
  <2>3. m \in Record /\ x \in Record
    BY <1>2, <2>2, RowsAreRecords, LegAssumption DEF Record
  <2>4. one \in Seq(Record) /\ Len(one) = Len(s.recs)
    <3> HIDE DEF m
    <3> QED  BY <1>1, <2>3, ExceptSeq
  <2>5. two \in Seq(Record) /\ Len(two) = Len(s.recs)
    <3> HIDE DEF x, one
    <3> QED  BY <2>1, <2>3, <2>4, ExceptSeq
  <2>6. /\ [s.byQ EXCEPT ![d] = i] \in [Key -> Nat]
        /\ \A k \in Key : [s.byQ EXCEPT ![d] = i][k] <= Len(s.recs)
    BY <1>1, <1>3, <1>4 DEF Sound, Store
  <2>7. RegisterDelivery(s, i) = [recs |-> two, byQ |-> [s.byQ EXCEPT ![d] = i],
                                  byD |-> [s.byD EXCEPT ![d] = i]]
    BY <1>5 DEF RegisterDelivery, Sound, Store
  <2> HIDE DEF two, d
  <2> QED  BY <1>4, <2>5, <2>6, <2>7 DEF Sound, Store
<1>6. CASE ~(o # 0 /\ o # i /\ ~s.recs[o].subsumed)
  <2>1. RegisterDelivery(s, i) = [s EXCEPT !.byD[d] = i]
    BY <1>6 DEF RegisterDelivery
  <2> QED  BY <1>4, <2>1 DEF Sound, Store
<1> QED  BY <1>5, <1>6

\* The common end of cases (2) and (3) keeps the store sound.
LEMMA SettleRowSound ==
  ASSUME NEW s, Sound(s), NEW i \in DOMAIN s.recs, NEW r \in Record,
         r.dqid # NoQid => s.recs[i].dqid # NoQid, SettleRow(s, i, r)
  PROVE  /\ Sound(Stored)'
         /\ Len(records') = Len(s.recs)
         /\ rspamdPending' \subseteq rspamdPending
<1> DEFINE t == IF r.dqid # NoQid THEN RegisterDelivery(s, i) ELSE s
           q == t.recs[i].qid
           e == EnrichRecordWithRspamd(t.recs[i], q)
<1>1. Sound(t) /\ Len(t.recs) = Len(s.recs)
  BY RegisterDeliverySound
<1>2. t.recs \in Seq(Record) /\ i \in 1 .. Len(t.recs)
  <2>1. s.recs \in Seq(Record) /\ t.recs \in Seq(Record)
    BY <1>1 DEF Sound, Store
  <2>2. DOMAIN s.recs = 1 .. Len(s.recs)
    BY <2>1, LenProperties
  <2> QED  BY <1>1, <2>1, <2>2
<1>3. t.recs[i] \in Record
  BY <1>2, ElementOfSeq
<1>4. e \in Record
  BY <1>3, RowsAreRecords DEF Record
<1>5. /\ records' = IF q \in rspamdPending THEN [t.recs EXCEPT ![i] = e] ELSE t.recs
      /\ byQueueID' = t.byQ /\ byDelivery' = t.byD
      /\ rspamdPending' = rspamdPending \ {q}
  BY DEF SettleRow
<1>6. /\ [t.recs EXCEPT ![i] = e] \in Seq(Record)
      /\ Len([t.recs EXCEPT ![i] = e]) = Len(t.recs)
  <2> HIDE DEF e, t
  <2> QED  BY <1>2, <1>4, ExceptSeq
<1>7. records' \in Seq(Record) /\ Len(records') = Len(t.recs)
  <2> HIDE DEF e, t
  <2> QED  BY <1>1, <1>5, <1>6 DEF Sound, Store
<1>8. Sound(Stored)'
  <2> HIDE DEF t
  <2> QED  BY <1>1, <1>5, <1>7 DEF Sound, Store, Stored
<1> QED  BY <1>1, <1>5, <1>7, <1>8

\* Each of the three cases of AddRecords keeps the store sound.
LEMMA AddRecordsSound ==
  ASSUME Sound(Stored), NEW r \in Record, AddRecords(r)
  PROVE  Sound(Stored)' /\ rspamdPending' \subseteq rspamdPending
<1>1. /\ records \in Seq(Record) /\ DOMAIN records = 1 .. Len(records)
      /\ byQueueID \in [Key -> Nat] /\ byDelivery \in [Key -> Nat]
      /\ \A k \in Key : byQueueID[k] <= Len(records)
      /\ Len(records) \in Nat
  BY LenProperties DEF Sound, Store, Stored
<1>2. RecKey(r) \in Key
  BY RowsAreRecords DEF Record
<1>3. CASE FoldLeg(r)
  <2> DEFINE p == byDelivery[RecKey(r)]
             m == MergeDeliveryLeg(records[p], r)
  <2>1. p \in 1 .. Len(records) /\ records[p] \in Record
    BY <1>1, <1>3, ElementOfSeq DEF FoldLeg
  <2>2. m \in Record
    BY <2>1, RowsAreRecords DEF Record
  <2>3. /\ [records EXCEPT ![p] = m] \in Seq(Record)
        /\ Len([records EXCEPT ![p] = m]) = Len(records)
    <3> HIDE DEF m, p
    <3> QED  BY <1>1, <2>1, <2>2, ExceptSeq
  <2>4. /\ records' = [records EXCEPT ![p] = m]
        /\ byQueueID' = [byQueueID EXCEPT ![RecKey(r)] = p]
        /\ byDelivery' = byDelivery /\ rspamdPending' = rspamdPending
    BY <1>3 DEF FoldLeg
  <2> HIDE DEF m, p
  <2> QED  BY <1>1, <1>2, <2>1, <2>3, <2>4 DEF Sound, Store, Stored
<1>4. CASE MergeSame(r)
  <2> DEFINE i == byQueueID[RecKey(r)]
             m == MergeRecord(records[i], r)
             s == [recs |-> [records EXCEPT ![i] = m],
                   byQ |-> byQueueID, byD |-> byDelivery]
  <2>1. i \in 1 .. Len(records) /\ records[i] \in Record
    BY <1>1, <1>2, <1>4, ElementOfSeq DEF MergeSame, IsKnown
  <2>2. m \in Record /\ (r.dqid # NoQid => m.dqid # NoQid)
    BY <2>1, RowsAreRecords DEF Record, MergeRecord
  <2>3. /\ s.recs \in Seq(Record) /\ Len(s.recs) = Len(records)
        /\ s.recs[i] = m
    <3> HIDE DEF m, i
    <3> QED  BY <1>1, <2>1, <2>2, ExceptSeq
  <2>4. Sound(s) /\ i \in DOMAIN s.recs
    <3> HIDE DEF m, i
    <3> QED  BY <1>1, <2>1, <2>3, LenProperties DEF Sound, Store
  <2>5. SettleRow(s, i, r)
    BY <1>4 DEF MergeSame
  <2> HIDE DEF s, m, i
  <2> QED  BY <2>2, <2>3, <2>4, <2>5, SettleRowSound
<1>5. CASE AppendNew(r)
  <2> DEFINE i == Len(records) + 1
             s == [recs |-> Append(records, r),
                   byQ  |-> [byQueueID EXCEPT ![RecKey(r)] = i],
                   byD  |-> byDelivery]
  <2>1. /\ s.recs \in Seq(Record) /\ Len(s.recs) = i /\ s.recs[i] = r
    BY <1>1, AppendProperties
  <2>2. Sound(s) /\ i \in DOMAIN s.recs
    BY <1>1, <1>2, <2>1, LenProperties DEF Sound, Store
  <2>3. SettleRow(s, i, r)
    BY <1>5 DEF AppendNew
  <2> HIDE DEF s, i
  <2> QED  BY <2>1, <2>2, <2>3, SettleRowSound
<1> QED  BY <1>3, <1>4, <1>5 DEF AddRecords

\* So do the verdict and the purge.
LEMMA ApplyRspamdVerdictSound ==
  ASSUME Sound(Stored), NEW q \in QIDs, ApplyRspamdVerdict(q)
  PROVE  Sound(Stored)' /\ rspamdPending' \subseteq rspamdPending \cup {q}
<1> DEFINE i == byQueueID[<<Local, q>>]
           e == EnrichRecordWithRspamd(records[i], q)
<1>1. /\ records \in Seq(Record) /\ DOMAIN records = 1 .. Len(records)
      /\ Len(records) \in Nat
  BY LenProperties DEF Sound, Store, Stored
<1>2. CASE i \in DOMAIN records /\ ~records[i].subsumed
  <2>1. e \in Record
    <3>1. records[i] \in Record
      <4> HIDE DEF i
      <4> QED  BY <1>1, <1>2, ElementOfSeq
    <3>2. \A r \in Record : EnrichRecordWithRspamd(r, q) \in Record
      BY RowsAreRecords
    <3> QED  BY <3>1, <3>2
  <2>2. /\ [records EXCEPT ![i] = e] \in Seq(Record)
        /\ Len([records EXCEPT ![i] = e]) = Len(records)
    <3> HIDE DEF e, i
    <3> QED  BY <1>1, <1>2, <2>1, ExceptSeq
  <2>3. records' = [records EXCEPT ![i] = e] /\ UNCHANGED <<index, rspamdPending>>
    BY <1>2 DEF ApplyRspamdVerdict, HasRow
  <2> HIDE DEF e, i
  <2> QED  BY <2>2, <2>3 DEF Sound, Store, Stored, index
<1>3. CASE ~(i \in DOMAIN records /\ ~records[i].subsumed)
  BY <1>3 DEF ApplyRspamdVerdict, HasRow, Sound, Store, Stored, index
<1> QED  BY <1>2, <1>3

\* A non-empty set of positions has a last one.
LEMMA LastExists ==
  ASSUME NEW n \in Nat, NEW T \in SUBSET (1 .. n), T # {}
  PROVE  \E x \in T : \A y \in T : y <= x
<1> DEFINE D == {x .. n : x \in T}
           R == StrictSubsetOrdering(Nat)
<1>1. D \subseteq FiniteSubsetsOf(Nat) /\ D # {}
  <2>1. ASSUME NEW x \in T PROVE x .. n \in SUBSET Nat /\ IsFiniteSet(x .. n)
    BY FS_Interval
  <2> QED  BY <2>1 DEF FiniteSubsetsOf
<1>2. IsWellFoundedOn(R, FiniteSubsetsOf(Nat))
  BY FS_StrictSubsetOrderingWellFounded
<1>3. PICK m \in D : \A e \in D : ~(<<e, m>> \in R)
  <2> HIDE DEF D, R
  <2> QED  BY <1>1, <1>2, WFMin
<1>4. PICK x \in T : m = x .. n
  OBVIOUS
<1>5. ASSUME NEW y \in T, ~(y <= x) PROVE FALSE
  <2>1. y .. n \in D /\ y .. n \in SUBSET Nat /\ m \in SUBSET Nat
    BY <1>4
  <2>2. y .. n \subseteq m /\ x \in m /\ x \notin y .. n
    BY <1>4, <1>5
  <2>3. <<y .. n, m>> \in R
    BY <2>1, <2>2 DEF StrictSubsetOrdering
  <2> QED  BY <1>3, <2>1, <2>3
<1> QED  BY <1>5

\* The rebuilt index maps every key to 0 or to one of the rows.
LEMMA NewIndexSound ==
  ASSUME NEW recs \in Seq(Record)
  PROVE  /\ NewIndex(recs) \in [Key -> Nat]
         /\ \A k \in Key : NewIndex(recs)[k] <= Len(recs)
<1>1. DOMAIN recs = 1 .. Len(recs) /\ Len(recs) \in Nat
  BY LenProperties
<1>2. ASSUME NEW k \in Key PROVE NewIndex(recs)[k] \in 0 .. Len(recs)
  <2> DEFINE own == {i \in DOMAIN recs : RecKey(recs[i]) = k}
  <2>1. NewIndex(recs)[k] = IF own = {} THEN 0
                            ELSE CHOOSE i \in own : \A j \in own : j <= i
    BY DEF NewIndex
  <2>2. own \in SUBSET (1 .. Len(recs))
    BY <1>1
  <2> HIDE DEF own
  <2>3. CASE own = {}
    BY <1>1, <2>1, <2>3
  <2>4. CASE own # {}
    <3>1. \E i \in own : \A j \in own : j <= i
      BY <1>1, <2>2, <2>4, LastExists
    <3>2. NewIndex(recs)[k] \in own
      BY <2>1, <2>4, <3>1
    <3>3. NewIndex(recs)[k] \in 1 .. Len(recs)
      BY <2>2, <3>2
    <3> QED  BY <1>1, <3>3
  <2> QED  BY <2>3, <2>4
<1>3. NewIndex(recs) = [k \in Key |-> NewIndex(recs)[k]]
  BY DEF NewIndex
<1> QED  BY <1>1, <1>2, <1>3

LEMMA PurgeOlderThanSound ==
  ASSUME Sound(Stored), NEW c, PurgeOlderThan(c)
  PROVE  Sound(Stored)' /\ rspamdPending' = rspamdPending
<1> DEFINE keep == {i \in DOMAIN records : ~Expired(records[i], c)}
           pos  == 1 .. Cardinality(keep)
<1>1. records \in Seq(Record) /\ DOMAIN records = 1 .. Len(records)
      /\ Len(records) \in Nat /\ byDelivery \in [Key -> Nat]
  BY LenProperties DEF Sound, Store, Stored
<1>2. IsFiniteSet(keep) /\ Cardinality(keep) \in Nat
  <2>1. IsFiniteSet(1 .. Len(records))
    BY <1>1, FS_Interval
  <2>2. keep \subseteq 1 .. Len(records)
    BY <1>1
  <2>3. IsFiniteSet(keep)
    <3> HIDE DEF keep
    <3> QED  BY <2>1, <2>2, FS_Subset
  <2> QED  BY <2>3, FS_CardinalityType
<1>3. PICK row \in [pos -> keep] :
        /\ records' = [i \in pos |-> records[row[i]]]
        /\ byQueueID' = NewIndex(records')
        /\ UNCHANGED <<byDelivery, rspamdPending>>
  BY DEF PurgeOlderThan
<1>4. \A i \in pos : records[row[i]] \in Record
  <2> SUFFICES ASSUME NEW i \in pos PROVE records[row[i]] \in Record
    OBVIOUS
  <2>1. row[i] \in 1 .. Len(records)
    BY <1>1, <1>3
  <2> QED  BY <1>1, <2>1, ElementOfSeq
<1>5. records' \in Seq(Record) /\ Len(records') = Cardinality(keep)
  <2>1. records' \in [pos -> Record]
    <3> HIDE DEF keep
    <3> QED  BY <1>3, <1>4
  <2> HIDE DEF keep
  <2> QED  BY <1>2, <2>1, SeqDef, LenProperties
<1> HIDE DEF keep
<1> QED  BY <1>1, <1>3, <1>5, NewIndexSound DEF Sound, Store, Stored

-----------------------------------------------------------------------------
(* Types, and subscripts that stay within the rows.                        *)

InputOK ==
  /\ rspamdPending \subseteq Scored
  /\ fed \in [QIDs -> Nat]
  /\ told \subseteq Scored
  /\ cutoff \in 0 .. MaxTime + 1

IInv == Sound(Stored) /\ InputOK

LEMMA IInvInit == Init => IInv
<1> SUFFICES ASSUME Init PROVE IInv
  OBVIOUS
<1>1. records \in Seq(Record) /\ Len(records) = 0
  BY EmptySeq DEF Init
<1>2. Sound(Stored)
  BY <1>1 DEF Init, Sound, Store, Stored
<1> QED  BY <1>2, LogAssumption DEF Init, IInv, InputOK

LEMMA IInvStep == IInv /\ [Next]_vars => IInv'
<1> SUFFICES ASSUME IInv, [Next]_vars PROVE IInv'
  OBVIOUS
<1> USE DEF IInv, InputOK
<1>1. ASSUME NEW q \in QIDs, FeedMail(q) PROVE IInv'
  <2>1. PICK b \in (fed[q] + 1) .. Len(Stamp[q]), known \in BOOLEAN :
          /\ AddRecords(ParseLines(q, fed[q], b, known))
          /\ fed' = [fed EXCEPT ![q] = b]
          /\ UNCHANGED <<told, cutoff>>
    BY <1>1 DEF FeedMail
  <2>2. fed[q] \in Nat
    OBVIOUS
  <2>3. ParseLines(q, fed[q], b, known) \in Record
    BY <2>2, ParseLinesType
  <2>4. Sound(Stored)' /\ rspamdPending' \subseteq rspamdPending
    BY <2>1, <2>3, AddRecordsSound
  <2>5. b \in Nat
    BY <2>2
  <2> QED  BY <2>1, <2>4, <2>5
<1>2. ASSUME NEW q \in QIDs, FeedVerdict(q) PROVE IInv'
  <2>1. Sound(Stored)' /\ rspamdPending' \subseteq rspamdPending \cup {q}
    BY <1>2, ApplyRspamdVerdictSound DEF FeedVerdict
  <2> QED  BY <1>2, <2>1 DEF FeedVerdict
<1>3. CASE Prune
  BY <1>3 DEF Prune, PruneRspamdPending, Sound, Stored, index, input
<1>4. CASE Purge
  <2>1. PICK c \in cutoff .. MaxTime + 1 :
          PurgeOlderThan(c) /\ cutoff' = c /\ UNCHANGED input
    BY <1>4 DEF Purge
  <2>2. Sound(Stored)' /\ rspamdPending' = rspamdPending
    BY <2>1, PurgeOlderThanSound
  <2>3. cutoff' \in 0 .. MaxTime + 1
    BY <2>1, LogAssumption
  <2> QED  BY <2>1, <2>2, <2>3 DEF input
<1>5. CASE UNCHANGED vars
  BY <1>5 DEF vars, index, input, Sound, Stored
<1> QED  BY <1>1, <1>2, <1>3, <1>4, <1>5 DEF Next

\* Every variable keeps its type.
THEOREM TypeCorrect == Spec => []TypeOK
<1>1. IInv => TypeOK
  BY DEF IInv, InputOK, Sound, Store, Stored, TypeOK
<1> QED  BY <1>1, IInvInit, IInvStep, PTL DEF Spec

\* No subscript taken from byQueueID is out of range, whatever is purged and
\* however the watchers, the purges and the detail requests interleave.
THEOREM SubscriptsInRange == Spec => []IndexInRange
<1>1. IInv => IndexInRange
  BY DEF IInv, Sound, Store, Stored, IndexInRange
<1> QED  BY <1>1, IInvInit, IInvStep, PTL DEF Spec

(***************************************************************************)
(* Part 2.  Where log lines end up, and how rows are found, while retention*)
(* is off.                                                                 *)
(***************************************************************************)
-----------------------------------------------------------------------------
(* The inductive invariant.                                                *)

\* Row i: what it shows, whose leg it can be, and how it is found.
RowLinked(s, i) ==
  LET r == s.recs[i]
  IN  /\ r.origin = Local
      /\ r.dqid \in {NoQid, Leg[r.qid]}
      /\ \A l \in r.lines : l.q \in {r.qid, Leg[r.qid]}
      /\ r.subsumed => Leg[r.qid] = NoQid
      /\ ~r.subsumed => s.byQ[RecKey(r)] = i /\ s.byD[RecKey(r)] = 0
      /\ ~r.subsumed => \A l \in r.lines : s.byQ[<<Local, l.q>>] = i

\* Queue id q: the rows its keys may lead to.
KeyLinked(s, q) ==
  LET k == <<Local, q>>
  IN  /\ s.byQ[k] # 0 => q \in {s.recs[s.byQ[k]].qid, s.recs[s.byQ[k]].dqid}
      /\ s.byD[k] # 0 => /\ s.byD[k] \in 1 .. Len(s.recs)
                         /\ q = s.recs[s.byD[k]].dqid

Linked(s) ==
  /\ \A i \in 1 .. Len(s.recs) : RowLinked(s, i)
  /\ \A q \in QIDs : KeyLinked(s, q)

\* The onward id of row i is expected.
Expected(s, i) == s.recs[i].dqid # NoQid => s.byD[OnwardKey(s.recs[i])] # 0

\* A record as parseLines makes it.
Parsed(r) ==
  /\ r \in Record
  /\ r.origin = Local
  /\ ~r.subsumed
  /\ r.dqid \in {NoQid, Leg[r.qid]}
  /\ \A l \in r.lines : l.q = r.qid

-----------------------------------------------------------------------------
(* The operations preserve it.                                             *)

\* What the types say about the parts of a sound store.
LEMMA Parts ==
  ASSUME NEW s, Sound(s)
  PROVE  /\ s = [recs |-> s.recs, byQ |-> s.byQ, byD |-> s.byD]
         /\ s.recs \in Seq(Record) /\ Len(s.recs) \in Nat
         /\ DOMAIN s.recs = 1 .. Len(s.recs)
         /\ s.byQ \in [Key -> Nat] /\ s.byD \in [Key -> Nat]
         /\ \A k \in Key : s.byQ[k] \in 0 .. Len(s.recs)
         /\ \A j \in 1 .. Len(s.recs) :
              /\ s.recs[j] \in Record
              /\ s.recs[j].qid \in QIDs
              /\ s.recs[j].origin \in Origins
              /\ \A l \in s.recs[j].lines : l.q \in QIDs
<1>1. /\ s = [recs |-> s.recs, byQ |-> s.byQ, byD |-> s.byD]
      /\ s.recs \in Seq(Record)
      /\ s.byQ \in [Key -> Nat] /\ s.byD \in [Key -> Nat]
      /\ \A k \in Key : s.byQ[k] <= Len(s.recs)
  BY DEF Sound, Store
<1>2. Len(s.recs) \in Nat /\ DOMAIN s.recs = 1 .. Len(s.recs)
  BY <1>1, LenProperties
<1>3. ASSUME NEW j \in 1 .. Len(s.recs)
      PROVE  /\ s.recs[j] \in Record
             /\ s.recs[j].qid \in QIDs
             /\ s.recs[j].origin \in Origins
             /\ \A l \in s.recs[j].lines : l.q \in QIDs
  <2>1. s.recs[j] \in Record
    BY <1>1, ElementOfSeq
  <2> QED  BY <2>1 DEF Record, Line
<1> QED  BY <1>1, <1>2, <1>3

\* Registering the leg of a listed row: what changes, ...
LEMMA RegisterDeliveryEffect ==
  ASSUME NEW s, Sound(s), Linked(s), NEW i \in 1 .. Len(s.recs),
         ~s.recs[i].subsumed, s.recs[i].dqid # NoQid,
         NEW d, d = OnwardKey(s.recs[i]), NEW o, o = s.byQ[d],
         NEW t, t = RegisterDelivery(s, i)
  PROVE  /\ d \in Key /\ d = <<Local, Leg[s.recs[i].qid]>>
         /\ Leg[s.recs[i].qid] \in QIDs /\ Leg[Leg[s.recs[i].qid]] = NoQid
         /\ t.byD = [s.byD EXCEPT ![d] = i]
         /\ \/ /\ o \in 1 .. Len(s.recs) /\ o # i /\ ~s.recs[o].subsumed
               /\ s.recs[o].qid = Leg[s.recs[i].qid]
               /\ t.byQ = [s.byQ EXCEPT ![d] = i]
               /\ t.recs = [s.recs EXCEPT
                              ![i] = MergeDeliveryLeg(s.recs[i], s.recs[o]),
                              ![o] = [s.recs[o] EXCEPT !.subsumed = TRUE]]
            \/ /\ t.recs = s.recs /\ t.byQ = s.byQ
               /\ \A j \in 1 .. Len(s.recs) :
                    RecKey(s.recs[j]) = d => s.recs[j].subsumed
<1>0. /\ s = [recs |-> s.recs, byQ |-> s.byQ, byD |-> s.byD]
      /\ s.recs \in Seq(Record) /\ Len(s.recs) \in Nat
      /\ DOMAIN s.recs = 1 .. Len(s.recs)
      /\ s.byQ \in [Key -> Nat] /\ s.byD \in [Key -> Nat]
      /\ \A k \in Key : s.byQ[k] \in 0 .. Len(s.recs)
      /\ \A j \in 1 .. Len(s.recs) : s.recs[j].qid \in QIDs
  BY Parts
<1> DEFINE leg == Leg[s.recs[i].qid]
<1>1. RowLinked(s, i)
  BY DEF Linked
<1>2. /\ s.recs[i].origin = Local /\ s.recs[i].dqid = leg
      /\ s.recs[i].qid \in QIDs /\ s.byQ[RecKey(s.recs[i])] = i
  BY <1>0, <1>1 DEF RowLinked
<1>3. leg \in QIDs /\ Leg[leg] = NoQid /\ leg # s.recs[i].qid
  BY <1>2, LegAssumption
<1>4. d \in Key /\ d = <<Local, leg>>
  BY <1>2, <1>3, LogAssumption DEF OnwardKey, Key
<1>5. o \in 0 .. Len(s.recs) /\ KeyLinked(s, leg)
  BY <1>0, <1>3, <1>4 DEF Linked
<1> HIDE DEF leg
<1>6. CASE o # 0 /\ o # i /\ ~s.recs[o].subsumed
  <2>1. o \in 1 .. Len(s.recs) /\ RowLinked(s, o)
    BY <1>0, <1>5, <1>6 DEF Linked
  <2>2. s.recs[o].qid \in QIDs /\ s.recs[o].origin = Local
        /\ s.byQ[RecKey(s.recs[o])] = o
    BY <1>0, <1>6, <2>1 DEF RowLinked
  <2>3. leg \in {s.recs[o].qid, Leg[s.recs[o].qid]}
    BY <1>3, <1>4, <1>5, <1>6, <2>1, LegAssumption, SMTT(60) DEF KeyLinked, RowLinked
  <2>4. Leg[s.recs[o].qid] # leg
    <3> SUFFICES ASSUME Leg[s.recs[o].qid] = leg PROVE FALSE
      OBVIOUS
    <3>1. s.recs[o].qid = s.recs[i].qid
      BY <1>2, <1>3, <2>2, LegAssumption DEF leg
    <3> QED  BY <1>2, <1>6, <2>2, <3>1 DEF RecKey
  <2> DEFINE rows == [s.recs EXCEPT
                        ![i] = MergeDeliveryLeg(s.recs[i], s.recs[o]),
                        ![o] = [s.recs[o] EXCEPT !.subsumed = TRUE]]
  <2>5. t = [recs |-> rows,
             byQ |-> [s.byQ EXCEPT ![d] = i], byD |-> [s.byD EXCEPT ![d] = i]]
    BY <1>0, <1>6 DEF RegisterDelivery
  <2>6. s.recs[o].qid = leg
    BY <2>3, <2>4
  <2>7. t.recs = rows /\ t.byQ = [s.byQ EXCEPT ![d] = i]
        /\ t.byD = [s.byD EXCEPT ![d] = i]
    <3> HIDE DEF rows
    <3> QED  BY <2>5
  <2> QED  BY <1>3, <1>4, <1>6, <2>1, <2>6, <2>7, Zenon DEF leg
<1>7. CASE ~(o # 0 /\ o # i /\ ~s.recs[o].subsumed)
  <2>1. ASSUME NEW j \in 1 .. Len(s.recs), RecKey(s.recs[j]) = d,
               ~s.recs[j].subsumed
        PROVE  FALSE
    <3>1. s.byQ[RecKey(s.recs[j])] = j
      BY <2>1 DEF Linked, RowLinked
    <3>2. j = i
      BY <1>7, <2>1, <3>1
    <3> QED  BY <1>2, <1>3, <1>4, <2>1, <3>2 DEF RecKey
  <2>2. t = [s EXCEPT !.byD[d] = i]
    BY <1>7 DEF RegisterDelivery
  <2>3. t.recs = s.recs /\ t.byQ = s.byQ /\ t.byD = [s.byD EXCEPT ![d] = i]
    BY <1>0, <2>2
  <2> QED  BY <1>3, <1>4, <2>1, <2>3 DEF leg
<1> QED  BY <1>6, <1>7

\* ... and that the invariant survives it, with row i's leg now expected and
\* no row changing its queue id or its onward id.
LEMMA RegisterDeliveryLinked ==
  ASSUME NEW s, Sound(s), Linked(s), NEW i \in 1 .. Len(s.recs),
         ~s.recs[i].subsumed, s.recs[i].dqid # NoQid,
         NEW t, t = RegisterDelivery(s, i)
  PROVE  /\ Linked(t)
         /\ ~t.recs[i].subsumed
         /\ Expected(t, i)
         /\ \A j \in 1 .. Len(s.recs) : Expected(s, j) => Expected(t, j)
<1> DEFINE leg == Leg[s.recs[i].qid]
           d == OnwardKey(s.recs[i])
           o == s.byQ[d]
           m == MergeDeliveryLeg(s.recs[i], s.recs[o])
           x == [s.recs[o] EXCEPT !.subsumed = TRUE]
<1>1. /\ d \in Key /\ d = <<Local, leg>>
      /\ leg \in QIDs /\ Leg[leg] = NoQid
      /\ t.byD = [s.byD EXCEPT ![d] = i]
      /\ \/ /\ o \in 1 .. Len(s.recs) /\ o # i /\ ~s.recs[o].subsumed
            /\ s.recs[o].qid = leg
            /\ t.byQ = [s.byQ EXCEPT ![d] = i]
            /\ t.recs = [s.recs EXCEPT ![i] = m, ![o] = x]
         \/ /\ t.recs = s.recs /\ t.byQ = s.byQ
            /\ \A j \in 1 .. Len(s.recs) :
                 RecKey(s.recs[j]) = d => s.recs[j].subsumed
  BY RegisterDeliveryEffect, SMTT(30)
<1>2. /\ s.recs \in Seq(Record) /\ Len(s.recs) \in Nat
      /\ DOMAIN s.recs = 1 .. Len(s.recs)
      /\ s.byQ \in [Key -> Nat] /\ s.byD \in [Key -> Nat]
      /\ \A j \in 1 .. Len(s.recs) :
           /\ s.recs[j] \in Record /\ s.recs[j].qid \in QIDs
           /\ \A l \in s.recs[j].lines : l.q \in QIDs
  BY Parts
<1>3. /\ \A j \in 1 .. Len(s.recs) : RowLinked(s, j)
      /\ \A q \in QIDs : KeyLinked(s, q)
  BY DEF Linked
<1>4. s.recs[i].dqid = leg /\ s.recs[i].origin = Local /\ leg # s.recs[i].qid
  BY <1>1, <1>2, <1>3, LegAssumption DEF RowLinked
<1>5. \A q \in QIDs : <<Local, q>> \in Key
  BY LogAssumption DEF Key
<1>6. \A j \in 1 .. Len(s.recs) : RecKey(s.recs[j]) = <<Local, s.recs[j].qid>>
  BY <1>3 DEF RowLinked, RecKey
<1> HIDE DEF leg, d
<1>61. ASSUME NEW j \in 1 .. Len(s.recs), Expected(s, j),
              t.recs[j].dqid = s.recs[j].dqid,
              OnwardKey(t.recs[j]) = OnwardKey(s.recs[j])
       PROVE  Expected(t, j)
  <2>1. s.recs[j].dqid # NoQid => OnwardKey(s.recs[j]) \in Key
    BY <1>2, RowsAreRecords
  <2> QED  BY <1>1, <1>2, <1>61, <2>1 DEF Expected
<1>62. ASSUME OnwardKey(t.recs[i]) = d PROVE Expected(t, i)
  <2>1. t.byD[d] = i /\ i # 0
    BY <1>1, <1>2
  <2> QED  BY <1>62, <2>1 DEF Expected
<1>7. CASE /\ o \in 1 .. Len(s.recs) /\ o # i /\ ~s.recs[o].subsumed
           /\ s.recs[o].qid = leg
           /\ t.byQ = [s.byQ EXCEPT ![d] = i]
           /\ t.recs = [s.recs EXCEPT ![i] = m, ![o] = x]
  <2>1. /\ Len(t.recs) = Len(s.recs)
        /\ t.recs[i] = m /\ t.recs[o] = x
        /\ \A j \in 1 .. Len(s.recs) : j # i /\ j # o => t.recs[j] = s.recs[j]
    <3>1. m \in Record /\ x \in Record
      BY <1>2, <1>7, RowsAreRecords DEF Record
    <3>2. DEFINE one == [s.recs EXCEPT ![i] = m]
    <3>3. /\ one \in Seq(Record) /\ Len(one) = Len(s.recs)
          /\ \A j \in 1 .. Len(s.recs) : one[j] = IF j = i THEN m ELSE s.recs[j]
      <4> HIDE DEF m
      <4> QED  BY <1>2, <3>1, ExceptSeq
    <3>4. t.recs = [one EXCEPT ![o] = x]
      BY <1>7
    <3>5. /\ Len(t.recs) = Len(s.recs)
          /\ \A j \in 1 .. Len(s.recs) : t.recs[j] = IF j = o THEN x ELSE one[j]
      <4> HIDE DEF x, one
      <4> QED  BY <1>7, <3>1, <3>3, <3>4, ExceptSeq
    <3> HIDE DEF one
    <3> QED  BY <1>7, <3>3, <3>5
  <2>2. /\ m.origin = Local /\ m.qid = s.recs[i].qid /\ m.dqid = leg
        /\ ~m.subsumed
        /\ m.lines = s.recs[i].lines \cup s.recs[o].lines
        /\ x.origin = s.recs[o].origin /\ x.qid = leg /\ x.subsumed
        /\ x.lines = s.recs[o].lines /\ x.dqid = s.recs[o].dqid
    BY <1>2, <1>4, <1>7 DEF MergeDeliveryLeg, Record
  <2>3. ASSUME NEW l \in s.recs[o].lines PROVE l.q = leg
    <3>1. RowLinked(s, o) /\ s.recs[o].qid = leg
      BY <1>1, <1>3, <1>7
    <3>2. l.q \in {leg, Leg[leg]}
      BY <3>1 DEF RowLinked
    <3>3. l.q \in QIDs /\ Leg[leg] = NoQid /\ NoQid \notin QIDs
      BY <1>1, <1>2, <1>7, LegAssumption
    <3> QED  BY <3>2, <3>3
  <2> HIDE DEF m, x
  <2>4. RowLinked(t, i)
    <3>1. RecKey(m) = RecKey(s.recs[i]) /\ RecKey(m) \in Key /\ RecKey(m) # d
      BY <1>1, <1>2, <1>4, <1>5, <1>6, <2>2 DEF RecKey
    <3>2. t.byQ[RecKey(m)] = i /\ t.byD[RecKey(m)] = 0
      BY <1>1, <1>2, <1>3, <1>7, <3>1 DEF RowLinked
    <3>3. ASSUME NEW l \in m.lines
          PROVE  l.q \in {m.qid, Leg[m.qid]} /\ t.byQ[<<Local, l.q>>] = i
      <4>1. CASE l \in s.recs[i].lines
        <5>1. RowLinked(s, i) /\ ~s.recs[i].subsumed /\ l.q \in QIDs
          BY <1>1, <1>2, <1>3, <4>1
        <5>2. /\ l.q \in {s.recs[i].qid, Leg[s.recs[i].qid]}
              /\ s.byQ[<<Local, l.q>>] = i
          BY <4>1, <5>1 DEF RowLinked
        <5>3. <<Local, l.q>> \in Key
          BY <1>5, <5>1
        <5>4. t.byQ[<<Local, l.q>>] = i
          BY <1>2, <1>7, <5>2, <5>3
        <5> QED  BY <2>2, <5>2, <5>4
      <4>2. CASE l \in s.recs[o].lines
        <5>1. l.q = leg /\ <<Local, l.q>> = d
          BY <1>1, <2>3, <4>2
        <5>2. t.byQ[d] = i
          BY <1>1, <1>2, <1>7
        <5> QED  BY <2>2, <5>1, <5>2 DEF leg
      <4> QED  BY <2>2, <3>3, <4>1, <4>2
    <3> QED  BY <2>1, <2>2, <3>2, <3>3 DEF RowLinked, leg
  <2>5. RowLinked(t, o)
    <3>1. RowLinked(s, o)
      BY <1>3, <1>7
    <3>2. x.origin = Local /\ x.dqid \in {NoQid, Leg[x.qid]} /\ Leg[x.qid] = NoQid
      BY <1>1, <1>7, <2>2, <3>1 DEF RowLinked
    <3>3. \A l \in x.lines : l.q \in {x.qid, Leg[x.qid]}
      BY <2>2, <2>3
    <3> QED  BY <2>1, <2>2, <3>2, <3>3 DEF RowLinked
  <2>6. ASSUME NEW j \in 1 .. Len(s.recs), j # i, j # o PROVE RowLinked(t, j)
    <3>1. RowLinked(s, j) /\ t.recs[j] = s.recs[j]
      BY <1>3, <2>1, <2>6
    <3>2. ASSUME ~s.recs[j].subsumed, NEW q \in QIDs, s.byQ[<<Local, q>>] = j
          PROVE  <<Local, q>> # d /\ t.byQ[<<Local, q>>] = j
      BY <1>1, <1>2, <1>5, <1>7, <2>6, <3>2
    <3>3. ASSUME ~s.recs[j].subsumed
          PROVE  t.byQ[RecKey(s.recs[j])] = j /\ t.byD[RecKey(s.recs[j])] = 0
      BY <1>1, <1>2, <1>5, <1>6, <3>1, <3>2, <3>3, SMTT(30) DEF RowLinked
    <3>4. ASSUME ~s.recs[j].subsumed, NEW l \in s.recs[j].lines
          PROVE  t.byQ[<<Local, l.q>>] = j
      BY <1>2, <3>1, <3>2, <3>4 DEF RowLinked
    <3> QED  BY <3>1, <3>3, <3>4 DEF RowLinked
  <2>7. ASSUME NEW q \in QIDs PROVE KeyLinked(t, q)
    <3>1. \A j \in 1 .. Len(s.recs) : /\ t.recs[j].qid = s.recs[j].qid
                                      /\ t.recs[j].dqid = s.recs[j].dqid
      BY <1>4, <1>7, <2>1, <2>2
    <3>2. KeyLinked(s, q) /\ <<Local, q>> \in Key
      BY <1>3, <1>5
    <3>3. CASE <<Local, q>> = d
      <4>1. q = leg /\ t.byQ[<<Local, q>>] = i /\ t.byD[<<Local, q>>] = i
        BY <1>1, <1>2, <1>7, <3>3
      <4> QED  BY <1>4, <2>1, <2>2, <3>1, <4>1 DEF KeyLinked
    <3>4. CASE <<Local, q>> # d
      <4>1. /\ t.byQ[<<Local, q>>] = s.byQ[<<Local, q>>]
            /\ t.byD[<<Local, q>>] = s.byD[<<Local, q>>]
        BY <1>1, <1>2, <1>7, <3>2, <3>4
      <4>2. s.byQ[<<Local, q>>] \in 0 .. Len(s.recs)
        BY <3>2, Parts
      <4>3. t.byQ[<<Local, q>>] # 0 =>
              q \in {t.recs[t.byQ[<<Local, q>>]].qid, t.recs[t.byQ[<<Local, q>>]].dqid}
        <5>1. ASSUME s.byQ[<<Local, q>>] # 0
              PROVE  s.byQ[<<Local, q>>] \in 1 .. Len(s.recs)
          BY <1>2, <4>2, <5>1
        <5> QED  BY <3>1, <3>2, <4>1, <5>1 DEF KeyLinked
      <4>4. t.byD[<<Local, q>>] # 0 =>
              /\ t.byD[<<Local, q>>] \in 1 .. Len(t.recs)
              /\ q = t.recs[t.byD[<<Local, q>>]].dqid
        BY <2>1, <3>1, <3>2, <4>1 DEF KeyLinked
      <4> QED  BY <4>3, <4>4 DEF KeyLinked
    <3> QED  BY <3>3, <3>4
  <2>8. Linked(t)
    BY <2>1, <2>4, <2>5, <2>6, <2>7 DEF Linked
  <2>9. \A j \in 1 .. Len(s.recs) : OnwardKey(t.recs[j]) = OnwardKey(s.recs[j])
                                   /\ t.recs[j].dqid = s.recs[j].dqid
    BY <1>4, <1>7, <2>1, <2>2 DEF OnwardKey
  <2> QED  BY <1>61, <1>62, <2>1, <2>2, <2>8, <2>9 DEF d
<1>8. CASE /\ t.recs = s.recs /\ t.byQ = s.byQ
           /\ \A j \in 1 .. Len(s.recs) :
                RecKey(s.recs[j]) = d => s.recs[j].subsumed
  <2>1. ASSUME NEW j \in 1 .. Len(s.recs) PROVE RowLinked(t, j)
    <3>1. RowLinked(s, j)
      BY <1>3
    <3>2. ~s.recs[j].subsumed => t.byD[RecKey(s.recs[j])] = 0
      BY <1>1, <1>2, <1>5, <1>6, <1>8, <3>1, SMTT(30) DEF RowLinked
    <3> QED  BY <1>8, <3>1, <3>2 DEF RowLinked
  <2>2. ASSUME NEW q \in QIDs PROVE KeyLinked(t, q)
    <3>1. KeyLinked(s, q) /\ <<Local, q>> \in Key
      BY <1>3, <1>5
    <3>2. CASE <<Local, q>> = d
      <4>1. q = leg /\ t.byD[<<Local, q>>] = i
        BY <1>1, <1>2, <3>2
      <4> QED  BY <1>4, <1>8, <3>1, <4>1 DEF KeyLinked
    <3>3. CASE <<Local, q>> # d
      BY <1>1, <1>2, <1>8, <3>1, <3>3 DEF KeyLinked
    <3> QED  BY <3>2, <3>3
  <2>3. Linked(t)
    BY <1>8, <2>1, <2>2 DEF Linked
  <2> QED  BY <1>61, <1>62, <1>8, <2>3 DEF d
<1> QED  BY <1>1, <1>7, <1>8

\* Rewriting row i with an e of the same identity whose further lines belong
\* to its message and already lead to it.
LEMMA RewriteRowLinked ==
  ASSUME NEW s, Sound(s), Linked(s), NEW i \in 1 .. Len(s.recs),
         NEW e \in Record, e.origin = s.recs[i].origin,
         e.qid = s.recs[i].qid, e.subsumed = s.recs[i].subsumed,
         e.dqid \in {NoQid, Leg[e.qid]}, s.recs[i].dqid \in {NoQid, e.dqid},
         \A l \in e.lines :
           l \in s.recs[i].lines
           \/ (l.q \in {e.qid, Leg[e.qid]} /\ s.byQ[<<Local, l.q>>] = i),
         NEW t, t.recs = [s.recs EXCEPT ![i] = e], t.byQ = s.byQ, t.byD = s.byD
  PROVE  /\ Linked(t)
         /\ Len(t.recs) = Len(s.recs) /\ t.recs[i] = e
         /\ \A j \in 1 .. Len(s.recs) : j # i /\ Expected(s, j) => Expected(t, j)
         /\ e.dqid = s.recs[i].dqid /\ Expected(s, i) => Expected(t, i)
<1>1. /\ s.recs \in Seq(Record) /\ Len(s.recs) \in Nat
      /\ \A k \in Key : s.byQ[k] \in 0 .. Len(s.recs)
  BY Parts
<1>2. /\ Len(t.recs) = Len(s.recs)
      /\ \A j \in 1 .. Len(s.recs) : t.recs[j] = IF j = i THEN e ELSE s.recs[j]
  BY <1>1, ExceptSeq
<1>3. ASSUME NEW j \in 1 .. Len(s.recs) PROVE RowLinked(t, j)
  <2>1. RowLinked(s, j)
    BY DEF Linked
  <2>2. RecKey(t.recs[j]) = RecKey(s.recs[j])
    BY <1>2 DEF RecKey
  <2> QED  BY <1>2, <2>1, <2>2, ZenonT(60) DEF RowLinked
<1>4. ASSUME NEW q \in QIDs PROVE KeyLinked(t, q)
  <2>1. KeyLinked(s, q) /\ s.byQ[<<Local, q>>] \in 0 .. Len(s.recs)
    BY <1>1, LogAssumption DEF Linked, Key
  <2>2. \A j \in 1 .. Len(s.recs) : /\ t.recs[j].qid = s.recs[j].qid
                                    /\ s.recs[j].dqid \in {NoQid, t.recs[j].dqid}
    BY <1>2
  <2>3. q # NoQid
    BY LegAssumption
  <2>4. s.byQ[<<Local, q>>] # 0 => s.byQ[<<Local, q>>] \in 1 .. Len(s.recs)
    BY <1>1, <2>1
  <2> QED  BY <1>2, <2>1, <2>2, <2>3, <2>4 DEF KeyLinked
<1>5. Linked(t)
  BY <1>2, <1>3, <1>4 DEF Linked
<1> QED  BY <1>2, <1>5 DEF Expected, OnwardKey

\* A verdict added to the row its queue id leads to.
LEMMA EnrichLinked ==
  ASSUME NEW s, Sound(s), Linked(s), NEW i \in 1 .. Len(s.recs),
         NEW q \in QIDs, s.byQ[<<Local, q>>] = i,
         NEW t, t.recs = [s.recs EXCEPT ![i] = EnrichRecordWithRspamd(@, q)],
         t.byQ = s.byQ, t.byD = s.byD
  PROVE  /\ Linked(t) /\ Len(t.recs) = Len(s.recs)
         /\ \A j \in 1 .. Len(s.recs) : Expected(s, j) => Expected(t, j)
<1> DEFINE e == EnrichRecordWithRspamd(s.recs[i], q)
<1>1. s.recs[i] \in Record
  BY Parts
<1>2. e \in Record
  BY <1>1, RowsAreRecords
<1>3. /\ e.origin = s.recs[i].origin /\ e.qid = s.recs[i].qid
      /\ e.subsumed = s.recs[i].subsumed /\ e.dqid = s.recs[i].dqid
      /\ e.lines = s.recs[i].lines \cup {RspamdLine(q)}
  BY <1>1 DEF EnrichRecordWithRspamd, Record
<1>4. RowLinked(s, i) /\ KeyLinked(s, q)
  BY DEF Linked
<1>5. q \in {e.qid, Leg[e.qid]} /\ e.dqid \in {NoQid, Leg[e.qid]}
  <2>1. s.byQ[<<Local, q>>] # 0
    BY Parts
  <2>2. q \in {s.recs[i].qid, Leg[s.recs[i].qid]}
    BY <1>4, <2>1, LegAssumption DEF KeyLinked, RowLinked
  <2>3. s.recs[i].dqid \in {NoQid, Leg[s.recs[i].qid]}
    BY <1>4 DEF RowLinked
  <2>4. e.qid = s.recs[i].qid /\ e.dqid = s.recs[i].dqid
    BY <1>3
  <2> HIDE DEF e
  <2> QED  BY <2>2, <2>3, <2>4
<1>6. \A l \in e.lines : l \in s.recs[i].lines
                        \/ (l.q \in {e.qid, Leg[e.qid]} /\ s.byQ[<<Local, l.q>>] = i)
  BY <1>3, <1>5 DEF RspamdLine
<1>7. t.recs = [s.recs EXCEPT ![i] = e]
  OBVIOUS
<1> HIDE DEF e
<1> QED  BY <1>2, <1>3, <1>5, <1>6, <1>7, RewriteRowLinked, SMTT(60)

\* Where cases (2) and (3) stand when row i has taken r in: row i is listed;
\* only its own onward id may still have to be registered, and r brought it.
Settling(s, i, r) ==
  /\ Sound(s) /\ Linked(s) /\ r \in Record
  /\ i \in 1 .. Len(s.recs) /\ ~s.recs[i].subsumed
  /\ r.dqid # NoQid => s.recs[i].dqid # NoQid
  /\ r.dqid = NoQid => Expected(s, i)
  /\ \A j \in 1 .. Len(s.recs) : j # i => Expected(s, j)

LEMMA SettleRowLinked ==
  ASSUME NEW s, NEW r, NEW i, Settling(s, i, r), SettleRow(s, i, r)
  PROVE  Linked(Stored)' /\ \A j \in DOMAIN records' : Expected(Stored, j)'
<1> DEFINE t == IF r.dqid # NoQid THEN RegisterDelivery(s, i) ELSE s
           q == t.recs[i].qid
           u == [recs |-> records', byQ |-> byQueueID', byD |-> byDelivery']
<1>0. /\ Sound(s) /\ Linked(s) /\ r \in Record
      /\ i \in 1 .. Len(s.recs) /\ ~s.recs[i].subsumed
      /\ r.dqid # NoQid => s.recs[i].dqid # NoQid
      /\ r.dqid = NoQid => Expected(s, i)
      /\ \A j \in 1 .. Len(s.recs) : j # i => Expected(s, j)
  BY DEF Settling
<1>1. DOMAIN s.recs = 1 .. Len(s.recs)
  BY <1>0, Parts
<1>2. /\ Sound(t) /\ Len(t.recs) = Len(s.recs) /\ Linked(t) /\ ~t.recs[i].subsumed
      /\ \A j \in 1 .. Len(s.recs) : Expected(t, j)
  <2>1. CASE r.dqid = NoQid
    BY <1>0, <2>1
  <2>2. CASE r.dqid # NoQid
    <3> DEFINE v == RegisterDelivery(s, i)
    <3>1. t = v
      BY <2>2
    <3>2. Sound(v) /\ Len(v.recs) = Len(s.recs)
      BY <1>0, <1>1, <2>2, RegisterDeliverySound
    <3>3. /\ Linked(v) /\ ~v.recs[i].subsumed /\ Expected(v, i)
          /\ \A j \in 1 .. Len(s.recs) : Expected(s, j) => Expected(v, j)
      BY <1>0, <2>2, RegisterDeliveryLinked
    <3> HIDE DEF v
    <3> QED  BY <1>0, <3>1, <3>2, <3>3
  <2> QED  BY <2>1, <2>2
<1>3. /\ records' = IF q \in rspamdPending
                    THEN [t.recs EXCEPT ![i] = EnrichRecordWithRspamd(@, q)]
                    ELSE t.recs
      /\ byQueueID' = t.byQ /\ byDelivery' = t.byD
  BY DEF SettleRow
<1>4. q \in QIDs /\ t.byQ[<<Local, q>>] = i
  <2> HIDE DEF t
  <2>1. RowLinked(t, i) /\ t.recs[i].qid \in QIDs
    BY <1>0, <1>2, Parts DEF Linked
  <2> QED  BY <1>0, <1>2, <2>1 DEF RowLinked, RecKey
<1> HIDE DEF t
<1>5. Linked(u) /\ \A j \in 1 .. Len(records') : Expected(u, j)
  <2>1. CASE q \in rspamdPending
    <3>1. /\ u.recs = [t.recs EXCEPT ![i] = EnrichRecordWithRspamd(@, q)]
          /\ u.byQ = t.byQ /\ u.byD = t.byD /\ u.recs = records'
      BY <1>3, <2>1
    <3> HIDE DEF u, q
    <3>2. /\ Linked(u) /\ Len(u.recs) = Len(t.recs)
          /\ \A j \in 1 .. Len(t.recs) : Expected(t, j) => Expected(u, j)
      BY <1>0, <1>2, <1>4, <3>1, EnrichLinked
    <3> QED  BY <1>0, <1>2, <3>1, <3>2
  <2>2. CASE q \notin rspamdPending
    <3>1. u = t
      BY <1>2, <1>3, <2>2, Parts
    <3> QED  BY <1>2, <1>3, <2>2, <3>1
  <2> QED  BY <2>1, <2>2
<1>6. DOMAIN records' = 1 .. Len(records')
  <2>1. Sound(Stored)'
    BY <1>0, <1>1, SettleRowSound
  <2> QED  BY <2>1, LenProperties DEF Sound, Store, Stored
<1> QED  BY <1>5, <1>6 DEF Stored, Linked, Expected, RowLinked, KeyLinked

\* The whole invariant: the links hold and every onward id is expected.
Links == Linked(Stored) /\ \A i \in DOMAIN records : Expected(Stored, i)

\* What Links and Sound say about the variables.
LEMMA StoredParts ==
  ASSUME Sound(Stored), Links
  PROVE  /\ records \in Seq(Record) /\ Len(records) \in Nat
         /\ DOMAIN records = 1 .. Len(records)
         /\ byQueueID \in [Key -> Nat] /\ byDelivery \in [Key -> Nat]
         /\ \A k \in Key : byQueueID[k] \in 0 .. Len(records)
         /\ \A j \in 1 .. Len(records) :
              /\ records[j] \in Record /\ records[j].qid \in QIDs
              /\ records[j].origin = Local
              /\ RecKey(records[j]) = <<Local, records[j].qid>>
              /\ \A l \in records[j].lines : l.q \in QIDs
              /\ RowLinked(Stored, j) /\ Expected(Stored, j)
         /\ \A q \in QIDs : KeyLinked(Stored, q) /\ <<Local, q>> \in Key
<1> DEFINE s == Stored
<1>1. /\ s.recs = records /\ s.byQ = byQueueID /\ s.byD = byDelivery
  BY DEF Stored
<1>2. Sound(s) /\ Linked(s)
  BY DEF Links
<1>3. /\ \A j \in 1 .. Len(s.recs) : RowLinked(s, j)
      /\ \A q \in QIDs : KeyLinked(s, q)
  BY <1>2 DEF Linked
<1>4. \A j \in 1 .. Len(s.recs) : s.recs[j].origin = Local
  BY <1>3 DEF RowLinked
<1> HIDE DEF s
<1>5. /\ s.recs \in Seq(Record) /\ Len(s.recs) \in Nat
      /\ DOMAIN s.recs = 1 .. Len(s.recs)
      /\ s.byQ \in [Key -> Nat] /\ s.byD \in [Key -> Nat]
      /\ \A k \in Key : s.byQ[k] \in 0 .. Len(s.recs)
      /\ \A j \in 1 .. Len(s.recs) :
           /\ s.recs[j] \in Record /\ s.recs[j].qid \in QIDs
           /\ \A l \in s.recs[j].lines : l.q \in QIDs
  BY <1>2, Parts
<1>6. \A j \in DOMAIN records : Expected(s, j)
  BY DEF Links, s
<1>7. \A q \in QIDs : <<Local, q>> \in Key
  BY LogAssumption DEF Key
<1> QED  BY <1>1, <1>3, <1>4, <1>5, <1>6, <1>7 DEF RecKey, s

LEMMA FoldLegLinks ==
  ASSUME Sound(Stored), Links, NEW r, Parsed(r), FoldLeg(r)
  PROVE  Links'
<1> DEFINE q == r.qid
           k == <<Local, q>>
           p == byDelivery[k]
           m == MergeDeliveryLeg(records[p], r)
           s == [recs |-> records, byQ |-> [byQueueID EXCEPT ![k] = p],
                 byD |-> byDelivery]
           t == [recs |-> records', byQ |-> byQueueID', byD |-> byDelivery']
<1>1. r \in Record /\ q \in QIDs /\ k \in Key /\ RecKey(r) = k
      /\ \A l \in r.lines : l.q = q
  BY LogAssumption DEF Parsed, Record, RecKey, Key
<1>2. /\ p \in DOMAIN records
      /\ records' = [records EXCEPT ![p] = m]
      /\ byQueueID' = [byQueueID EXCEPT ![k] = p]
      /\ byDelivery' = byDelivery
  BY <1>1 DEF FoldLeg
<1>3. /\ records \in Seq(Record) /\ Len(records) \in Nat
      /\ DOMAIN records = 1 .. Len(records)
      /\ byQueueID \in [Key -> Nat] /\ byDelivery \in [Key -> Nat]
      /\ \A h \in Key : byQueueID[h] \in 0 .. Len(records)
      /\ \A j \in 1 .. Len(records) :
           /\ records[j] \in Record /\ records[j].qid \in QIDs
           /\ records[j].origin = Local
           /\ RecKey(records[j]) = <<Local, records[j].qid>>
           /\ \A l \in records[j].lines : l.q \in QIDs
           /\ RowLinked(Stored, j) /\ Expected(Stored, j)
      /\ \A h \in QIDs : KeyLinked(Stored, h) /\ <<Local, h>> \in Key
  BY StoredParts
<1>4. p \in 1 .. Len(records) /\ p # 0
  BY <1>2, <1>3
<1> HIDE DEF p, m, k
<1>5. q = Leg[records[p].qid] /\ q = records[p].dqid
  <2>1. q = records[p].dqid
    BY <1>1, <1>3, <1>4 DEF KeyLinked, Stored, k, p
  <2>2. records[p].dqid \in {NoQid, Leg[records[p].qid]}
    BY <1>3, <1>4 DEF RowLinked, Stored
  <2> QED  BY <1>1, <2>1, <2>2, LegAssumption
<1>6. ~records[p].subsumed
  <2>1. RowLinked(Stored, p)
    BY <1>3, <1>4
  <2>2. records[p].subsumed => Leg[records[p].qid] = NoQid
    BY <2>1 DEF RowLinked, Stored
  <2> QED  BY <1>1, <1>5, <2>2, LegAssumption
<1>51. q = Leg[records[p].qid]
  BY <1>5
<1>7. byQueueID[RecKey(records[p])] = p /\ records[p].qid # q
  BY <1>1, <1>3, <1>4, <1>51, <1>6, LegAssumption DEF RowLinked, Stored
\* No listed row but p is found through the leg's queue id.
<1>8. ASSUME NEW j \in 1 .. Len(records), ~records[j].subsumed, j # p
      PROVE  /\ records[j].qid # q
             /\ \A l \in records[j].lines : l.q # q
  <2>1. RowLinked(Stored, j)
    BY <1>3
  <2>2. records[j].qid # q
    BY <1>3, <1>4, <1>8, <2>1, ZenonT(60) DEF RowLinked, Stored, p, k
  <2>3. Leg[records[j].qid] # q
    <3> SUFFICES ASSUME Leg[records[j].qid] = q PROVE FALSE
      OBVIOUS
    <3>1. records[j].qid = records[p].qid
      BY <1>1, <1>3, <1>4, <1>51, LegAssumption
    <3>2. byQueueID[RecKey(records[j])] = j
      BY <1>8, <2>1 DEF RowLinked, Stored
    <3> QED  BY <1>3, <1>4, <1>7, <1>8, <3>1, <3>2
  <2> QED  BY <1>8, <2>1, <2>2, <2>3 DEF RowLinked, Stored
<1>9. Sound(s)
  BY <1>1, <1>3, <1>4 DEF Sound, Store, k
<1>10. Linked(s)
  <2>1. ASSUME NEW j \in 1 .. Len(records) PROVE RowLinked(s, j)
    <3>1. RowLinked(Stored, j)
      BY <1>3
    <3>2. CASE records[j].subsumed
      BY <3>1, <3>2 DEF RowLinked, Stored
    <3>3. CASE j = p
      <4>1. RecKey(records[p]) # k /\ RecKey(records[p]) \in Key
        BY <1>3, <1>4, <1>7 DEF k
      <4>2. s.byQ[RecKey(records[p])] = p
        BY <1>1, <1>3, <1>7, <4>1
      <4>3. \A l \in records[p].lines : s.byQ[<<Local, l.q>>] = p
        BY <1>1, <1>3, <1>4, <1>6, <3>1, <3>3 DEF RowLinked, Stored
      <4> QED  BY <3>1, <3>3, <4>2, <4>3 DEF RowLinked, Stored
    <3>4. CASE ~records[j].subsumed /\ j # p
      <4>1. \A h \in QIDs : h # q => s.byQ[<<Local, h>>] = byQueueID[<<Local, h>>]
        BY <1>1, <1>3 DEF k
      <4>2. /\ s.byQ[RecKey(records[j])] = byQueueID[RecKey(records[j])]
            /\ \A l \in records[j].lines :
                 s.byQ[<<Local, l.q>>] = byQueueID[<<Local, l.q>>]
        BY <1>3, <1>8, <3>4, <4>1
      <4> QED  BY <3>1, <3>4, <4>2 DEF RowLinked, Stored
    <3> QED  BY <3>2, <3>3, <3>4
  <2>2. ASSUME NEW h \in QIDs PROVE KeyLinked(s, h)
    <3>1. KeyLinked(Stored, h)
      BY <1>3
    <3>2. CASE h = q
      BY <1>1, <1>3, <1>4, <1>5, <3>1, <3>2 DEF KeyLinked, Stored, k
    <3>3. CASE h # q
      BY <1>1, <1>3, <3>1, <3>3 DEF KeyLinked, Stored, k
    <3> QED  BY <3>2, <3>3
  <2> QED  BY <2>1, <2>2 DEF Linked
<1>11. /\ m \in Record /\ m.origin = records[p].origin /\ m.qid = records[p].qid
       /\ m.subsumed = records[p].subsumed /\ m.dqid = q
       /\ m.lines = records[p].lines \cup r.lines
  BY <1>1, <1>3, <1>4, RowsAreRecords DEF MergeDeliveryLeg, Record, m
<1>12. s.byQ[<<Local, q>>] = p
  BY <1>1, <1>3 DEF k
<1>13. \A l \in m.lines :
         l \in records[p].lines
         \/ (l.q \in {m.qid, Leg[m.qid]} /\ s.byQ[<<Local, l.q>>] = p)
  BY <1>1, <1>5, <1>11, <1>12
<1>14. /\ t.recs = [s.recs EXCEPT ![p] = m] /\ t.byQ = s.byQ /\ t.byD = s.byD
       /\ s.recs = records
  BY <1>2
<1>15. \A j \in 1 .. Len(records) : Expected(s, j)
  BY <1>3 DEF Expected, Stored
<1> HIDE DEF s, t
<1>151. m.dqid \in {NoQid, Leg[m.qid]} /\ s.recs[p].dqid \in {NoQid, m.dqid}
  BY <1>5, <1>11, <1>14
<1>16. /\ Linked(t) /\ Len(t.recs) = Len(records) /\ t.recs[p] = m
       /\ \A j \in 1 .. Len(records) : j # p => Expected(t, j)
  BY <1>4, <1>9, <1>10, <1>11, <1>13, <1>14, <1>15, <1>151, RewriteRowLinked, SMTT(60)
<1>17. Expected(t, p)
  <2>1. OnwardKey(m) = k
    BY <1>3, <1>4, <1>11 DEF OnwardKey, k
  <2>2. t.byD[k] = p
    BY <1>2 DEF t, p
  <2> QED  BY <1>4, <1>16, <2>1, <2>2 DEF Expected
<1>18. DOMAIN records' = 1 .. Len(records)
  BY <1>2, <1>3
<1> QED  BY <1>16, <1>17, <1>18 DEF Links, Stored, t, Linked, RowLinked, KeyLinked,
         Expected

LEMMA MergeSameSettles ==
  ASSUME Sound(Stored), Links, NEW r, Parsed(r), MergeSame(r)
  PROVE  \E s, i : /\ Settling(s, i, r) /\ SettleRow(s, i, r)
                   /\ i \in 1 .. Len(records) /\ ~records[i].subsumed
                   /\ s.recs = [records EXCEPT ![i] = MergeRecord(@, r)]
                   /\ s.byD = byDelivery /\ s.byQ[RecKey(r)] = i
<1> DEFINE k == RecKey(r)
           i == byQueueID[k]
           e == MergeRecord(records[i], r)
           s == [recs |-> [records EXCEPT ![i] = MergeRecord(@, r)],
                 byQ |-> byQueueID, byD |-> byDelivery]
<1>1. /\ r \in Record /\ r.qid \in QIDs /\ k = <<Local, r.qid>>
      /\ r.dqid \in {NoQid, Leg[r.qid]} /\ \A l \in r.lines : l.q = r.qid
  BY DEF Parsed, Record, RecKey
<1>2. /\ records \in Seq(Record) /\ Len(records) \in Nat
      /\ \A h \in Key : byQueueID[h] \in 0 .. Len(records)
      /\ \A j \in 1 .. Len(records) :
           /\ records[j] \in Record /\ records[j].qid \in QIDs
           /\ RowLinked(Stored, j) /\ Expected(Stored, j)
      /\ \A q \in QIDs : KeyLinked(Stored, q) /\ <<Local, q>> \in Key
  BY StoredParts
<1>3. i \in 1 .. Len(records) /\ ~records[i].subsumed
  BY <1>1, <1>2 DEF MergeSame, IsKnown
<1>4. SettleRow(s, i, r)
  BY DEF MergeSame
<1>5. /\ r.qid \in {records[i].qid, Leg[records[i].qid]}
      /\ records[i].dqid \in {NoQid, Leg[records[i].qid]}
      /\ byQueueID[<<Local, r.qid>>] = i
  <2>1. KeyLinked(Stored, r.qid)
    BY <1>1, <1>2
  <2>2. byQueueID[<<Local, r.qid>>] = i /\ i # 0
    BY <1>1, <1>3
  <2>3. RowLinked(Stored, i)
    BY <1>2, <1>3
  <2> HIDE DEF i
  <2>4. records[i].dqid \in {NoQid, Leg[records[i].qid]}
    BY <2>3 DEF RowLinked, Stored
  <2>5. r.qid \in {records[i].qid, records[i].dqid} /\ r.qid # NoQid
    BY <1>1, <2>1, <2>2, LegAssumption DEF KeyLinked, Stored
  <2> QED  BY <2>2, <2>4, <2>5
<1>51. records[i] \in Record
  BY <1>2, <1>3
<1> HIDE DEF i
<1>6. /\ e \in Record /\ e.origin = records[i].origin /\ e.qid = records[i].qid
      /\ e.subsumed = records[i].subsumed
      /\ e.dqid = IF records[i].dqid = NoQid THEN r.dqid ELSE records[i].dqid
      /\ e.lines = records[i].lines \cup r.lines
  <2>1. e \in Record
    BY <1>1, <1>51, RowsAreRecords
  <2> QED  BY <1>51, <2>1 DEF MergeRecord, Record
<1> HIDE DEF e
<1>7. e.dqid \in {NoQid, Leg[e.qid]} /\ records[i].dqid \in {NoQid, e.dqid}
  <2>1. records[i].dqid \in {NoQid, Leg[records[i].qid]}
    BY <1>2, <1>3 DEF RowLinked, Stored
  <2> QED  BY <1>1, <1>2, <1>3, <1>5, <1>6, <2>1, LegAssumption
<1>8. \A l \in e.lines :
        l \in records[i].lines
        \/ (l.q \in {e.qid, Leg[e.qid]} /\ byQueueID[<<Local, l.q>>] = i)
  BY <1>1, <1>5, <1>6
<1>9. /\ s.recs = [records EXCEPT ![i] = e] /\ s.byQ = byQueueID
      /\ s.byD = byDelivery
  BY DEF e
<1>10. s \in Store
  BY <1>2, <1>3, <1>6, <1>9, StoredParts, ExceptSeq DEF Store
<1> HIDE DEF s, k
<1>11. /\ Linked(s) /\ Len(s.recs) = Len(records) /\ s.recs[i] = e
       /\ \A j \in 1 .. Len(records) : j # i => Expected(s, j)
       /\ e.dqid = records[i].dqid => Expected(s, i)
  <2>1. Stored.recs = records /\ Stored.byQ = byQueueID /\ Stored.byD = byDelivery
    BY DEF Stored
  <2>2. Linked(Stored)
    BY DEF Links
  <2> HIDE DEF Stored
  <2> QED  BY <1>2, <1>3, <1>6, <1>7, <1>8, <1>9, <2>1, <2>2, RewriteRowLinked, SMTT(30)
<1>12. Sound(s)
  BY <1>2, <1>9, <1>10, <1>11 DEF Sound
<1>13. Settling(s, i, r)
  BY <1>1, <1>3, <1>6, <1>11, <1>12 DEF Settling
<1>14. s.recs = [records EXCEPT ![i] = MergeRecord(@, r)]
  BY <1>9 DEF e
<1>15. s.byD = byDelivery /\ s.byQ[RecKey(r)] = i
  BY <1>1, <1>5, <1>9 DEF k
<1> QED  BY <1>3, <1>4, <1>13, <1>14, <1>15

LEMMA AppendNewSettles ==
  ASSUME Sound(Stored), Links, NEW r, Parsed(r), AppendNew(r)
  PROVE  \E s, i : /\ Settling(s, i, r) /\ SettleRow(s, i, r)
                   /\ s.recs = Append(records, r) /\ i = Len(records) + 1
                   /\ s.byD = byDelivery /\ s.byQ[RecKey(r)] = i
<1> DEFINE q == r.qid
           k == <<Local, q>>
           i == Len(records) + 1
           s == [recs |-> Append(records, r),
                 byQ |-> [byQueueID EXCEPT ![k] = i], byD |-> byDelivery]
<1>1. /\ r \in Record /\ q \in QIDs /\ RecKey(r) = k /\ r.origin = Local
      /\ ~r.subsumed
      /\ r.dqid \in {NoQid, Leg[q]} /\ \A l \in r.lines : l.q = q
  BY DEF Parsed, Record, RecKey
<1>2. /\ records \in Seq(Record) /\ Len(records) \in Nat
      /\ DOMAIN records = 1 .. Len(records)
      /\ byQueueID \in [Key -> Nat] /\ byDelivery \in [Key -> Nat]
      /\ \A h \in Key : byQueueID[h] \in 0 .. Len(records)
      /\ \A j \in 1 .. Len(records) :
           /\ records[j] \in Record /\ records[j].qid \in QIDs
           /\ RecKey(records[j]) = <<Local, records[j].qid>>
           /\ \A l \in records[j].lines : l.q \in QIDs
           /\ RowLinked(Stored, j) /\ Expected(Stored, j)
      /\ \A h \in QIDs : KeyLinked(Stored, h) /\ <<Local, h>> \in Key
  BY StoredParts
<1>3. k \in Key /\ i \in Nat
  BY <1>1, <1>2
<1>4. SettleRow(s, i, r)
  BY <1>1 DEF AppendNew
<1>5. byDelivery[k] = 0
  BY <1>1, <1>2 DEF AppendNew, IsLegOfKnown, KeyLinked, Stored
<1>6. \A j \in 1 .. Len(records) : byQueueID[k] = j => records[j].subsumed
  BY <1>1 DEF AppendNew, IsKnown
<1>7. /\ s.recs \in Seq(Record) /\ Len(s.recs) = i /\ s.recs[i] = r
      /\ \A j \in 1 .. Len(records) : s.recs[j] = records[j]
  BY <1>1, <1>2, AppendProperties
<1>8. /\ s.byQ \in [Key -> Nat] /\ s.byQ[k] = i /\ s.byD = byDelivery
      /\ \A h \in QIDs : h # q => s.byQ[<<Local, h>>] = byQueueID[<<Local, h>>]
      /\ \A h \in Key : s.byQ[h] <= i
  BY <1>1, <1>2, <1>3
<1>9. Sound(s)
  BY <1>2, <1>7, <1>8 DEF Sound, Store
<1> HIDE DEF s
<1>10. RowLinked(s, i)
  <2>1. RecKey(s.recs[i]) = k
    BY <1>1, <1>7
  <2>2. \A l \in r.lines : s.byQ[<<Local, l.q>>] = i
    BY <1>1, <1>8
  <2> QED  BY <1>1, <1>5, <1>7, <1>8, <2>1, <2>2 DEF RowLinked
<1>11. ASSUME NEW j \in 1 .. Len(records) PROVE RowLinked(s, j)
  <2>1. RowLinked(Stored, j) /\ s.recs[j] = records[j]
    BY <1>2, <1>7
  <2>2. CASE records[j].subsumed
    BY <2>1, <2>2 DEF RowLinked, Stored
  <2>3. CASE ~records[j].subsumed
    <3>1. byQueueID[RecKey(records[j])] = j /\ byQueueID[k] # j
          /\ \A l \in records[j].lines : byQueueID[<<Local, l.q>>] = j
      BY <1>6, <2>1, <2>3 DEF RowLinked, Stored
    <3>2. records[j].qid # q /\ \A l \in records[j].lines : l.q # q
      BY <1>2, <3>1
    <3>3. /\ s.byQ[RecKey(records[j])] = j
          /\ \A l \in records[j].lines : s.byQ[<<Local, l.q>>] = j
      BY <1>2, <1>8, <3>1, <3>2
    <3> QED  BY <1>8, <2>1, <2>3, <3>3 DEF RowLinked, Stored
  <2> QED  BY <2>2, <2>3
<1>12. ASSUME NEW h \in QIDs PROVE KeyLinked(s, h)
  <2>1. KeyLinked(Stored, h) /\ byQueueID[<<Local, h>>] \in 0 .. Len(records)
    BY <1>2
  <2>2. s.byD[<<Local, h>>] # 0 => /\ s.byD[<<Local, h>>] \in 1 .. Len(s.recs)
                                  /\ h = s.recs[s.byD[<<Local, h>>]].dqid
    BY <1>2, <1>7, <1>8, <2>1 DEF KeyLinked, Stored
  <2>3. CASE h = q
    BY <1>1, <1>7, <1>8, <2>2, <2>3 DEF KeyLinked
  <2>4. CASE h # q
    <3>1. s.byQ[<<Local, h>>] = byQueueID[<<Local, h>>]
      BY <1>8, <2>4
    <3> QED  BY <1>7, <2>1, <2>2, <3>1 DEF KeyLinked, Stored
  <2> QED  BY <2>3, <2>4
<1>13. Linked(s)
  BY <1>2, <1>7, <1>10, <1>11, <1>12 DEF Linked
<1>14. \A j \in 1 .. Len(s.recs) : j # i => Expected(s, j)
  <2>1. \A j \in 1 .. Len(s.recs) : j # i => j \in 1 .. Len(records)
    BY <1>2, <1>7
  <2>2. \A j \in 1 .. Len(records) : Expected(s, j)
    BY <1>2, <1>7, <1>8 DEF Expected, Stored
  <2> QED  BY <2>1, <2>2
<1>15. r.dqid = NoQid => Expected(s, i)
  BY <1>7 DEF Expected
<1>16. i \in 1 .. Len(s.recs) /\ s.recs[i] = r
  BY <1>2, <1>7
<1>17. i = Len(records) + 1
  OBVIOUS
<1> HIDE DEF i
<1>18. Settling(s, i, r)
  BY <1>1, <1>9, <1>13, <1>14, <1>15, <1>16 DEF Settling
<1>19. s.recs = Append(records, r) /\ s.byD = byDelivery /\ s.byQ[RecKey(r)] = i
  BY <1>1, <1>8 DEF s
<1> QED  BY <1>4, <1>17, <1>18, <1>19

LEMMA SettledLinks ==
  ASSUME Sound(Stored), Links, NEW r, Parsed(r), MergeSame(r) \/ AppendNew(r)
  PROVE  Links'
<1>1. PICK s, i : Settling(s, i, r) /\ SettleRow(s, i, r)
  BY MergeSameSettles, AppendNewSettles
<1>2. Linked(Stored)' /\ \A j \in DOMAIN records' : Expected(Stored, j)'
  BY <1>1, SettleRowLinked
<1> QED  BY <1>2 DEF Links

LEMMA UnchangedLinks ==
  ASSUME Links, records' = records, byQueueID' = byQueueID,
         byDelivery' = byDelivery
  PROVE  Links'
<1>1. Stored' = Stored
  BY DEF Stored
<1> HIDE DEF Stored
<1> QED  BY <1>1 DEF Links, Linked, RowLinked, KeyLinked, Expected

LEMMA ApplyRspamdVerdictLinks ==
  ASSUME Sound(Stored), Links, NEW q \in QIDs, ApplyRspamdVerdict(q)
  PROVE  Links'
<1> DEFINE i == byQueueID[<<Local, q>>]
           hit == i \in DOMAIN records /\ ~records[i].subsumed
           t == [recs |-> records', byQ |-> byQueueID', byD |-> byDelivery']
<1>1. /\ records' = IF hit
                    THEN [records EXCEPT ![i] = EnrichRecordWithRspamd(@, q)]
                    ELSE records
      /\ byQueueID' = byQueueID /\ byDelivery' = byDelivery
  BY DEF ApplyRspamdVerdict, HasRow, index
<1>2. /\ records \in Seq(Record) /\ DOMAIN records = 1 .. Len(records)
  BY StoredParts
<1>3. CASE ~hit
  <2>1. records' = records /\ byQueueID' = byQueueID /\ byDelivery' = byDelivery
    BY <1>1, <1>3
  <2> QED  BY <2>1, UnchangedLinks
<1>4. CASE hit
  <2>1. /\ t.recs = [records EXCEPT ![i] = EnrichRecordWithRspamd(@, q)]
        /\ t.byQ = byQueueID /\ t.byD = byDelivery
    BY <1>1, <1>4
  <2>2. i \in 1 .. Len(records) /\ byQueueID[<<Local, q>>] = i
    BY <1>2, <1>4
  <2>3. /\ Stored.recs = records /\ Stored.byQ = byQueueID
        /\ Stored.byD = byDelivery /\ Linked(Stored)
        /\ \A j \in DOMAIN records : Expected(Stored, j)
    BY DEF Stored, Links
  <2> HIDE DEF t, Stored, i
  <2>4. /\ Linked(t) /\ Len(t.recs) = Len(records)
        /\ \A j \in 1 .. Len(records) : Expected(Stored, j) => Expected(t, j)
    BY <2>1, <2>2, <2>3, EnrichLinked
  <2>5. Linked(t) /\ \A j \in 1 .. Len(records) : Expected(t, j)
    BY <1>2, <2>3, <2>4
  <2>6. DOMAIN records' = 1 .. Len(records)
    BY <1>1, <1>2, <1>4
  <2> QED  BY <2>5, <2>6 DEF Links, Stored, t, Linked, RowLinked, KeyLinked,
           Expected
<1> QED  BY <1>3, <1>4

LEMMA ParsedLines ==
  ASSUME NEW q \in QIDs, NEW a \in Nat,
         NEW b \in (a + 1) .. Len(Stamp[q]), NEW known \in BOOLEAN
  PROVE  Parsed(ParseLines(q, a, b, known))
<1>1. ParseLines(q, a, b, known) \in Record
  BY ParseLinesType
<1> QED  BY <1>1 DEF Parsed, ParseLines

-----------------------------------------------------------------------------
(* The theorems.  Without retention no step is a purge.                    *)

LEMMA LinksInit == Init => Links
<1> SUFFICES ASSUME Init PROVE Links
  OBVIOUS
<1>1. Len(records) = 0 /\ DOMAIN records = {}
  BY DEF Init
<1>2. \A q \in QIDs : <<Local, q>> \in Key
  BY LogAssumption DEF Key
<1> QED  BY <1>1, <1>2 DEF Init, Links, Linked, KeyLinked, Stored

\* A step in which nothing is purged.
Unpurged ==
  \/ \E q \in QIDs : FeedMail(q) \/ FeedVerdict(q)
  \/ Prune
  \/ UNCHANGED vars

LEMMA NothingIsPurged ==
  ASSUME ~Retention, [Next]_vars
  PROVE  Unpurged
BY DEF Next, Purge, Unpurged

LEMMA LinksStep ==
  ASSUME IInv, Links, Unpurged
  PROVE  Links'
<1>0. Sound(Stored)
  BY DEF IInv
<1>1. ASSUME NEW q \in QIDs, FeedMail(q) PROVE Links'
  <2>1. PICK b \in (fed[q] + 1) .. Len(Stamp[q]), known \in BOOLEAN :
          AddRecords(ParseLines(q, fed[q], b, known))
    BY <1>1 DEF FeedMail
  <2>2. fed[q] \in Nat
    BY DEF IInv, InputOK
  <2> DEFINE r == ParseLines(q, fed[q], b, known)
  <2>3. Parsed(r)
    BY <2>2, ParsedLines
  <2> HIDE DEF r
  <2>4. FoldLeg(r) \/ MergeSame(r) \/ AppendNew(r)
    BY <2>1 DEF AddRecords, r
  <2> QED  BY <1>0, <2>3, <2>4, FoldLegLinks, SettledLinks
<1>2. ASSUME NEW q \in QIDs, FeedVerdict(q) PROVE Links'
  BY <1>0, <1>2, ApplyRspamdVerdictLinks DEF FeedVerdict
<1>3. ASSUME UNCHANGED <<records, index>> PROVE Links'
  BY <1>0, <1>3, UnchangedLinks DEF index
<1>4. CASE Prune
  BY <1>3, <1>4 DEF Prune, PruneRspamdPending
<1>5. CASE UNCHANGED vars
  BY <1>3, <1>5 DEF vars
<1> QED  BY <1>1, <1>2, <1>4, <1>5 DEF Unpurged

LEMMA AlwaysLinked ==
  ASSUME ~Retention
  PROVE  Spec => [](Sound(Stored) /\ Links)
<1>1. Init => IInv /\ Links
  BY IInvInit, LinksInit
<1>2. IInv /\ Links /\ [Next]_vars => IInv' /\ Links'
  BY IInvStep, LinksStep, NothingIsPurged
<1>3. IInv /\ Links => Sound(Stored) /\ Links
  BY DEF IInv
<1> QED  BY <1>1, <1>2, <1>3, PTL DEF Spec

\* What the links mean to a reader of the rows.
LEMMA LinksShow ==
  ASSUME Sound(Stored), Links
  PROVE  NoForeignLines /\ EveryIdResolves /\ OneItemPerMessage
<1>1. NoForeignLines
  BY StoredParts DEF RowLinked, Stored, NoForeignLines
<1>2. EveryIdResolves
  BY StoredParts DEF RowLinked, Stored, EveryIdResolves, Visible
<1>3. ASSUME NEW i \in Visible, NEW j \in Visible,
             records[i].dqid # NoQid, RecKey(records[j]) = OnwardKey(records[i])
      PROVE  FALSE
  <2>1. byDelivery[RecKey(records[j])] = 0
    BY <1>3, StoredParts DEF RowLinked, Stored, Visible
  <2>2. byDelivery[OnwardKey(records[i])] # 0
    BY <1>3, StoredParts DEF Expected, Stored, Visible
  <2> QED  BY <1>3, <2>1, <2>2
<1>4. OneItemPerMessage
  BY <1>3 DEF OneItemPerMessage
<1> QED  BY <1>1, <1>2, <1>4

\* A row never shows a line of another message, however the lines of many
\* messages, their legs and their verdicts interleave.
THEOREM RowsKeepToTheirMessage ==
  ASSUME ~Retention
  PROVE  Spec => []NoForeignLines
BY AlwaysLinked, LinksShow, PTL

\* Every queue id whose lines a listed row shows leads to that row: the
\* inbound id, the outbound id and the synthetic id of a rejection alike.
THEOREM IdsResolve ==
  ASSUME ~Retention
  PROVE  Spec => []EveryIdResolves
BY AlwaysLinked, LinksShow, PTL

\* A leg is never listed beside the primary that names it, in whatever order
\* the two, and the part of the primary that names the leg, were read.
THEOREM LegsAreFolded ==
  ASSUME ~Retention
  PROVE  Spec => []OneItemPerMessage
BY AlwaysLinked, LinksShow, PTL

(***************************************************************************)
(* Part 3.  While rspamd sees no leg, a verdict is held back only while its*)
(* message is not listed.  The lines of a listed row are of its queue id or*)
(* of that id's leg, by part 2, so the queue ids of the rows decide.       *)
(***************************************************************************)

\* No row changes its queue id, and none is listed that was not.
SameIds(recs, new) ==
  /\ Len(new) = Len(recs)
  /\ \A j \in 1 .. Len(recs) : /\ new[j].qid = recs[j].qid
                               /\ recs[j].subsumed => new[j].subsumed

\* No listed row has the queue id of a verdict that is held.
NoneHeld(recs, pending) ==
  \A j \in 1 .. Len(recs) : ~recs[j].subsumed => recs[j].qid \notin pending

Held == NoneHeld(records, rspamdPending)

-----------------------------------------------------------------------------
(* The operations keep the ids.                                            *)

LEMMA RewriteKeepsIds ==
  ASSUME NEW recs \in Seq(Record), NEW i \in 1 .. Len(recs), NEW e \in Record,
         e.qid = recs[i].qid, e.subsumed = recs[i].subsumed,
         NEW new, new = [recs EXCEPT ![i] = e]
  PROVE  SameIds(recs, new)
<1>1. /\ Len(new) = Len(recs)
      /\ \A j \in 1 .. Len(recs) : new[j] = IF j = i THEN e ELSE recs[j]
  BY ExceptSeq
<1> QED  BY <1>1 DEF SameIds

LEMMA SameIdsKeepHeld ==
  ASSUME NEW recs, NEW new, NEW pending, NEW less,
         SameIds(recs, new), NoneHeld(recs, pending), less \subseteq pending
  PROVE  NoneHeld(new, less)
BY DEF SameIds, NoneHeld

LEMMA RegisterDeliveryKeepsIds ==
  ASSUME NEW s, Sound(s), Linked(s), NEW i \in 1 .. Len(s.recs),
         ~s.recs[i].subsumed, s.recs[i].dqid # NoQid,
         NEW t, t = RegisterDelivery(s, i)
  PROVE  SameIds(s.recs, t.recs)
<1> DEFINE d == OnwardKey(s.recs[i])
           o == s.byQ[d]
           m == MergeDeliveryLeg(s.recs[i], s.recs[o])
           x == [s.recs[o] EXCEPT !.subsumed = TRUE]
           one == [s.recs EXCEPT ![i] = m]
<1>1. s.recs \in Seq(Record) /\ \A j \in 1 .. Len(s.recs) : s.recs[j] \in Record
  BY Parts
<1>2. \/ /\ o \in 1 .. Len(s.recs) /\ o # i
         /\ t.recs = [s.recs EXCEPT ![i] = m, ![o] = x]
      \/ t.recs = s.recs
  <2>1. /\ d \in Key /\ d = <<Local, Leg[s.recs[i].qid]>>
        /\ Leg[s.recs[i].qid] \in QIDs /\ Leg[Leg[s.recs[i].qid]] = NoQid
        /\ t.byD = [s.byD EXCEPT ![d] = i]
        /\ \/ /\ o \in 1 .. Len(s.recs) /\ o # i /\ ~s.recs[o].subsumed
              /\ s.recs[o].qid = Leg[s.recs[i].qid]
              /\ t.byQ = [s.byQ EXCEPT ![d] = i]
              /\ t.recs = [s.recs EXCEPT ![i] = m, ![o] = x]
           \/ /\ t.recs = s.recs /\ t.byQ = s.byQ
              /\ \A j \in 1 .. Len(s.recs) :
                   RecKey(s.recs[j]) = d => s.recs[j].subsumed
    BY RegisterDeliveryEffect, SMTT(30)
  <2> HIDE DEF o, d, m, x
  <2> QED  BY <2>1
<1> HIDE DEF o, d
<1>3. CASE o \in 1 .. Len(s.recs) /\ o # i /\ t.recs = [s.recs EXCEPT ![i] = m, ![o] = x]
  <2>1. s.recs[i] \in Record /\ s.recs[o] \in Record
    BY <1>1, <1>3
  <2>2. m \in Record /\ m.qid = s.recs[i].qid
    <3>1. m \in Record
      BY <2>1, RowsAreRecords DEF Record
    <3> QED  BY <2>1, <3>1 DEF MergeDeliveryLeg, Record
  <2>3. x \in Record /\ x.qid = s.recs[o].qid /\ x.subsumed
    BY <2>1 DEF Record
  <2> HIDE DEF m, x
  <2>4. /\ one \in Seq(Record) /\ Len(one) = Len(s.recs)
        /\ \A j \in 1 .. Len(s.recs) : one[j] = IF j = i THEN m ELSE s.recs[j]
    BY <1>1, <2>2, ExceptSeq
  <2>5. t.recs = [one EXCEPT ![o] = x]
    BY <1>3
  <2> HIDE DEF one
  <2>6. /\ Len(t.recs) = Len(s.recs)
        /\ \A j \in 1 .. Len(s.recs) : t.recs[j] = IF j = o THEN x ELSE one[j]
    BY <1>3, <2>3, <2>4, <2>5, ExceptSeq
  <2> QED  BY <1>3, <2>2, <2>3, <2>4, <2>6 DEF SameIds
<1>4. CASE t.recs = s.recs
  BY <1>4 DEF SameIds
<1> QED  BY <1>2, <1>3, <1>4

\* The end of cases (2) and (3): row i is enriched if a verdict on it was held,
\* which then is held no more.
LEMMA SettleRowHeld ==
  ASSUME NEW s, NEW r, NEW i, Settling(s, i, r), SettleRow(s, i, r),
         NEW q, q = s.recs[i].qid
  PROVE  SameIds(s.recs, records') /\ rspamdPending' = rspamdPending \ {q}
<1> DEFINE t == IF r.dqid # NoQid THEN RegisterDelivery(s, i) ELSE s
           e == EnrichRecordWithRspamd(t.recs[i], q)
<1>0. /\ Sound(s) /\ Linked(s)
      /\ i \in 1 .. Len(s.recs) /\ ~s.recs[i].subsumed
      /\ r.dqid # NoQid => s.recs[i].dqid # NoQid
  BY DEF Settling
<1>1. s.recs \in Seq(Record) /\ i \in DOMAIN s.recs
  BY <1>0, Parts
<1>2. Sound(t)
  BY <1>0, <1>1, RegisterDeliverySound
<1>3. SameIds(s.recs, t.recs)
  <2>1. CASE r.dqid = NoQid
    BY <2>1 DEF SameIds
  <2>2. CASE r.dqid # NoQid
    BY <1>0, <2>2, RegisterDeliveryKeepsIds
  <2> QED  BY <2>1, <2>2
<1>4. /\ records' = IF t.recs[i].qid \in rspamdPending
                    THEN [t.recs EXCEPT ![i] = EnrichRecordWithRspamd(@, t.recs[i].qid)]
                    ELSE t.recs
      /\ rspamdPending' = rspamdPending \ {t.recs[i].qid}
  BY DEF SettleRow
<1> HIDE DEF t
<1>5. t.recs[i].qid = q /\ i \in 1 .. Len(t.recs)
  BY <1>0, <1>3 DEF SameIds
<1>6. t.recs \in Seq(Record) /\ t.recs[i] \in Record /\ q \in QIDs
  BY <1>2, <1>5, Parts
<1>7. e \in Record /\ e.qid = t.recs[i].qid /\ e.subsumed = t.recs[i].subsumed
  <2>1. e \in Record
    BY <1>6, RowsAreRecords
  <2> QED  BY <1>6, <2>1 DEF EnrichRecordWithRspamd, Record
<1>8. CASE q \in rspamdPending
  <2>1. records' = [t.recs EXCEPT ![i] = e]
    BY <1>4, <1>5, <1>8
  <2> HIDE DEF e
  <2>2. SameIds(t.recs, records')
    BY <1>5, <1>6, <1>7, <2>1, RewriteKeepsIds
  <2> QED  BY <1>3, <1>4, <1>5, <2>2 DEF SameIds
<1>9. CASE q \notin rspamdPending
  BY <1>3, <1>4, <1>5, <1>9
<1> QED  BY <1>8, <1>9

-----------------------------------------------------------------------------
(* The steps.                                                              *)

LEMMA FoldLegHeld ==
  ASSUME Sound(Stored), Links, Held, NEW r, Parsed(r), FoldLeg(r)
  PROVE  Held'
<1> DEFINE p == byDelivery[RecKey(r)]
           m == MergeDeliveryLeg(records[p], r)
<1>1. /\ p \in DOMAIN records /\ records' = [records EXCEPT ![p] = m]
      /\ UNCHANGED rspamdPending
  BY DEF FoldLeg
<1>2. /\ records \in Seq(Record) /\ p \in 1 .. Len(records) /\ records[p] \in Record
      /\ r \in Record
  BY <1>1, StoredParts DEF Parsed
<1>3. m \in Record /\ m.qid = records[p].qid /\ m.subsumed = records[p].subsumed
  <2>1. m \in Record
    BY <1>2, RowsAreRecords DEF Record
  <2> QED  BY <1>2, <2>1 DEF MergeDeliveryLeg, Record
<1> HIDE DEF m, p
<1>4. SameIds(records, records')
  BY <1>1, <1>2, <1>3, RewriteKeepsIds
<1> QED  BY <1>1, <1>4, SameIdsKeepHeld DEF Held

LEMMA MergeSameHeld ==
  ASSUME Sound(Stored), Links, Held, NEW r, Parsed(r), MergeSame(r)
  PROVE  Held'
<1>1. PICK s, i : /\ Settling(s, i, r) /\ SettleRow(s, i, r)
                  /\ i \in 1 .. Len(records) /\ ~records[i].subsumed
                  /\ s.recs = [records EXCEPT ![i] = MergeRecord(@, r)]
  BY MergeSameSettles
<1> DEFINE e == MergeRecord(records[i], r)
<1>2. records \in Seq(Record) /\ records[i] \in Record /\ r \in Record
  BY <1>1, StoredParts DEF Parsed
<1>3. e \in Record /\ e.qid = records[i].qid /\ e.subsumed = records[i].subsumed
  <2>1. e \in Record
    BY <1>2, RowsAreRecords DEF Record
  <2> QED  BY <1>2, <2>1 DEF MergeRecord, Record
<1>4. s.recs = [records EXCEPT ![i] = e]
  BY <1>1
<1> HIDE DEF e
<1>5. SameIds(records, s.recs)
  BY <1>1, <1>2, <1>3, <1>4, RewriteKeepsIds
<1>6. SameIds(s.recs, records') /\ rspamdPending' \subseteq rspamdPending
  BY <1>1, SettleRowHeld
<1>7. SameIds(records, records')
  BY <1>5, <1>6 DEF SameIds
<1> QED  BY <1>6, <1>7, SameIdsKeepHeld DEF Held

\* The new row takes the verdict that was held for it.
LEMMA AppendNewHeld ==
  ASSUME Sound(Stored), Links, Held, NEW r, Parsed(r), AppendNew(r)
  PROVE  Held'
<1>1. PICK s, i : /\ Settling(s, i, r) /\ SettleRow(s, i, r)
                  /\ s.recs = Append(records, r) /\ i = Len(records) + 1
  BY AppendNewSettles
<1>2. records \in Seq(Record) /\ r \in Record /\ Len(records) \in Nat
  BY StoredParts DEF Parsed
<1>3. /\ Len(s.recs) = Len(records) + 1 /\ s.recs[Len(records) + 1] = r
      /\ \A j \in 1 .. Len(records) : s.recs[j] = records[j]
  BY <1>1, <1>2, AppendProperties
<1>4. SameIds(s.recs, records') /\ rspamdPending' = rspamdPending \ {r.qid}
  BY <1>1, <1>3, SettleRowHeld
<1>5. NoneHeld(s.recs, rspamdPending \ {r.qid})
  BY <1>2, <1>3 DEF Held, NoneHeld
<1> QED  BY <1>4, <1>5, SameIdsKeepHeld DEF Held

\* A verdict is held when its queue id leads to no listed row; a listed row
\* of that id would be the one it leads to.
LEMMA ApplyRspamdVerdictHeld ==
  ASSUME Sound(Stored), Links, Held, NEW q \in QIDs, ApplyRspamdVerdict(q)
  PROVE  Held'
<1> DEFINE i == byQueueID[<<Local, q>>]
           e == EnrichRecordWithRspamd(records[i], q)
<1>1. records \in Seq(Record) /\ DOMAIN records = 1 .. Len(records)
  BY StoredParts
<1>2. CASE HasRow(q)
  <2>1. /\ i \in 1 .. Len(records) /\ records' = [records EXCEPT ![i] = e]
        /\ UNCHANGED rspamdPending
    BY <1>1, <1>2 DEF ApplyRspamdVerdict, HasRow
  <2> HIDE DEF i
  <2>2. records[i] \in Record
    BY <2>1, StoredParts
  <2>3. e \in Record /\ e.qid = records[i].qid /\ e.subsumed = records[i].subsumed
    <3>1. e \in Record
      BY <2>2, RowsAreRecords
    <3> QED  BY <2>2, <3>1 DEF EnrichRecordWithRspamd, Record
  <2> HIDE DEF e
  <2>4. SameIds(records, records')
    BY <1>1, <2>1, <2>3, RewriteKeepsIds
  <2> QED  BY <2>1, <2>4, SameIdsKeepHeld DEF Held
<1>3. CASE ~HasRow(q)
  <2>1. records' = records /\ rspamdPending' = rspamdPending \cup {q}
    BY <1>3 DEF ApplyRspamdVerdict
  <2>2. ASSUME NEW j \in 1 .. Len(records), ~records[j].subsumed, records[j].qid = q
        PROVE  FALSE
    <3>1. byQueueID[<<Local, q>>] = j
      BY <2>2, StoredParts DEF RowLinked, Stored
    <3> QED  BY <1>1, <1>3, <2>2, <3>1 DEF HasRow
  <2> QED  BY <2>1, <2>2 DEF Held, NoneHeld
<1> QED  BY <1>2, <1>3

LEMMA HeldStep ==
  ASSUME IInv, Links, Held, Unpurged
  PROVE  Held'
<1>0. Sound(Stored) /\ fed \in [QIDs -> Nat]
  BY DEF IInv, InputOK
<1>1. ASSUME NEW q \in QIDs, FeedMail(q) PROVE Held'
  <2>1. PICK b \in (fed[q] + 1) .. Len(Stamp[q]), known \in BOOLEAN :
          AddRecords(ParseLines(q, fed[q], b, known))
    BY <1>1 DEF FeedMail
  <2> DEFINE r == ParseLines(q, fed[q], b, known)
  <2>2. Parsed(r)
    BY <1>0, ParsedLines
  <2>3. FoldLeg(r) \/ MergeSame(r) \/ AppendNew(r)
    BY <2>1 DEF AddRecords
  <2> HIDE DEF r
  <2> QED  BY <1>0, <2>2, <2>3, FoldLegHeld, MergeSameHeld, AppendNewHeld
<1>2. ASSUME NEW q \in QIDs, FeedVerdict(q) PROVE Held'
  BY <1>0, <1>2, ApplyRspamdVerdictHeld DEF FeedVerdict
<1>3. CASE Prune
  BY <1>3 DEF Prune, PruneRspamdPending, Held, NoneHeld
<1>4. CASE UNCHANGED vars
  BY <1>4 DEF vars, Held, NoneHeld
<1> QED  BY <1>1, <1>2, <1>3, <1>4 DEF Unpurged

-----------------------------------------------------------------------------

LEMMA HeldInvIsHeld ==
  ASSUME \A q \in QIDs : Leg[q] \notin Scored, IInv, Links, Held
  PROVE  HeldOnlyUntilSeen
<1> SUFFICES ASSUME NEW q \in rspamdPending, NEW i \in Visible,
                    NEW l \in records[i].lines, l.q = q
             PROVE  FALSE
  BY DEF HeldOnlyUntilSeen
<1>1. /\ i \in 1 .. Len(records) /\ ~records[i].subsumed
      /\ records[i].qid \in QIDs
      /\ RowLinked(Stored, i)
  BY StoredParts DEF Visible, IInv
<1>2. l.q \in {records[i].qid, Leg[records[i].qid]}
  BY <1>1 DEF RowLinked, Stored
<1>3. q \in Scored
  BY DEF IInv, InputOK
<1> QED  BY <1>1, <1>2, <1>3 DEF Held, NoneHeld

\* A verdict that was held is applied when its message arrives, in whatever
\* order the rspamd log, the parts of messages and their legs are read: none
\* stays behind while a listed row shows lines of its queue id.  A verdict on
\* a leg would: case (1) of AddRecords asks for none.
THEOREM VerdictsAreNotLeftBehind ==
  ASSUME ~Retention, \A q \in QIDs : Leg[q] \notin Scored
  PROVE  Spec => []HeldOnlyUntilSeen
<1>1. Init => IInv /\ Links /\ Held
  <2>1. Init => Held
    BY DEF Init, Held, NoneHeld
  <2> QED  BY <2>1, IInvInit, LinksInit
<1>2. IInv /\ Links /\ Held /\ [Next]_vars => IInv' /\ Links' /\ Held'
  BY IInvStep, LinksStep, HeldStep, NothingIsPurged
<1>3. IInv /\ Links /\ Held => HeldOnlyUntilSeen
  BY HeldInvIsHeld
<1> QED  BY <1>1, <1>2, <1>3, PTL DEF Spec

(***************************************************************************)
(* Part 4.  Each line that was handed to the store is shown in exactly one *)
(* listed row.  "At most one" follows from the links of part 2: an id leads*)
(* to one row.  "At least one" is proved here: no operation takes a line   *)
(* off the listed rows, and AddRecords puts the new ones there.            *)
(***************************************************************************)

\* The lines the listed rows show.
ShownIn(recs) ==
  {l \in Line : \E j \in 1 .. Len(recs) : ~recs[j].subsumed /\ l \in recs[j].lines}

\* What was handed over is shown.
AllShown == \A q \in QIDs : \A n \in 1 .. fed[q] : [q |-> q, n |-> n] \in ShownIn(records)

-----------------------------------------------------------------------------
(* The operations take no line away.                                       *)

\* A row may be rewritten with more lines.
LEMMA RewriteShown ==
  ASSUME NEW recs \in Seq(Record), NEW i \in 1 .. Len(recs), NEW e \in Record,
         ~e.subsumed, recs[i].lines \subseteq e.lines,
         NEW new, new = [recs EXCEPT ![i] = e]
  PROVE  ShownIn(recs) \cup e.lines \subseteq ShownIn(new)
<1>1. /\ Len(new) = Len(recs)
      /\ \A j \in 1 .. Len(recs) : new[j] = IF j = i THEN e ELSE recs[j]
  BY ExceptSeq
<1>2. e.lines \subseteq Line
  BY DEF Record
<1>3. ASSUME NEW l \in e.lines PROVE l \in ShownIn(new)
  BY <1>1, <1>2 DEF ShownIn
<1>4. ASSUME NEW l \in ShownIn(recs) PROVE l \in ShownIn(new)
  <2>1. PICK j \in 1 .. Len(recs) : ~recs[j].subsumed /\ l \in recs[j].lines
    BY DEF ShownIn
  <2>2. CASE j = i
    BY <1>3, <2>1, <2>2
  <2>3. CASE j # i
    BY <1>1, <2>1, <2>3 DEF ShownIn
  <2> QED  BY <2>2, <2>3
<1> QED  BY <1>3, <1>4

\* Folding a leg moves its lines to the primary.
LEMMA RegisterDeliveryShown ==
  ASSUME NEW s, Sound(s), Linked(s), NEW i \in 1 .. Len(s.recs),
         ~s.recs[i].subsumed, s.recs[i].dqid # NoQid,
         NEW t, t = RegisterDelivery(s, i)
  PROVE  ShownIn(s.recs) \subseteq ShownIn(t.recs)
<1> DEFINE d == OnwardKey(s.recs[i])
           o == s.byQ[d]
           m == MergeDeliveryLeg(s.recs[i], s.recs[o])
           x == [s.recs[o] EXCEPT !.subsumed = TRUE]
           one == [s.recs EXCEPT ![i] = m]
<1>1. s.recs \in Seq(Record) /\ \A j \in 1 .. Len(s.recs) : s.recs[j] \in Record
  BY Parts
<1>2. \/ /\ o \in 1 .. Len(s.recs) /\ o # i
         /\ t.recs = [s.recs EXCEPT ![i] = m, ![o] = x]
      \/ t.recs = s.recs
  <2>1. /\ d \in Key /\ d = <<Local, Leg[s.recs[i].qid]>>
        /\ Leg[s.recs[i].qid] \in QIDs /\ Leg[Leg[s.recs[i].qid]] = NoQid
        /\ t.byD = [s.byD EXCEPT ![d] = i]
        /\ \/ /\ o \in 1 .. Len(s.recs) /\ o # i /\ ~s.recs[o].subsumed
              /\ s.recs[o].qid = Leg[s.recs[i].qid]
              /\ t.byQ = [s.byQ EXCEPT ![d] = i]
              /\ t.recs = [s.recs EXCEPT ![i] = m, ![o] = x]
           \/ /\ t.recs = s.recs /\ t.byQ = s.byQ
              /\ \A j \in 1 .. Len(s.recs) :
                   RecKey(s.recs[j]) = d => s.recs[j].subsumed
    BY RegisterDeliveryEffect, SMTT(30)
  <2> HIDE DEF o, d, m, x
  <2> QED  BY <2>1
<1> HIDE DEF o, d
<1>3. CASE o \in 1 .. Len(s.recs) /\ o # i /\ t.recs = [s.recs EXCEPT ![i] = m, ![o] = x]
  <2>1. /\ m \in Record /\ ~m.subsumed /\ x \in Record
        /\ m.lines = s.recs[i].lines \cup s.recs[o].lines
    <3>1. s.recs[i] \in Record /\ s.recs[o] \in Record
      BY <1>1, <1>3
    <3>2. s.recs[o].qid \in QIDs
      BY <3>1 DEF Record
    <3>3. m \in Record /\ x \in Record
      BY <3>1, <3>2, RowsAreRecords DEF Record
    <3> QED  BY <3>1, <3>3 DEF MergeDeliveryLeg, Record
  <2> HIDE DEF m, x
  <2>2. /\ one \in Seq(Record) /\ Len(one) = Len(s.recs)
        /\ \A j \in 1 .. Len(s.recs) : one[j] = IF j = i THEN m ELSE s.recs[j]
    BY <1>1, <2>1, ExceptSeq
  <2>3. t.recs = [one EXCEPT ![o] = x]
    BY <1>3
  <2> HIDE DEF one
  <2>4. /\ Len(t.recs) = Len(s.recs)
        /\ \A j \in 1 .. Len(s.recs) : t.recs[j] = IF j = o THEN x ELSE one[j]
    BY <1>3, <2>1, <2>2, <2>3, ExceptSeq
  <2>5. t.recs[i] = m
    BY <1>3, <2>2, <2>4
  <2>6. ASSUME NEW l \in ShownIn(s.recs) PROVE l \in ShownIn(t.recs)
    <3>1. PICK j \in 1 .. Len(s.recs) : ~s.recs[j].subsumed /\ l \in s.recs[j].lines
      BY DEF ShownIn
    <3>2. l \in Line
      BY DEF ShownIn
    <3>3. CASE j \in {i, o}
      <4>1. l \in m.lines
        BY <2>1, <3>1, <3>3
      <4> QED  BY <2>1, <2>4, <2>5, <3>2, <4>1 DEF ShownIn
    <3>4. CASE j \notin {i, o}
      BY <2>2, <2>4, <3>1, <3>2, <3>4 DEF ShownIn
    <3> QED  BY <3>3, <3>4
  <2> QED  BY <2>6
<1>4. CASE t.recs = s.recs
  BY <1>4
<1> QED  BY <1>2, <1>3, <1>4

\* The end of cases (2) and (3) loses nothing of the listed row i or another.
LEMMA SettleRowShown ==
  ASSUME NEW s, NEW r, NEW i, Settling(s, i, r), SettleRow(s, i, r)
  PROVE  ShownIn(s.recs) \subseteq ShownIn(records')
<1> DEFINE t == IF r.dqid # NoQid THEN RegisterDelivery(s, i) ELSE s
           q == t.recs[i].qid
           e == EnrichRecordWithRspamd(t.recs[i], q)
<1>0. /\ Sound(s) /\ Linked(s)
      /\ i \in 1 .. Len(s.recs) /\ ~s.recs[i].subsumed
      /\ r.dqid # NoQid => s.recs[i].dqid # NoQid
  BY DEF Settling
<1>1. s.recs \in Seq(Record) /\ i \in DOMAIN s.recs
  BY <1>0, Parts
<1>2. Sound(t) /\ Len(t.recs) = Len(s.recs) /\ ~t.recs[i].subsumed
  <2>1. CASE r.dqid = NoQid
    BY <1>0, <2>1
  <2>2. CASE r.dqid # NoQid
    BY <1>0, <1>1, <2>2, RegisterDeliverySound, RegisterDeliveryLinked
  <2> QED  BY <2>1, <2>2
<1>3. ShownIn(s.recs) \subseteq ShownIn(t.recs)
  BY <1>0, RegisterDeliveryShown
<1>4. records' = IF q \in rspamdPending
                 THEN [t.recs EXCEPT ![i] = EnrichRecordWithRspamd(@, q)]
                 ELSE t.recs
  BY DEF SettleRow
<1> HIDE DEF t
<1>5. t.recs \in Seq(Record) /\ t.recs[i] \in Record /\ q \in QIDs /\ i \in 1 .. Len(t.recs)
  BY <1>0, <1>2, Parts
<1>6. e \in Record /\ ~e.subsumed /\ t.recs[i].lines \subseteq e.lines
  BY <1>2, <1>5, RowsAreRecords DEF EnrichRecordWithRspamd, Record
<1>7. CASE q \in rspamdPending
  <2>1. records' = [t.recs EXCEPT ![i] = e]
    BY <1>4, <1>7
  <2> HIDE DEF e
  <2>2. ShownIn(t.recs) \subseteq ShownIn(records')
    BY <1>5, <1>6, <2>1, RewriteShown
  <2> QED  BY <1>3, <2>2
<1>8. CASE q \notin rspamdPending
  BY <1>3, <1>4, <1>8
<1> QED  BY <1>7, <1>8

LEMMA FoldLegShown ==
  ASSUME Sound(Stored), Links, NEW r, Parsed(r), FoldLeg(r)
  PROVE  ShownIn(records) \cup r.lines \subseteq ShownIn(records')
<1> DEFINE p == byDelivery[RecKey(r)]
           m == MergeDeliveryLeg(records[p], r)
<1>1. /\ r \in Record /\ r.qid \in QIDs /\ RecKey(r) = <<Local, r.qid>>
  BY DEF Parsed, Record, RecKey
<1>2. /\ p \in DOMAIN records /\ records' = [records EXCEPT ![p] = m]
  BY DEF FoldLeg
<1>3. /\ records \in Seq(Record) /\ p \in 1 .. Len(records) /\ records[p] \in Record
      /\ KeyLinked(Stored, r.qid) /\ RowLinked(Stored, p)
      /\ records[p].qid \in QIDs
  BY <1>1, <1>2, StoredParts
<1>4. ~records[p].subsumed
  <2>1. r.qid = Leg[records[p].qid]
    BY <1>1, <1>3, LegAssumption DEF KeyLinked, RowLinked, Stored
  <2>2. records[p].subsumed => Leg[records[p].qid] = NoQid
    BY <1>3 DEF RowLinked, Stored
  <2> QED  BY <1>1, <2>1, <2>2, LegAssumption
<1>5. m \in Record /\ ~m.subsumed /\ m.lines = records[p].lines \cup r.lines
  BY <1>1, <1>3, <1>4, RowsAreRecords DEF MergeDeliveryLeg, Record
<1> HIDE DEF m, p
<1> QED  BY <1>2, <1>3, <1>5, RewriteShown

LEMMA MergeSameShown ==
  ASSUME Sound(Stored), Links, NEW r, Parsed(r), MergeSame(r)
  PROVE  ShownIn(records) \cup r.lines \subseteq ShownIn(records')
<1>1. PICK s, i : /\ Settling(s, i, r) /\ SettleRow(s, i, r)
                  /\ i \in 1 .. Len(records) /\ ~records[i].subsumed
                  /\ s.recs = [records EXCEPT ![i] = MergeRecord(@, r)]
  BY MergeSameSettles
<1> DEFINE e == MergeRecord(records[i], r)
<1>2. records \in Seq(Record) /\ records[i] \in Record /\ r \in Record
  BY <1>1, StoredParts DEF Parsed
<1>3. e \in Record /\ ~e.subsumed /\ e.lines = records[i].lines \cup r.lines
  BY <1>1, <1>2, RowsAreRecords DEF MergeRecord, Record
<1>4. s.recs = [records EXCEPT ![i] = e]
  BY <1>1
<1> HIDE DEF e
<1>5. ShownIn(records) \cup r.lines \subseteq ShownIn(s.recs)
  BY <1>1, <1>2, <1>3, <1>4, RewriteShown
<1>6. ShownIn(s.recs) \subseteq ShownIn(records')
  BY <1>1, SettleRowShown
<1> QED  BY <1>5, <1>6

LEMMA AppendNewShown ==
  ASSUME Sound(Stored), Links, NEW r, Parsed(r), AppendNew(r)
  PROVE  ShownIn(records) \cup r.lines \subseteq ShownIn(records')
<1>1. PICK s, i : /\ Settling(s, i, r) /\ SettleRow(s, i, r)
                  /\ s.recs = Append(records, r)
  BY AppendNewSettles
<1>2. records \in Seq(Record) /\ r \in Record /\ ~r.subsumed /\ r.lines \subseteq Line
  BY StoredParts DEF Parsed, Record
<1>3. /\ Len(s.recs) = Len(records) + 1 /\ s.recs[Len(records) + 1] = r
      /\ \A j \in 1 .. Len(records) : s.recs[j] = records[j]
      /\ Len(records) \in Nat
  BY <1>1, <1>2, AppendProperties
<1>4. ShownIn(records) \cup r.lines \subseteq ShownIn(s.recs)
  <2>1. ASSUME NEW l \in ShownIn(records) PROVE l \in ShownIn(s.recs)
    BY <1>3, <2>1 DEF ShownIn
  <2>2. ASSUME NEW l \in r.lines PROVE l \in ShownIn(s.recs)
    BY <1>2, <1>3, <2>2 DEF ShownIn
  <2> QED  BY <2>1, <2>2
<1>5. ShownIn(s.recs) \subseteq ShownIn(records')
  BY <1>1, SettleRowShown
<1> QED  BY <1>4, <1>5

LEMMA ApplyRspamdVerdictShown ==
  ASSUME Sound(Stored), Links, NEW q \in QIDs, ApplyRspamdVerdict(q)
  PROVE  ShownIn(records) \subseteq ShownIn(records')
<1> DEFINE i == byQueueID[<<Local, q>>]
           e == EnrichRecordWithRspamd(records[i], q)
<1>1. records \in Seq(Record) /\ DOMAIN records = 1 .. Len(records)
  BY StoredParts
<1>2. CASE HasRow(q)
  <2>1. /\ i \in 1 .. Len(records) /\ ~records[i].subsumed
        /\ records' = [records EXCEPT ![i] = e]
    BY <1>1, <1>2 DEF ApplyRspamdVerdict, HasRow
  <2> HIDE DEF i
  <2>2. records[i] \in Record
    BY <2>1, StoredParts
  <2>3. e \in Record /\ ~e.subsumed /\ records[i].lines \subseteq e.lines
    BY <2>1, <2>2, RowsAreRecords DEF EnrichRecordWithRspamd, Record
  <2> HIDE DEF e
  <2> QED  BY <1>1, <2>1, <2>3, RewriteShown
<1>3. CASE ~HasRow(q)
  BY <1>3 DEF ApplyRspamdVerdict
<1> QED  BY <1>2, <1>3

-----------------------------------------------------------------------------
(* The theorem.                                                            *)

LEMMA AllShownStep ==
  ASSUME IInv, Links, AllShown, Unpurged
  PROVE  AllShown'
<1>0. Sound(Stored) /\ fed \in [QIDs -> Nat]
  BY DEF IInv, InputOK
<1>1. ASSUME NEW q \in QIDs, FeedMail(q) PROVE AllShown'
  <2>1. PICK b \in (fed[q] + 1) .. Len(Stamp[q]), known \in BOOLEAN :
          /\ AddRecords(ParseLines(q, fed[q], b, known))
          /\ fed' = [fed EXCEPT ![q] = b]
    BY <1>1 DEF FeedMail
  <2> DEFINE r == ParseLines(q, fed[q], b, known)
  <2>2. Parsed(r)
    BY <1>0, ParsedLines
  <2>3. r.lines = {[q |-> q, n |-> n] : n \in (fed[q] + 1) .. b}
    BY DEF ParseLines
  <2>4. FoldLeg(r) \/ MergeSame(r) \/ AppendNew(r)
    BY <2>1 DEF AddRecords
  <2> HIDE DEF r
  <2>5. ShownIn(records) \cup r.lines \subseteq ShownIn(records')
    BY <1>0, <2>2, <2>4, FoldLegShown, MergeSameShown, AppendNewShown
  <2>6. ASSUME NEW p \in QIDs, NEW n \in 1 .. fed'[p]
        PROVE  [q |-> p, n |-> n] \in ShownIn(records')
    <3>1. CASE n \in 1 .. fed[p]
      BY <2>5, <3>1 DEF AllShown
    <3>2. CASE n \notin 1 .. fed[p]
      <4>1. p = q /\ fed'[q] = b /\ b \in Int /\ fed[q] \in Nat
        BY <1>0, <2>1, <2>6, <3>2
      <4>2. n \in (fed[q] + 1) .. b
        BY <2>6, <3>2, <4>1
      <4> QED  BY <2>3, <2>5, <4>1, <4>2
    <3> QED  BY <3>1, <3>2
  <2> QED  BY <2>6 DEF AllShown
<1>2. ASSUME NEW q \in QIDs, FeedVerdict(q) PROVE AllShown'
  BY <1>0, <1>2, ApplyRspamdVerdictShown DEF FeedVerdict, AllShown
<1>3. ASSUME UNCHANGED <<records, fed>> PROVE AllShown'
  BY <1>3 DEF AllShown, ShownIn
<1>4. CASE Prune
  BY <1>3, <1>4 DEF Prune, PruneRspamdPending, input
<1>5. CASE UNCHANGED vars
  BY <1>3, <1>5 DEF vars, input
<1> QED  BY <1>1, <1>2, <1>4, <1>5 DEF Unpurged

\* A line in a listed row is in no other one: its queue id leads to one row.
LEMMA ShownInOne ==
  ASSUME Sound(Stored), Links, AllShown
  PROVE  ShownOnce
<1> SUFFICES ASSUME NEW q \in QIDs, NEW n \in 1 .. fed[q]
             PROVE  Cardinality({i \in Visible : [q |-> q, n |-> n] \in records[i].lines}) = 1
  BY DEF ShownOnce
<1> DEFINE l == [q |-> q, n |-> n]
           rows == {i \in Visible : l \in records[i].lines}
<1>1. Visible = {i \in 1 .. Len(records) : ~records[i].subsumed}
  BY StoredParts DEF Visible
<1>2. PICK i \in rows : TRUE
  <2>1. l \in ShownIn(records)
    BY DEF AllShown
  <2> QED  BY <1>1, <2>1 DEF ShownIn
<1>3. ASSUME NEW j \in rows PROVE j = byQueueID[<<Local, q>>]
  <2>1. RowLinked(Stored, j) /\ ~records[j].subsumed /\ l \in records[j].lines
    BY <1>1, <1>3, StoredParts
  <2>2. l.q = q
    OBVIOUS
  <2> HIDE DEF l
  <2> QED  BY <2>1, <2>2 DEF RowLinked, Stored
<1> HIDE DEF l, rows
<1>4. rows = {i}
  BY <1>2, <1>3
<1>5. Cardinality(rows) = 1
  BY <1>4, FS_Singleton
<1> QED  BY <1>5 DEF rows, l

\* Each line that was read is shown in exactly one listed row: it is neither
\* lost by a merge, a fold or a verdict nor shown twice, whatever the order in
\* which the parts of the messages and of their legs reach the store.
THEOREM EachLineShownOnce ==
  ASSUME ~Retention
  PROVE  Spec => []ShownOnce
<1>1. Init => IInv /\ Links /\ AllShown
  <2>1. Init => AllShown
    BY DEF Init, AllShown
  <2> QED  BY <2>1, IInvInit, LinksInit
<1>2. IInv /\ Links /\ AllShown /\ [Next]_vars => IInv' /\ Links' /\ AllShown'
  BY IInvStep, LinksStep, AllShownStep, NothingIsPurged
<1>3. IInv /\ Links /\ AllShown => ShownOnce
  BY ShownInOne DEF IInv
<1> QED  BY <1>1, <1>2, <1>3, PTL DEF Spec

(***************************************************************************)
(* Part 5.  With retention: what a purge takes and what it leaves behind.  *)
(* The links of part 2 do not survive a purge - byDelivery is not rebuilt -*)
(* so nothing here rests on them.                                          *)
(***************************************************************************)

\* Rows stay, under their keys; what a listed row shows stays listed.
Grows(recs, new) ==
  /\ Len(recs) <= Len(new)
  /\ \A j \in 1 .. Len(recs) : /\ RecKey(new[j]) = RecKey(recs[j])
                               /\ recs[j].subsumed => new[j].subsumed
  /\ \A j \in 1 .. Len(recs) : ~recs[j].subsumed =>
       \E k \in 1 .. Len(new) : ~new[k].subsumed /\ recs[j].lines \subseteq new[k].lines

\* A listed row is the last of its key, and its key leads to it, unless
\* parts of that key are taken for a leg.
Owned(recs, byQ, byD) ==
  \A i \in 1 .. Len(recs) : ~recs[i].subsumed =>
    /\ \A j \in 1 .. Len(recs) : RecKey(recs[j]) = RecKey(recs[i]) => j <= i
    /\ byQ[RecKey(recs[i])] = i \/ byD[RecKey(recs[i])] \in 1 .. Len(recs)

AllOwned == Owned(records, byQueueID, byDelivery)

-----------------------------------------------------------------------------
(* Operations let the rows grow.                                           *)

LEMMA GrowsTransitive ==
  ASSUME NEW a, NEW b, NEW c, Grows(a, b), Grows(b, c),
         Len(a) \in Nat, Len(b) \in Nat, Len(c) \in Nat
  PROVE  Grows(a, c)
<1>1. Len(a) <= Len(b) /\ Len(b) <= Len(c)
  BY DEF Grows
<1>2. Len(a) <= Len(c) /\ \A j \in 1 .. Len(a) : j \in 1 .. Len(b)
  BY <1>1
<1>3. ASSUME NEW j \in 1 .. Len(a), ~a[j].subsumed
      PROVE  \E k \in 1 .. Len(c) : ~c[k].subsumed /\ a[j].lines \subseteq c[k].lines
  <2>1. PICK k \in 1 .. Len(b) : ~b[k].subsumed /\ a[j].lines \subseteq b[k].lines
    BY <1>3 DEF Grows
  <2>2. PICK m \in 1 .. Len(c) : ~c[m].subsumed /\ b[k].lines \subseteq c[m].lines
    BY <2>1 DEF Grows
  <2> QED  BY <2>1, <2>2
<1>4. ASSUME NEW j \in 1 .. Len(a)
      PROVE  RecKey(c[j]) = RecKey(a[j]) /\ (a[j].subsumed => c[j].subsumed)
  BY <1>2 DEF Grows
<1> QED  BY <1>2, <1>3, <1>4 DEF Grows

LEMMA RewriteGrows ==
  ASSUME NEW recs \in Seq(Record), NEW i \in 1 .. Len(recs), NEW e \in Record,
         RecKey(e) = RecKey(recs[i]), e.subsumed = recs[i].subsumed,
         recs[i].lines \subseteq e.lines,
         NEW new, new = [recs EXCEPT ![i] = e]
  PROVE  Grows(recs, new) /\ Len(new) = Len(recs)
<1>1. /\ Len(new) = Len(recs) /\ Len(recs) \in Nat
      /\ \A j \in 1 .. Len(recs) : new[j] = IF j = i THEN e ELSE recs[j]
  BY ExceptSeq
<1>2. \A j \in 1 .. Len(recs) : /\ RecKey(new[j]) = RecKey(recs[j])
                                /\ new[j].subsumed = recs[j].subsumed
                                /\ recs[j].lines \subseteq new[j].lines
  BY <1>1
<1> QED  BY <1>1, <1>2 DEF Grows

\* A leg is folded into a listed row, if at all.
LEMMA RegisterDeliveryGrows ==
  ASSUME NEW s, Sound(s), NEW i \in 1 .. Len(s.recs),
         ~s.recs[i].subsumed, s.recs[i].dqid # NoQid,
         NEW t, t = RegisterDelivery(s, i)
  PROVE  /\ Grows(s.recs, t.recs) /\ Len(t.recs) = Len(s.recs)
         /\ ~t.recs[i].subsumed
         /\ \A k \in Key : \/ t.byQ[k] = s.byQ[k] /\ t.byD[k] = s.byD[k]
                           \/ t.byD[k] = i
<1> DEFINE d == OnwardKey(s.recs[i])
           o == s.byQ[d]
           m == MergeDeliveryLeg(s.recs[i], s.recs[o])
           x == [s.recs[o] EXCEPT !.subsumed = TRUE]
           one == [s.recs EXCEPT ![i] = m]
<1>1. /\ s = [recs |-> s.recs, byQ |-> s.byQ, byD |-> s.byD]
      /\ s.recs \in Seq(Record) /\ Len(s.recs) \in Nat
      /\ s.byQ \in [Key -> Nat] /\ s.byD \in [Key -> Nat]
      /\ \A k \in Key : s.byQ[k] \in 0 .. Len(s.recs)
      /\ \A j \in 1 .. Len(s.recs) : s.recs[j] \in Record
  BY Parts
<1>2. d \in Key
  BY <1>1, RowsAreRecords, LegAssumption DEF Record
<1>3. CASE o # 0 /\ o # i /\ ~s.recs[o].subsumed
  <2> DEFINE rows == [s.recs EXCEPT ![i] = m, ![o] = x]
             byQ == [s.byQ EXCEPT ![d] = i]
             byD == [s.byD EXCEPT ![d] = i]
  <2>1. t = [recs |-> rows, byQ |-> byQ, byD |-> byD]
    BY <1>1, <1>3 DEF RegisterDelivery
  <2>2. o \in 1 .. Len(s.recs)
    <3>1. o \in 0 .. Len(s.recs)
      BY <1>1, <1>2
    <3> QED  BY <1>1, <1>3, <3>1
  <2>3. \A k \in Key : (byQ[k] = s.byQ[k] /\ byD[k] = s.byD[k]) \/ byD[k] = i
    BY <1>1
  <2>4. rows = [one EXCEPT ![o] = x]
    OBVIOUS
  <2>5. /\ m \in Record /\ m.subsumed = s.recs[i].subsumed /\ RecKey(m) = RecKey(s.recs[i])
        /\ m.lines = s.recs[i].lines \cup s.recs[o].lines
    <3>1. s.recs[i] \in Record /\ s.recs[o] \in Record
      BY <1>1, <2>2
    <3> HIDE DEF o
    <3>2. s.recs[o].qid \in QIDs
      BY <3>1 DEF Record
    <3>3. m \in Record
      BY <3>1, <3>2, RowsAreRecords DEF Record
    <3> QED  BY <3>1, <3>3 DEF MergeDeliveryLeg, Record, RecKey
  <2>6. x \in Record /\ x.subsumed /\ RecKey(x) = RecKey(s.recs[o])
    <3>1. s.recs[o] \in Record
      BY <1>1, <2>2
    <3> HIDE DEF o
    <3> QED  BY <3>1 DEF Record, RecKey
  <2>7. t.recs = rows /\ t.byQ = byQ /\ t.byD = byD
    <3> HIDE DEF rows, byQ, byD
    <3> QED  BY <2>1
  <2> HIDE DEF o, d, m, x, rows, byQ, byD
  <2>8. /\ one \in Seq(Record) /\ Len(one) = Len(s.recs)
        /\ \A j \in 1 .. Len(s.recs) : one[j] = IF j = i THEN m ELSE s.recs[j]
    BY <1>1, <2>5, ExceptSeq
  <2> HIDE DEF one
  <2>9. /\ Len(t.recs) = Len(s.recs)
        /\ \A j \in 1 .. Len(s.recs) : t.recs[j] = IF j = o THEN x ELSE one[j]
    BY <2>2, <2>4, <2>6, <2>7, <2>8, ExceptSeq
  <2>10. t.recs[i] = m /\ ~m.subsumed
    BY <1>3, <2>5, <2>8, <2>9
  <2>11. ASSUME NEW j \in 1 .. Len(s.recs)
         PROVE  /\ RecKey(t.recs[j]) = RecKey(s.recs[j])
                /\ s.recs[j].subsumed => t.recs[j].subsumed
                /\ ~s.recs[j].subsumed =>
                     \E k \in 1 .. Len(t.recs) : ~t.recs[k].subsumed /\ s.recs[j].lines \subseteq t.recs[k].lines
    <3>1. CASE j = i
      BY <2>5, <2>9, <2>10, <3>1
    <3>2. CASE j = o
      <4>1. s.recs[j].lines \subseteq t.recs[i].lines
        BY <2>5, <2>10, <3>2
      <4> QED  BY <2>6, <2>9, <2>10, <3>2, <4>1
    <3>3. CASE j # i /\ j # o
      <4>1. t.recs[j] = s.recs[j]
        BY <2>8, <2>9, <3>3
      <4> QED  BY <2>9, <4>1
    <3> QED  BY <3>1, <3>2, <3>3
  <2>12. Grows(s.recs, t.recs)
    <3>1. Len(s.recs) <= Len(t.recs)
      BY <1>1, <2>9
    <3>2. \A j \in 1 .. Len(s.recs) : /\ RecKey(t.recs[j]) = RecKey(s.recs[j])
                                      /\ s.recs[j].subsumed => t.recs[j].subsumed
      BY <2>11, Zenon
    <3>3. \A j \in 1 .. Len(s.recs) : ~s.recs[j].subsumed =>
            \E k \in 1 .. Len(t.recs) : ~t.recs[k].subsumed /\ s.recs[j].lines \subseteq t.recs[k].lines
      BY <2>11, Zenon
    <3> QED  BY <3>1, <3>2, <3>3, Zenon DEF Grows
  <2> QED  BY <2>3, <2>7, <2>9, <2>10, <2>12
<1>4. CASE ~(o # 0 /\ o # i /\ ~s.recs[o].subsumed)
  <2>1. t = [s EXCEPT !.byD[d] = i]
    BY <1>4 DEF RegisterDelivery
  <2>2. t.recs = s.recs /\ t.byQ = s.byQ /\ t.byD = [s.byD EXCEPT ![d] = i]
    BY <1>1, <2>1
  <2> HIDE DEF d
  <2>3. Grows(s.recs, t.recs)
    BY <1>1, <2>2 DEF Grows
  <2> QED  BY <1>1, <2>2, <2>3
<1> QED  BY <1>3, <1>4

\* So is a verdict that waited for the row.
LEMMA SettleRowGrows ==
  ASSUME NEW s, Sound(s), NEW i \in 1 .. Len(s.recs), NEW r \in Record,
         ~s.recs[i].subsumed, r.dqid # NoQid => s.recs[i].dqid # NoQid, SettleRow(s, i, r)
  PROVE  /\ Grows(s.recs, records') /\ Len(records') = Len(s.recs)
         /\ \A k \in Key : \/ byQueueID'[k] = s.byQ[k] /\ byDelivery'[k] = s.byD[k]
                           \/ byDelivery'[k] = i
<1> DEFINE t == IF r.dqid # NoQid THEN RegisterDelivery(s, i) ELSE s
           q == t.recs[i].qid
           e == EnrichRecordWithRspamd(t.recs[i], q)
<1>1. s.recs \in Seq(Record) /\ i \in DOMAIN s.recs /\ Len(s.recs) \in Nat
  BY Parts
<1>2. /\ Sound(t) /\ Grows(s.recs, t.recs) /\ Len(t.recs) = Len(s.recs)
      /\ \A k \in Key : \/ t.byQ[k] = s.byQ[k] /\ t.byD[k] = s.byD[k]
                        \/ t.byD[k] = i
  <2>1. CASE r.dqid = NoQid
    BY <1>1, <2>1 DEF Grows
  <2>2. CASE r.dqid # NoQid
    BY <1>1, <2>2, RegisterDeliverySound, RegisterDeliveryGrows
  <2> QED  BY <2>1, <2>2
<1>3. /\ records' = IF q \in rspamdPending
                    THEN [t.recs EXCEPT ![i] = EnrichRecordWithRspamd(@, q)]
                    ELSE t.recs
      /\ byQueueID' = t.byQ /\ byDelivery' = t.byD
  BY DEF SettleRow
<1> HIDE DEF t
<1>4. t.recs \in Seq(Record) /\ t.recs[i] \in Record /\ q \in QIDs /\ i \in 1 .. Len(t.recs)
  BY <1>2, Parts
<1>5. /\ e \in Record /\ RecKey(e) = RecKey(t.recs[i]) /\ e.subsumed = t.recs[i].subsumed
      /\ t.recs[i].lines \subseteq e.lines
  <2>1. e \in Record
    BY <1>4, RowsAreRecords
  <2> QED  BY <1>4, <2>1 DEF EnrichRecordWithRspamd, Record, RecKey
<1>6. Grows(s.recs, records') /\ Len(records') = Len(s.recs)
  <2>1. CASE q \in rspamdPending
    <3>1. records' = [t.recs EXCEPT ![i] = e]
      BY <1>3, <2>1
    <3> HIDE DEF e
    <3>2. Grows(t.recs, records') /\ Len(records') = Len(t.recs)
      BY <1>4, <1>5, <3>1, RewriteGrows
    <3> QED  BY <1>1, <1>2, <3>2, GrowsTransitive
  <2>2. CASE q \notin rspamdPending
    BY <1>2, <1>3, <2>2
  <2> QED  BY <2>1, <2>2
<1> QED  BY <1>2, <1>3, <1>6

-----------------------------------------------------------------------------
(* Rows that only grow stay owned.                                         *)

LEMMA GrowsKeepsOwned ==
  ASSUME NEW recs \in Seq(Record), NEW new, Grows(recs, new), Len(new) = Len(recs),
         NEW byQ, NEW byD, NEW byQ2, NEW byD2, Owned(recs, byQ, byD),
         \A k \in Key : \/ byQ2[k] = byQ[k] /\ byD2[k] = byD[k]
                        \/ byD2[k] \in 1 .. Len(recs)
  PROVE  Owned(new, byQ2, byD2)
<1> SUFFICES ASSUME NEW i \in 1 .. Len(recs), ~new[i].subsumed
             PROVE  /\ \A j \in 1 .. Len(recs) : RecKey(new[j]) = RecKey(new[i]) => j <= i
                    /\ byQ2[RecKey(new[i])] = i \/ byD2[RecKey(new[i])] \in 1 .. Len(recs)
  BY DEF Owned
<1>1. \A j \in 1 .. Len(recs) : RecKey(new[j]) = RecKey(recs[j])
  BY DEF Grows
<1>2. ~recs[i].subsumed
  BY DEF Grows
<1>3. RecKey(recs[i]) \in Key
  <2>1. recs[i] \in Record
    BY ElementOfSeq
  <2> QED  BY <2>1 DEF RecKey, Key, Record
<1>4. /\ \A j \in 1 .. Len(recs) : RecKey(recs[j]) = RecKey(recs[i]) => j <= i
      /\ byQ[RecKey(recs[i])] = i \/ byD[RecKey(recs[i])] \in 1 .. Len(recs)
  BY <1>2 DEF Owned
<1> QED  BY <1>1, <1>3, <1>4

\* The settling of row i, when the rows it starts from are owned.
LEMMA SettleRowOwned ==
  ASSUME NEW s, Sound(s), NEW i \in 1 .. Len(s.recs), NEW r \in Record,
         ~s.recs[i].subsumed, r.dqid # NoQid => s.recs[i].dqid # NoQid, SettleRow(s, i, r),
         Owned(s.recs, s.byQ, s.byD)
  PROVE  Grows(s.recs, records') /\ Len(records') = Len(s.recs) /\ AllOwned'
<1>1. /\ Grows(s.recs, records') /\ Len(records') = Len(s.recs)
      /\ \A k \in Key : \/ byQueueID'[k] = s.byQ[k] /\ byDelivery'[k] = s.byD[k]
                        \/ byDelivery'[k] = i
  BY SettleRowGrows
<1>2. s.recs \in Seq(Record)
  BY Parts
<1>3. Owned(records', byQueueID', byDelivery')
  BY <1>1, <1>2, GrowsKeepsOwned
<1> QED  BY <1>1, <1>3 DEF AllOwned

-----------------------------------------------------------------------------
(* The steps.                                                              *)

LEMMA SoundParts ==
  ASSUME Sound(Stored)
  PROVE  /\ records \in Seq(Record) /\ Len(records) \in Nat
         /\ DOMAIN records = 1 .. Len(records)
         /\ byQueueID \in [Key -> Nat] /\ byDelivery \in [Key -> Nat]
         /\ \A k \in Key : byQueueID[k] \in 0 .. Len(records)
         /\ \A j \in 1 .. Len(records) : records[j] \in Record /\ RecKey(records[j]) \in Key
<1>1. /\ records \in Seq(Record)
      /\ byQueueID \in [Key -> Nat] /\ byDelivery \in [Key -> Nat]
      /\ \A k \in Key : byQueueID[k] <= Len(records)
  BY DEF Sound, Store, Stored
<1>2. Len(records) \in Nat /\ DOMAIN records = 1 .. Len(records)
  BY <1>1, LenProperties
<1>3. ASSUME NEW j \in 1 .. Len(records)
      PROVE  records[j] \in Record /\ RecKey(records[j]) \in Key
  <2>1. records[j] \in Record
    BY <1>1, ElementOfSeq
  <2> QED  BY <2>1 DEF RecKey, Key, Record
<1> QED  BY <1>1, <1>2, <1>3

LEMMA FoldLegGrows ==
  ASSUME Sound(Stored), AllOwned, NEW r \in Record, FoldLeg(r)
  PROVE  Grows(records, records') /\ AllOwned'
<1> DEFINE k == RecKey(r)
           p == byDelivery[k]
           m == MergeDeliveryLeg(records[p], r)
<1>1. /\ p \in 1 .. Len(records) /\ records' = [records EXCEPT ![p] = m]
      /\ byQueueID' = [byQueueID EXCEPT ![k] = p] /\ byDelivery' = byDelivery
  BY SoundParts DEF FoldLeg
<1>2. \A x \in Key : \/ byQueueID'[x] = byQueueID[x] /\ byDelivery'[x] = byDelivery[x]
                     \/ byDelivery'[x] \in 1 .. Len(records)
  BY <1>1, SoundParts
<1> HIDE DEF p, k
<1>3. records[p] \in Record
  BY <1>1, SoundParts
<1>4. m \in Record /\ RecKey(m) = RecKey(records[p]) /\ m.subsumed = records[p].subsumed
      /\ records[p].lines \subseteq m.lines
  <2>1. m \in Record
    BY <1>3, RowsAreRecords DEF Record
  <2> QED  BY <1>3, <2>1 DEF MergeDeliveryLeg, Record, RecKey
<1> HIDE DEF m
<1>5. Grows(records, records') /\ Len(records') = Len(records)
  BY <1>1, <1>4, SoundParts, RewriteGrows
<1>6. Owned(records', byQueueID', byDelivery')
  <2>1. Owned(records, byQueueID, byDelivery) /\ records \in Seq(Record)
    BY SoundParts DEF AllOwned
  <2> QED  BY <1>2, <1>5, <2>1, GrowsKeepsOwned
<1> QED  BY <1>5, <1>6 DEF AllOwned

LEMMA MergeSameGrows ==
  ASSUME Sound(Stored), AllOwned, NEW r \in Record, MergeSame(r)
  PROVE  Grows(records, records') /\ AllOwned'
<1> DEFINE i == byQueueID[RecKey(r)]
           e == MergeRecord(records[i], r)
           s == [recs |-> [records EXCEPT ![i] = e], byQ |-> byQueueID, byD |-> byDelivery]
<1>1. RecKey(r) \in Key
  BY DEF RecKey, Key, Record
<1>2. i \in 1 .. Len(records) /\ ~records[i].subsumed /\ records[i] \in Record
  <2>1. i # 0 /\ ~records[i].subsumed
    BY DEF MergeSame, IsKnown
  <2>2. i \in 0 .. Len(records) /\ Len(records) \in Nat
    BY <1>1, SoundParts
  <2>3. i \in 1 .. Len(records)
    BY <2>1, <2>2
  <2> QED  BY <2>1, <2>3, SoundParts
<1>3. SettleRow(s, i, r)
  BY DEF MergeSame
<1> HIDE DEF i
<1>4. /\ e \in Record /\ RecKey(e) = RecKey(records[i]) /\ e.subsumed = records[i].subsumed
      /\ records[i].lines \subseteq e.lines
      /\ r.dqid # NoQid => e.dqid # NoQid
  <2>1. e \in Record
    BY <1>2, RowsAreRecords DEF Record
  <2> QED  BY <1>2, <2>1 DEF MergeRecord, Record, RecKey
<1> HIDE DEF e
<1>5. Grows(records, s.recs) /\ Len(s.recs) = Len(records)
  <2> DEFINE rows == [records EXCEPT ![i] = e]
  <2>1. Grows(records, rows) /\ Len(rows) = Len(records)
    BY <1>2, <1>4, SoundParts, RewriteGrows
  <2>2. s.recs = rows
    OBVIOUS
  <2> QED  BY <2>1, <2>2
<1>6. /\ s.recs \in Seq(Record) /\ s.recs[i] = e
  BY <1>2, <1>4, SoundParts, ExceptSeq
<1>7. Sound(s)
  BY <1>5, <1>6, SoundParts DEF Sound, Store
<1>8. Owned(s.recs, s.byQ, s.byD)
  <2>1. Owned(records, byQueueID, byDelivery) /\ records \in Seq(Record)
    BY SoundParts DEF AllOwned
  <2>2. s.byQ = byQueueID /\ s.byD = byDelivery
    OBVIOUS
  <2> HIDE DEF s
  <2> QED  BY <1>5, <2>1, <2>2, GrowsKeepsOwned
<1> HIDE DEF s
<1>9. Grows(s.recs, records') /\ Len(records') = Len(s.recs) /\ AllOwned'
  BY <1>2, <1>3, <1>4, <1>5, <1>6, <1>7, <1>8, SettleRowOwned
<1> QED  BY <1>5, <1>9, SoundParts, GrowsTransitive

\* A new row is added only when no listed row of its key is left.
LEMMA AppendNewGrows ==
  ASSUME Sound(Stored), AllOwned, NEW r \in Record, ~r.subsumed, AppendNew(r)
  PROVE  Grows(records, records') /\ AllOwned'
<1> DEFINE n == Len(records)
           i == n + 1
           k == RecKey(r)
           byQ == [byQueueID EXCEPT ![k] = i]
           s == [recs |-> Append(records, r), byQ |-> byQ, byD |-> byDelivery]
<1>1. k \in Key /\ n \in Nat
  BY SoundParts DEF RecKey, Key, Record
<1>2. SettleRow(s, i, r) /\ ~IsLegOfKnown(r) /\ ~IsKnown(r)
  BY DEF AppendNew
<1>3. /\ s.recs \in Seq(Record) /\ Len(s.recs) = i /\ s.recs[i] = r
      /\ \A j \in 1 .. n : s.recs[j] = records[j]
  BY SoundParts, AppendProperties
<1>4. s.byQ = byQ /\ s.byD = byDelivery
  OBVIOUS
<1>5. Sound(s)
  <2>1. byQ \in [Key -> Nat]
    BY <1>1, SoundParts
  <2>2. \A x \in Key : byQ[x] <= i
    BY <1>1, SoundParts
  <2>3. s \in Store
    BY <1>3, <2>1, SoundParts DEF Store
  <2> HIDE DEF s
  <2> QED  BY <1>3, <1>4, <2>2, <2>3 DEF Sound
<1>6. ASSUME NEW j \in 1 .. n, ~records[j].subsumed
      PROVE  RecKey(records[j]) # k
  <2> SUFFICES ASSUME RecKey(records[j]) = k PROVE FALSE
    OBVIOUS
  <2>1. byQueueID[k] = j \/ byDelivery[k] \in 1 .. n
    BY <1>6 DEF AllOwned, Owned
  <2>2. byDelivery[k] \notin 1 .. n
    BY <1>2, SoundParts DEF IsLegOfKnown
  <2>3. byQueueID[k] = j /\ j # 0
    BY <2>1, <2>2
  <2> QED  BY <1>2, <1>6, <2>3 DEF IsKnown
<1>7. \A x \in Key : x # k => byQ[x] = byQueueID[x]
  BY SoundParts
<1>8. byQ[k] = i
  BY <1>1, SoundParts
<1> HIDE DEF s, byQ
<1>9. Owned(s.recs, s.byQ, s.byD)
  <2>1. ASSUME NEW j \in 1 .. i, ~s.recs[j].subsumed
        PROVE  /\ \A x \in 1 .. i : RecKey(s.recs[x]) = RecKey(s.recs[j]) => x <= j
               /\ byQ[RecKey(s.recs[j])] = j \/ byDelivery[RecKey(s.recs[j])] \in 1 .. i
    <3>1. CASE j = i
      BY <1>1, <1>3, <1>8, <3>1
    <3>2. CASE j # i
      <4>1. j \in 1 .. n /\ s.recs[j] = records[j]
        BY <1>1, <1>3, <2>1, <3>2
      <4>2. RecKey(records[j]) # k /\ RecKey(records[j]) \in Key
        BY <1>6, <2>1, <4>1, SoundParts
      <4>3. /\ \A x \in 1 .. n : RecKey(records[x]) = RecKey(records[j]) => x <= j
            /\ byQueueID[RecKey(records[j])] = j \/ byDelivery[RecKey(records[j])] \in 1 .. n
        BY <2>1, <4>1 DEF AllOwned, Owned
      <4>4. ASSUME NEW x \in 1 .. i, RecKey(s.recs[x]) = RecKey(s.recs[j])
            PROVE  x <= j
        <5>1. x # i
          BY <1>3, <4>1, <4>2, <4>4
        <5>2. x \in 1 .. n /\ s.recs[x] = records[x]
          BY <1>1, <1>3, <5>1
        <5> QED  BY <4>1, <4>3, <4>4, <5>2
      <4>5. byQ[RecKey(records[j])] = byQueueID[RecKey(records[j])]
        BY <1>7, <4>2
      <4>6. byDelivery[RecKey(records[j])] \in 1 .. n => byDelivery[RecKey(records[j])] \in 1 .. i
        BY <1>1
      <4> QED  BY <4>1, <4>3, <4>4, <4>5, <4>6
    <3> QED  BY <3>1, <3>2
  <2> QED  BY <1>3, <1>4, <2>1 DEF Owned
<1>10. Grows(records, s.recs)
  <2>1. n <= Len(s.recs) /\ \A j \in 1 .. n : j \in 1 .. Len(s.recs) /\ s.recs[j] = records[j]
    BY <1>1, <1>3
  <2> QED  BY <2>1 DEF Grows
<1>11. i \in 1 .. Len(s.recs) /\ ~s.recs[i].subsumed /\ s.recs[i].dqid = r.dqid
  BY <1>1, <1>3
<1>12. Grows(s.recs, records') /\ Len(records') = Len(s.recs) /\ AllOwned'
  <2> HIDE DEF i
  <2> QED  BY <1>2, <1>5, <1>9, <1>11, SettleRowOwned
<1>13. Len(s.recs) \in Nat
  BY <1>1, <1>3
<1> QED  BY <1>1, <1>10, <1>12, <1>13, GrowsTransitive

LEMMA ApplyRspamdVerdictGrows ==
  ASSUME Sound(Stored), AllOwned, NEW q \in QIDs, ApplyRspamdVerdict(q)
  PROVE  Grows(records, records') /\ AllOwned'
<1> DEFINE i == byQueueID[<<Local, q>>]
           e == EnrichRecordWithRspamd(records[i], q)
<1>1. UNCHANGED index
  BY DEF ApplyRspamdVerdict
<1>2. Grows(records, records') /\ Len(records') = Len(records)
  <2>1. CASE HasRow(q)
    <3>1. i \in 1 .. Len(records) /\ records' = [records EXCEPT ![i] = e]
      BY <2>1, SoundParts DEF ApplyRspamdVerdict, HasRow
    <3> HIDE DEF i
    <3>2. records[i] \in Record
      BY <3>1, SoundParts
    <3>3. e \in Record /\ RecKey(e) = RecKey(records[i]) /\ e.subsumed = records[i].subsumed
          /\ records[i].lines \subseteq e.lines
      <4>1. e \in Record
        BY <3>2, RowsAreRecords
      <4> QED  BY <3>2, <4>1 DEF EnrichRecordWithRspamd, Record, RecKey
    <3> HIDE DEF e
    <3> QED  BY <3>1, <3>3, SoundParts, RewriteGrows
  <2>2. CASE ~HasRow(q)
    <3>1. records' = records
      BY <2>2 DEF ApplyRspamdVerdict
    <3> QED  BY <3>1, SoundParts DEF Grows
  <2> QED  BY <2>1, <2>2
<1>3. Owned(records', byQueueID', byDelivery')
  <2>1. Owned(records, byQueueID, byDelivery) /\ records \in Seq(Record)
    BY SoundParts DEF AllOwned
  <2>2. byQueueID' = byQueueID /\ byDelivery' = byDelivery
    BY <1>1 DEF index
  <2> QED  BY <1>2, <2>1, <2>2, GrowsKeepsOwned
<1> QED  BY <1>2, <1>3 DEF AllOwned

-----------------------------------------------------------------------------
(* A purge.                                                                *)

\* The rebuilt index leads to the last row of a key.
LEMMA NewIndexLeadsToTheLast ==
  ASSUME NEW recs \in Seq(Record), NEW i \in 1 .. Len(recs),
         \A j \in 1 .. Len(recs) : RecKey(recs[j]) = RecKey(recs[i]) => j <= i
  PROVE  NewIndex(recs)[RecKey(recs[i])] = i
<1> DEFINE k == RecKey(recs[i])
           own == {j \in DOMAIN recs : RecKey(recs[j]) = k}
<1>1. DOMAIN recs = 1 .. Len(recs) /\ Len(recs) \in Nat
  BY LenProperties
<1>2. k \in Key
  <2>1. recs[i] \in Record
    BY ElementOfSeq
  <2> QED  BY <2>1 DEF RecKey, Key, Record
<1>3. NewIndex(recs)[k] = IF own = {} THEN 0 ELSE CHOOSE j \in own : \A x \in own : x <= j
  BY <1>2 DEF NewIndex
<1>4. i \in own /\ own \subseteq 1 .. Len(recs) /\ \A x \in own : x <= i
  BY <1>1
<1> HIDE DEF own, k
<1>5. \A x \in own : x \in Nat
  BY <1>1, <1>4
<1>6. PICK y \in own : y = (CHOOSE j \in own : \A x \in own : x <= j) /\ \A x \in own : x <= y
  BY <1>4
<1>7. y = i
  BY <1>4, <1>5, <1>6
<1> QED  BY <1>3, <1>4, <1>6, <1>7 DEF k

\* The rows that are young enough are kept, in their order.
LEMMA PurgeKeeps ==
  ASSUME Sound(Stored), AllOwned, NEW c \in Nat, PurgeOlderThan(c)
  PROVE  /\ AllOwned'
         /\ \A i \in 1 .. Len(records') : ~records'[i].subsumed =>
              byQueueID'[RecKey(records'[i])] = i
         /\ \A i \in 1 .. Len(records) : records[i].ts \notin 1 .. c - 1 =>
              \E j \in 1 .. Len(records') : records'[j] = records[i]
<1> DEFINE keep == {i \in DOMAIN records : ~Expired(records[i], c)}
           n == Cardinality(keep)
<1>1. keep \subseteq 1 .. Len(records) /\ IsFiniteSet(keep) /\ n \in Nat
  <2>1. keep \subseteq 1 .. Len(records) /\ Len(records) \in Nat
    BY SoundParts
  <2>2. IsFiniteSet(1 .. Len(records))
    BY <2>1, FS_Interval
  <2> HIDE DEF keep
  <2>3. IsFiniteSet(keep)
    BY <2>1, <2>2, FS_Subset
  <2> QED  BY <2>1, <2>3, FS_CardinalityType
<1>2. PICK row \in [1 .. n -> keep] :
        /\ \A i, j \in 1 .. n : i < j => row[i] < row[j]
        /\ records' = [i \in 1 .. n |-> records[row[i]]]
        /\ byQueueID' = NewIndex(records')
  BY DEF PurgeOlderThan
<1>3. \A i \in 1 .. Len(records) : records[i].ts \notin 1 .. c - 1 => i \in keep
  <2> SUFFICES ASSUME NEW i \in 1 .. Len(records), records[i].ts \notin 1 .. c - 1
               PROVE  ~Expired(records[i], c)
    BY SoundParts
  <2>1. records[i].ts \in Nat
    BY SoundParts, LogAssumption DEF Record
  <2> QED  BY <2>1 DEF Expired
<1> HIDE DEF keep, n
<1>4. \A i \in 1 .. n : row[i] \in 1 .. Len(records) /\ row[i] \in Nat
  <2> SUFFICES ASSUME NEW i \in 1 .. n PROVE row[i] \in 1 .. Len(records)
    BY SoundParts
  <2>1. row[i] \in keep
    BY <1>2
  <2> QED  BY <1>1, <2>1
<1>5. records' \in Seq(Record) /\ Len(records') = n
  <2>1. records' \in [1 .. n -> Record]
    BY <1>2, <1>4, SoundParts
  <2> QED  BY <1>1, <2>1, SeqDef, LenProperties
<1>6. \A x \in keep : \E i \in 1 .. n : row[i] = x
  <2>1. row \in Injection(1 .. n, keep)
    <3>1. ASSUME NEW i \in 1 .. n, NEW j \in 1 .. n, row[i] = row[j] PROVE i = j
      BY <1>1, <1>2, <1>4, <3>1
    <3> QED  BY <1>2, <3>1 DEF Injection, IsInjective
  <2>2. Cardinality(1 .. n) = n
    BY <1>1, FS_Interval
  <2>3. row \in Surjection(1 .. n, keep)
    BY <1>1, <2>1, <2>2, FS_Injection DEF n
  <2> QED  BY <2>3 DEF Surjection
<1>7. ASSUME NEW i \in 1 .. n, ~records'[i].subsumed, NEW j \in 1 .. n,
             RecKey(records'[j]) = RecKey(records'[i])
      PROVE  j <= i
  <2>1. ~records[row[i]].subsumed /\ RecKey(records[row[j]]) = RecKey(records[row[i]])
    BY <1>2, <1>7
  <2>2. row[j] <= row[i]
    BY <1>4, <2>1 DEF AllOwned, Owned
  <2>3. i \in Int /\ j \in Int /\ row[i] \in Nat /\ row[j] \in Nat /\ (i < j => row[i] < row[j])
    BY <1>1, <1>2, <1>4
  <2> QED  BY <2>2, <2>3
<1>8. \A i \in 1 .. Len(records') : ~records'[i].subsumed => byQueueID'[RecKey(records'[i])] = i
  BY <1>2, <1>5, <1>7, NewIndexLeadsToTheLast
<1>9. AllOwned'
  BY <1>5, <1>7, <1>8 DEF AllOwned, Owned
<1>10. ASSUME NEW i \in 1 .. Len(records), records[i].ts \notin 1 .. c - 1
       PROVE  \E j \in 1 .. Len(records') : records'[j] = records[i]
  <2>1. PICK j \in 1 .. n : row[j] = i
    BY <1>3, <1>6, <1>10
  <2> QED  BY <1>2, <1>5, <2>1
<1> QED  BY <1>8, <1>9, <1>10

-----------------------------------------------------------------------------
(* The theorems.                                                           *)

LEMMA FeedMailGrows ==
  ASSUME IInv, AllOwned, NEW q \in QIDs, FeedMail(q)
  PROVE  Grows(records, records') /\ AllOwned'
<1>1. PICK b \in (fed[q] + 1) .. Len(Stamp[q]), known \in BOOLEAN :
        AddRecords(ParseLines(q, fed[q], b, known))
  BY DEF FeedMail
<1> DEFINE r == ParseLines(q, fed[q], b, known)
<1>2. Sound(Stored) /\ fed[q] \in Nat
  BY DEF IInv, InputOK
<1>3. r \in Record
  BY <1>2, ParseLinesType
<1>4. ~r.subsumed
  BY DEF ParseLines
<1>5. FoldLeg(r) \/ MergeSame(r) \/ AppendNew(r)
  BY <1>1 DEF AddRecords
<1> HIDE DEF r
<1> QED  BY <1>2, <1>3, <1>4, <1>5, FoldLegGrows, MergeSameGrows, AppendNewGrows

\* What any step keeps: either the rows grow, or a purge ran.
LEMMA OwnedStep ==
  ASSUME IInv, AllOwned, [Next]_vars
  PROVE  /\ AllOwned'
         /\ \/ Grows(records, records') /\ cutoff' = cutoff
            \/ cutoff' \in Nat /\ PurgeOlderThan(cutoff')
<1>0. Sound(Stored)
  BY DEF IInv
<1>1. ASSUME NEW q \in QIDs, FeedMail(q)
      PROVE  AllOwned' /\ Grows(records, records') /\ cutoff' = cutoff
  BY <1>1, FeedMailGrows DEF FeedMail
<1>2. ASSUME NEW q \in QIDs, FeedVerdict(q)
      PROVE  AllOwned' /\ Grows(records, records') /\ cutoff' = cutoff
  BY <1>0, <1>2, ApplyRspamdVerdictGrows DEF FeedVerdict
<1>3. ASSUME UNCHANGED <<records, index, cutoff>>
      PROVE  AllOwned' /\ Grows(records, records') /\ cutoff' = cutoff
  <2>1. Grows(records, records)
    BY <1>0, SoundParts DEF Grows
  <2> QED  BY <1>3, <2>1 DEF index, AllOwned
<1>4. CASE Prune
  BY <1>3, <1>4 DEF Prune, PruneRspamdPending, index
<1>5. CASE Purge
  <2>1. PICK c \in cutoff .. MaxTime + 1 : PurgeOlderThan(c) /\ cutoff' = c
    BY <1>5 DEF Purge
  <2>2. c \in Nat
    BY <2>1, LogAssumption DEF IInv, InputOK
  <2> QED  BY <1>0, <2>1, <2>2, PurgeKeeps
<1>6. CASE UNCHANGED vars
  BY <1>3, <1>6 DEF vars
<1> QED  BY <1>1, <1>2, <1>4, <1>5, <1>6 DEF Next

LEMMA OwnedInit == Init => AllOwned
BY EmptySeq DEF Init, AllOwned, Owned

\* A purge rebuilds the index so that every listed row's own queue id leads to
\* it, although byDelivery is left as it was and folded legs leave further
\* rows of the same key: the listed row of a key is its last, and the rebuilt
\* index takes the last.
THEOREM PurgeRebuildsTheIndex == Spec => PurgeReindexes
<1>1. Init => IInv /\ AllOwned
  BY IInvInit, OwnedInit
<1>2. IInv /\ AllOwned /\ [Next]_vars => IInv' /\ AllOwned'
  BY IInvStep, OwnedStep
<1>3. IInv /\ AllOwned /\ [Next]_vars =>
        [cutoff' # cutoff \/ Len(records') < Len(records) =>
           \A i \in Visible' : byQueueID'[RecKey(records'[i])] = i]_vars
  <2> SUFFICES ASSUME IInv, AllOwned, [Next]_vars,
                      cutoff' # cutoff \/ Len(records') < Len(records),
                      NEW i \in Visible'
               PROVE  byQueueID'[RecKey(records'[i])] = i
    OBVIOUS
  <2>1. Sound(Stored) /\ Sound(Stored)'
    BY IInvStep DEF IInv
  <2>2. i \in 1 .. Len(records') /\ ~records'[i].subsumed
    BY <2>1, LenProperties DEF Sound, Store, Stored, Visible
  <2>3. cutoff' \in Nat /\ PurgeOlderThan(cutoff')
    BY <2>1, OwnedStep, SoundParts DEF Grows
  <2> QED  BY <2>1, <2>2, <2>3, PurgeKeeps
<1> QED  BY <1>1, <1>2, <1>3, PTL DEF Spec, PurgeReindexes

\* A line once shown stays shown until its row is old enough for retention:
\* merging, folding and enriching a row only add lines to what is listed, and
\* a purge keeps every row that is young enough or has no timestamp.
THEOREM LinesVanishOnlyWithAge == Spec => LinesVanishOnlyByAge
<1>1. Init => IInv /\ AllOwned
  BY IInvInit, OwnedInit
<1>2. IInv /\ AllOwned /\ [Next]_vars => IInv' /\ AllOwned'
  BY IInvStep, OwnedStep
<1>3. IInv /\ AllOwned /\ [Next]_vars =>
        [\A i \in Visible : records[i].ts \notin 1 .. cutoff' - 1 =>
           \E j \in Visible' : records[i].lines \subseteq records'[j].lines]_vars
  <2> SUFFICES ASSUME IInv, AllOwned, [Next]_vars, NEW i \in Visible,
                      records[i].ts \notin 1 .. cutoff' - 1
               PROVE  \E j \in Visible' : records[i].lines \subseteq records'[j].lines
    OBVIOUS
  <2>1. Sound(Stored) /\ Sound(Stored)'
    BY IInvStep DEF IInv
  <2>2. i \in 1 .. Len(records) /\ ~records[i].subsumed
    BY <2>1, SoundParts DEF Visible
  <2>3. \E j \in 1 .. Len(records') : ~records'[j].subsumed /\ records[i].lines \subseteq records'[j].lines
    <3>1. CASE Grows(records, records')
      BY <2>2, <3>1 DEF Grows
    <3>2. CASE cutoff' \in Nat /\ PurgeOlderThan(cutoff')
      <4>1. PICK j \in 1 .. Len(records') : records'[j] = records[i]
        BY <2>1, <2>2, <3>2, PurgeKeeps
      <4> QED  BY <2>2, <4>1
    <3> QED  BY <3>1, <3>2, OwnedStep
  <2>4. Visible' = {j \in 1 .. Len(records') : ~records'[j].subsumed}
    BY <2>1, LenProperties DEF Sound, Store, Stored, Visible
  <2> QED  BY <2>3, <2>4
<1> QED  BY <1>1, <1>2, <1>3, PTL DEF Spec, LinesVanishOnlyByAge
=============================================================================
