--------------------------- MODULE PlvSearchProofs --------------------------
(***************************************************************************)
(* Theorems about what the store answers, for all rows, configurations and *)
(* orders of arrival.                                                      *)
(***************************************************************************)
EXTENDS PlvSearch, SequenceTheorems, FiniteSetTheorems, TLAPS

-----------------------------------------------------------------------------
(* The two aggregations of direction.go and GetDetail.                     *)

\* The rows whose signals GetDetail adds up for row i.
Legs(i) == {records[j] : j \in {k \in Listed : records[k].mid = records[i].mid}}

\* The rows whose signals directionResolver enters into its sets.
AllLegs == {records[i] : i \in {j \in Listed : records[j].mid # NoMid}}

\* A row with a Message-ID is in a set of the resolver exactly when a leg of
\* its message shows the signal; S is the set of the rows that show it.
LEMMA SignalAgrees ==
  ASSUME NEW i \in Listed, records[i].mid # NoMid, NEW S
  PROVE  records[i].mid \in {r.mid : r \in AllLegs \cap S} <=> \E l \in Legs(i) : l \in S
BY DEF Legs, AllLegs

\* In every state, whatever the rows and the configurations are, GetDetail
\* shows a listed row with the direction that the table and the cards have.
LEMMA DetailIsResolver == DetailAgrees
<1> SUFFICES ASSUME NEW i \in Listed
             PROVE  DetailDirection(i) = DirectionResolver[i]
  BY DEF DetailAgrees, GetDetail
<1> DEFINE In    == {l \in AllLegs : LegReceivedPublicUnauth(l, ConfFor(l.origin))}
           Out   == {l \in AllLegs : LegSendsPublic(l, ConfFor(l.origin))}
           Kept  == {l \in AllLegs : DeliversLocal(l)}
           Relay == {l \in AllLegs : IsRelayLeg(l, ConfFor(l.origin))}
           From  == {l \in AllLegs : IsLocalDomain(ConfFor(l.origin), l.from)}
           To    == {l \in AllLegs : IsLocalDomain(ConfFor(l.origin), l.to)}
           m     == records[i].mid
<1>1. i \in DOMAIN records
  BY DEF Listed
<1>2. CASE m = NoMid
  BY <1>1, <1>2 DEF DetailDirection, DirectionResolver
<1>3. CASE m # NoMid
  <2>1. Legs(i) \subseteq AllLegs
    BY <1>3 DEF Legs, AllLegs
  <2>2. /\ m \in {r.mid : r \in In} <=> \E l \in Legs(i) : LegReceivedPublicUnauth(l, ConfFor(l.origin))
        /\ m \in {r.mid : r \in Out} <=> \E l \in Legs(i) : LegSendsPublic(l, ConfFor(l.origin))
        /\ m \in {r.mid : r \in Kept} <=> \E l \in Legs(i) : DeliversLocal(l)
        /\ m \in {r.mid : r \in Relay} <=> \E l \in Legs(i) : IsRelayLeg(l, ConfFor(l.origin))
        /\ m \in {r.mid : r \in From} <=> \E l \in Legs(i) : IsLocalDomain(ConfFor(l.origin), l.from)
        /\ m \in {r.mid : r \in To} <=> \E l \in Legs(i) : IsLocalDomain(ConfFor(l.origin), l.to)
    BY <2>1, <1>3, SignalAgrees, ZenonT(60)
  <2>3. DirectionResolver[i] =
          ClassifyDirection(m \in {r.mid : r \in In}, m \in {r.mid : r \in Out},
            m \in {r.mid : r \in Kept}, m \in {r.mid : r \in Relay},
            m \in {r.mid : r \in From}, m \in {r.mid : r \in To})
    BY <1>1, <1>3 DEF DirectionResolver, AllLegs
  <2>4. DetailDirection(i) =
          ClassifyDirection(
            \E l \in Legs(i) : LegReceivedPublicUnauth(l, ConfFor(l.origin)),
            \E l \in Legs(i) : LegSendsPublic(l, ConfFor(l.origin)),
            \E l \in Legs(i) : DeliversLocal(l),
            \E l \in Legs(i) : IsRelayLeg(l, ConfFor(l.origin)),
            \E l \in Legs(i) : IsLocalDomain(ConfFor(l.origin), l.from),
            \E l \in Legs(i) : IsLocalDomain(ConfFor(l.origin), l.to))
    BY <1>3 DEF DetailDirection, Legs
  <2> QED
    BY <2>2, <2>3, <2>4 DEF ClassifyDirection
<1> QED
  BY <1>2, <1>3

\* The direction that opening a row shows is the one in the table: the pass in
\* GetDetail and the sets of directionResolver agree in every reachable state.
THEOREM DetailShowsTableDirection == Spec => []DetailAgrees
BY DetailIsResolver, PTL

-----------------------------------------------------------------------------
(* Related links.                                                          *)

\* The conditions under which GetDetail pairs two rows do not depend on which
\* of the two was opened.
LEMMA RelatedSymmetric == RelatedIsMutual
<1> SUFFICES ASSUME NEW i \in Listed, NEW j \in Listed, j \in Related(i)
             PROVE  i \in Related(j)
  BY DEF RelatedIsMutual, GetDetail
<1>1. RecKey(records[i]) # RecKey(records[j])
  BY DEF Related
<1>2. CASE records[i].mid # NoMid /\ records[j].mid = records[i].mid
  BY <1>1, <1>2 DEF Related
<1>3. CASE /\ IsNoqueueReject(records[i]) /\ IsNoqueueReject(records[j])
           /\ (\/ records[i].to = records[j].to
               \/ NoDomain \in {records[i].to, records[j].to})
           /\ WithinWindow(records[i].ts, records[j].ts)
           /\ RejectEmbeds(records[i].detail, records[j].detail)
  <2>1. WithinWindow(records[j].ts, records[i].ts)
    BY <1>3 DEF WithinWindow
  <2>2. RejectEmbeds(records[j].detail, records[i].detail)
    BY <1>3 DEF RejectEmbeds
  <2> QED
    BY <1>1, <1>3, <2>1, <2>2 DEF Related
<1> QED
  BY <1>2, <1>3 DEF Related

\* Of two rows that GetDetail links, each is among the related rows of the
\* other, in every reachable state.
THEOREM RelatedLeadsBack == Spec => []RelatedIsMutual
BY RelatedSymmetric, PTL

-----------------------------------------------------------------------------
(* Types.                                                                  *)

\* What the helpers return is a row, or a sequence of rows.
LEMMA RowMerges ==
  ASSUME NEW a \in Row, NEW b \in Row
  PROVE  /\ MergeRecord(a, b) \in Row
         /\ MergeDeliveryLeg(a, b) \in Row
         /\ [a EXCEPT !.subsumed = TRUE] \in Row
<1> DEFINE m == MergeRecord(a, b)
<1>1. m \in Row
  BY SMTT(60) DEF MergeRecord, OrElse, Row
<1>2. MergeDeliveryLeg(a, b) \in Row
  <2>1. OrElse(b.relay, NoHost, a.relay) \in Hosts \cup {NoHost, Mailbox}
    BY DEF OrElse, Row
  <2> HIDE DEF m
  <2>2. [m EXCEPT !.dqid = b.qid] \in Row
    BY <1>1 DEF Row
  <2>3. \A x \in Row : [x EXCEPT !.ts = a.ts] \in Row
    BY DEF Row
  <2>4. \A x \in Row : [x EXCEPT !.client = a.client] \in Row
    BY DEF Row
  <2>5. \A x \in Row : [x EXCEPT !.relay = OrElse(b.relay, NoHost, a.relay)] \in Row
    BY <2>1 DEF Row
  <2> QED
    BY <2>2, <2>3, <2>4, <2>5, Zenon DEF MergeDeliveryLeg, m
<1>3. [a EXCEPT !.subsumed = TRUE] \in Row
  BY DEF Row
<1> QED
  BY <1>1, <1>2, <1>3

LEMMA RegisterDeliveryType ==
  ASSUME NEW recs \in Seq(Row), NEW i \in DOMAIN recs, records \in Seq(Row),
         DOMAIN records \subseteq DOMAIN recs
  PROVE  /\ RegisterDelivery(recs, i) \in Seq(Row)
         /\ Len(RegisterDelivery(recs, i)) = Len(recs)
<1> DEFINE own == {j \in Listed : /\ recs[j].origin = recs[i].origin
                                 /\ recs[j].qid = recs[i].dqid}
<1>1. CASE own = {} \/ i \in own
  BY <1>1 DEF RegisterDelivery
<1>2. CASE ~(own = {} \/ i \in own)
  <2> DEFINE j == CHOOSE j \in own : TRUE
             m == MergeDeliveryLeg(recs[i], recs[j])
             x == [recs[j] EXCEPT !.subsumed = TRUE]
             one == [recs EXCEPT ![i] = m]
             two == [one EXCEPT ![j] = x]
  <2>1. j \in own
    BY <1>2
  <2>2. j \in DOMAIN recs /\ j # i
    BY <1>2, <2>1 DEF Listed
  <2>3. recs[i] \in Row /\ recs[j] \in Row
    BY <2>2, ElementOfSeq
  <2>4. m \in Row /\ x \in Row
    BY <2>3, RowMerges
  <2>5. RegisterDelivery(recs, i) = two
    BY <1>2, <2>2 DEF RegisterDelivery
  <2> HIDE DEF j, m, x
  <2>6. one \in Seq(Row) /\ Len(one) = Len(recs)
    BY <2>4, ExceptSeq
  <2>7. two \in Seq(Row) /\ Len(two) = Len(recs)
    <3> HIDE DEF one
    <3> QED
      BY <2>2, <2>4, <2>6, ExceptSeq
  <2> QED
    BY <2>5, <2>7
<1> QED
  BY <1>1, <1>2

\* A row that arrives leaves rows, at most one more.
LEMMA ArriveType ==
  ASSUME TypeOK, NEW o \in Origins, Arrive(o)
  PROVE  records' \in Seq(Row) /\ Len(records') <= Len(records) + 1
<1> USE SearchAssumption DEF TypeOK
<1> PICK n \in DOMAIN Incoming[o] :
      IF o = Local THEN AddRecords(Incoming[o][n])
      ELSE 1 .. n - 1 \subseteq arrived[o] /\ IngestSnapshots(Incoming[o][n])
  BY DEF Arrive
<1> DEFINE r == Incoming[o][n]
<1>0. Len(records) \in Nat
  OBVIOUS
<1>1. r \in Row
  OBVIOUS
<1> HIDE DEF r
<1>2. \A i \in Listed : i \in DOMAIN records /\ records[i] \in Row
  BY DEF Listed
<1>3. CASE AddRecords(r)
  <2>1. ASSUME NEW i \in PrimaryOf(r), records' = [records EXCEPT ![i] = MergeDeliveryLeg(@, r)]
        PROVE  records' \in Seq(Row) /\ Len(records') <= Len(records) + 1
    <3> DEFINE m == MergeDeliveryLeg(records[i], r)
    <3>1. i \in DOMAIN records /\ m \in Row
      BY <1>1, <1>2, RowMerges DEF PrimaryOf
    <3>2. records' = [records EXCEPT ![i] = m]
      BY <2>1
    <3> HIDE DEF m
    <3> QED
      BY <3>1, <3>2, ExceptSeq
  <2>2. ASSUME NEW i \in SameAs(r),
               records' = RegisterDelivery([records EXCEPT ![i] = MergeRecord(@, r)], i)
        PROVE  records' \in Seq(Row) /\ Len(records') <= Len(records) + 1
    <3> DEFINE recs == [records EXCEPT ![i] = MergeRecord(@, r)]
    <3>1. i \in DOMAIN records /\ MergeRecord(records[i], r) \in Row
      BY <1>1, <1>2, RowMerges DEF SameAs
    <3>2. recs \in Seq(Row) /\ DOMAIN recs = DOMAIN records /\ Len(recs) = Len(records)
      BY <3>1
    <3> HIDE DEF recs
    <3>3. records' = RegisterDelivery(recs, i)
      BY <2>2 DEF recs
    <3> HIDE DEF TypeOK
    <3>4. records' \in Seq(Row) /\ Len(records') = Len(recs)
      BY <3>1, <3>2, <3>3, RegisterDeliveryType DEF TypeOK
    <3> QED
      BY <1>0, <3>2, <3>4
  <2>3. ASSUME records' = RegisterDelivery(Append(records, r), Len(records) + 1)
        PROVE  records' \in Seq(Row) /\ Len(records') <= Len(records) + 1
    <3> DEFINE recs == Append(records, r)
    <3>1. /\ recs \in Seq(Row) /\ Len(recs) = Len(records) + 1
          /\ Len(records) + 1 \in DOMAIN recs /\ DOMAIN records \subseteq DOMAIN recs
      BY <1>1
    <3> HIDE DEF recs
    <3>2. records' = RegisterDelivery(recs, Len(records) + 1)
      BY <2>3 DEF recs
    <3> HIDE DEF TypeOK
    <3>3. records' \in Seq(Row) /\ Len(records') = Len(recs)
      BY <3>1, <3>2, RegisterDeliveryType DEF TypeOK
    <3> QED
      BY <1>0, <3>1, <3>3
  <2> QED
    BY <1>3, <2>1, <2>2, <2>3 DEF AddRecords
<1>4. CASE IngestSnapshots(r)
  <2> DEFINE replaced == [i \in DOMAIN records |-> IF i \in SameAs(r) THEN r ELSE records[i]]
  <2>1. replaced \in Seq(Row) /\ Len(replaced) = Len(records)
    <3>1. \A i \in 1 .. Len(records) : records[i] \in Row
      BY ElementOfSeq
    <3>2. \A i \in 1 .. Len(records) : (IF i \in SameAs(r) THEN r ELSE records[i]) \in Row
      BY <1>1, <3>1
    <3>3. DOMAIN records = 1 .. Len(records) /\ Len(records) \in Nat
      OBVIOUS
    <3> HIDE DEF TypeOK
    <3> QED
      BY <3>2, <3>3
  <2>2. Append(records, r) \in Seq(Row) /\ Len(Append(records, r)) = Len(records) + 1
    BY <1>1
  <2> HIDE DEF replaced
  <2>3. records' \in {records, Append(records, r), replaced}
    BY <1>4 DEF IngestSnapshots, replaced
  <2>4. Len(records') \in {Len(records), Len(records) + 1}
    BY <2>1, <2>2, <2>3
  <2>5. records' \in Seq(Row)
    BY <2>1, <2>2, <2>3
  <2> QED
    BY <1>0, <2>4, <2>5
<1> QED
  BY <1>3, <1>4 DEF r

LEMMA TypeInvariant == TypeOK /\ [Next]_vars => TypeOK'
<1> SUFFICES ASSUME TypeOK, [Next]_vars PROVE TypeOK'
  OBVIOUS
<1> USE SearchAssumption DEF TypeOK
<1>1. ASSUME NEW o \in Origins, Arrive(o) PROVE TypeOK'
  <2>1. records' \in Seq(Row)
    BY <1>1, ArriveType
  <2> QED
    BY <1>1, <2>1 DEF Arrive
<1>2. ASSUME NEW pc \in Confs, SetPostfixConf(pc), UNCHANGED arrived PROVE TypeOK'
  BY <1>2 DEF SetPostfixConf
<1>3. ASSUME NEW pc \in Confs, NEW o \in Origins, SetPostfixConfForOrigin(o, pc), UNCHANGED arrived
      PROVE  TypeOK'
  BY <1>3 DEF SetPostfixConfForOrigin
<1>4. CASE UNCHANGED vars
  BY <1>4 DEF vars
<1> QED
  BY <1>1, <1>2, <1>3, <1>4 DEF Next, Configure

\* There are never more rows than the bound, so a page of that length holds
\* them all.
SInv == TypeOK /\ Len(records) <= MaxRows

LEMMA SInvAlways == Spec => []SInv
<1>1. Init => SInv
  BY SearchAssumption, ConfAssumption DEF Init, SInv, TypeOK
<1>2. SInv /\ [Next]_vars => SInv'
  <2> SUFFICES ASSUME SInv, [Next]_vars PROVE SInv'
    OBVIOUS
  <2>1. TypeOK /\ TypeOK' /\ Len(records) \in Nat /\ MaxRows \in Nat /\ Len(records) <= MaxRows
    BY TypeInvariant, SearchAssumption DEF SInv, TypeOK
  <2>2. ASSUME NEW o \in Origins, Arrive(o) PROVE Len(records') <= MaxRows
    <3>1. Len(records') <= Len(records) + 1 /\ Len(records') \in Nat
      BY <2>1, <2>2, ArriveType
    <3>2. Len(records) < MaxRows
      BY <2>2 DEF Arrive
    <3> QED
      BY <2>1, <3>1, <3>2
  <2>3. ASSUME UNCHANGED records PROVE Len(records') <= MaxRows
    BY <2>1, <2>3
  <2>4. UNCHANGED records \/ \E o \in Origins : Arrive(o)
    BY DEF Next, Configure, SetPostfixConf, SetPostfixConfForOrigin, vars
  <2> QED
    BY <2>1, <2>2, <2>3, <2>4 DEF SInv
<1> QED
  BY <1>1, <1>2, PTL DEF Spec

\* Every reachable state is well typed, and no forwarder's configuration is
\* ever kept for the rows of this instance itself.
THEOREM SearchTypeCorrect == Spec => []TypeOK
<1>1. SInv => TypeOK
  BY DEF SInv
<1> QED
  BY <1>1, SInvAlways, PTL

-----------------------------------------------------------------------------
(* The configurations of the forwarders.                                   *)

\* A batch of server o leaves the configuration that judges other rows.
LEMMA ConfKept ==
  ASSUME TypeOK, NEW o \in Origins, NEW pc \in Confs, SetPostfixConfForOrigin(o, pc),
         NEW q \in Origins, q # o
  PROVE  ConfFor(q)' = ConfFor(q)
BY DEF TypeOK, SetPostfixConfForOrigin, ConfFor

\* It leaves the direction of the messages that o has no row of.
LEMMA DirectionKept ==
  ASSUME TypeOK, NEW o \in Origins, NEW pc \in Confs, SetPostfixConfForOrigin(o, pc),
         NEW i \in Listed, records[i].origin # o,
         records[i].mid = NoMid \/ o \notin MidOrigins(records[i].mid)
  PROVE  DirectionResolver'[i] = DirectionResolver[i]
<1>1. UNCHANGED records
  BY DEF SetPostfixConfForOrigin
<1>2. \A j \in Listed : records[j] \in Row
  BY ElementOfSeq DEF TypeOK, Listed
<1>3. Listed' = Listed /\ Legs(i)' = Legs(i)
  BY <1>1 DEF Listed, Legs
<1>4. DetailDirection(i) = DirectionResolver[i]
  BY DetailIsResolver DEF DetailAgrees, GetDetail
<1>5. DetailDirection(i)' = DirectionResolver'[i]
  <2>1. DetailAgrees'
    BY DetailIsResolver, PTL
  <2> QED
    BY <1>3, <2>1 DEF DetailAgrees, GetDetail
<1>6. CASE records[i].mid = NoMid
  <2>1. ConfFor(records[i].origin)' = ConfFor(records[i].origin)
    BY <1>1, <1>2, ConfKept DEF Row
  <2>2. DetailDirection(i) = OwnDirection(records[i]) /\ DetailDirection(i)' = OwnDirection(records[i])'
    BY <1>1, <1>6 DEF DetailDirection
  <2>3. OwnDirection(records[i])' = OwnDirection(records[i])
    BY <1>1, <2>1 DEF OwnDirection
  <2> QED
    BY <1>4, <1>5, <2>2, <2>3
<1>7. CASE records[i].mid # NoMid
  <2>1. ASSUME NEW l \in Legs(i) PROVE ConfFor(l.origin)' = ConfFor(l.origin)
    <3>1. l.origin \in Origins /\ l.origin # o
      BY <1>2, <1>7 DEF Legs, MidOrigins, Row
    <3> QED
      BY <3>1, ConfKept
  <2>2. DetailDirection(i)' = DetailDirection(i)
    BY <1>1, <1>3, <1>7, <2>1 DEF DetailDirection, Legs
  <2> QED
    BY <1>4, <1>5, <2>2
<1> QED
  BY <1>6, <1>7

\* A configuration that a forwarder sends changes the direction of rows that
\* are its own or share a Message-ID with one of its own, and of no other.
THEOREM ForeignConfIsHarmless == Spec => ForeignConfHarmless
<1> DEFINE Harmless ==
      \A o \in Origins : pcfgByOrigin'[o] # pcfgByOrigin[o] =>
        \A i \in Listed :
          DirectionResolver'[i] # DirectionResolver[i] =>
            \/ records[i].origin = o
            \/ (records[i].mid # NoMid /\ o \in MidOrigins(records[i].mid))
<1>1. TypeOK /\ [Next]_vars => [Harmless]_vars
  <2> SUFFICES ASSUME TypeOK, Next,
                      NEW o \in Origins, pcfgByOrigin'[o] # pcfgByOrigin[o],
                      NEW i \in Listed, DirectionResolver'[i] # DirectionResolver[i]
               PROVE  \/ records[i].origin = o
                      \/ (records[i].mid # NoMid /\ o \in MidOrigins(records[i].mid))
    OBVIOUS
  <2>1. PICK pc \in Confs, q \in Origins : SetPostfixConfForOrigin(q, pc)
    BY DEF Next, Configure, Arrive, SetPostfixConf
  <2>2. q = o
    BY <2>1 DEF SetPostfixConfForOrigin, TypeOK
  <2> QED
    BY <2>1, <2>2, DirectionKept
<1> QED
  BY <1>1, SearchTypeCorrect, PTL DEF Spec, ForeignConfHarmless

-----------------------------------------------------------------------------
(* Sorting.                                                                *)

\* before is a strict total order of S: before[i] are those before i.
IsOrder(before, S) ==
  /\ before \in [S -> SUBSET S]
  /\ \A i, j \in S : i = j \/ i \in before[j] \/ j \in before[i]
  /\ \A i \in S : i \notin before[i]
  /\ \A i, j \in S : i \in before[j] => before[i] \subseteq before[j]

\* list has the elements of S, each once.
Lists(list, S) ==
  /\ list \in Seq(S) /\ Len(list) = Cardinality(S)
  /\ \A i \in S : \E n \in DOMAIN list : list[n] = i
  /\ \A m, n \in DOMAIN list : list[m] = list[n] => m = n

\* How many come before an element grows along the order and takes every value.
LEMMA Ranks ==
  ASSUME NEW S, IsFiniteSet(S), NEW before, IsOrder(before, S)
  PROVE  /\ Cardinality(S) \in Nat
         /\ \A i \in S : Cardinality(before[i]) \in 0 .. Cardinality(S) - 1
         /\ \A i, j \in S : i \in before[j] => Cardinality(before[i]) < Cardinality(before[j])
         /\ \A n \in 1 .. Cardinality(S) : \E i \in S : Cardinality(before[i]) = n - 1
<1> DEFINE c == Cardinality(S)
<1>1. c \in Nat
  BY FS_CardinalityType
<1>2. ASSUME NEW i \in S
      PROVE  IsFiniteSet(before[i]) /\ Cardinality(before[i]) \in 0 .. c - 1
  <2>1. before[i] \in SUBSET S /\ before[i] # S
    BY DEF IsOrder
  <2>2. IsFiniteSet(before[i]) /\ Cardinality(before[i]) <= c /\ Cardinality(before[i]) # c
    BY <2>1, FS_Subset
  <2>3. Cardinality(before[i]) \in Nat
    BY <2>2, FS_CardinalityType
  <2> QED  BY <1>1, <2>2, <2>3
<1>3. ASSUME NEW i \in S, NEW j \in S, i \in before[j]
      PROVE  Cardinality(before[i]) < Cardinality(before[j])
  <2>1. before[i] \in SUBSET before[j] /\ before[i] # before[j]
    BY <1>3 DEF IsOrder
  <2>2. Cardinality(before[i]) <= Cardinality(before[j]) /\ Cardinality(before[i]) # Cardinality(before[j])
    BY <1>2, <2>1, FS_Subset
  <2>3. Cardinality(before[i]) \in Nat /\ Cardinality(before[j]) \in Nat
    BY <1>1, <1>2
  <2> QED  BY <2>2, <2>3
<1>4. ASSUME NEW n \in 1 .. c PROVE \E i \in S : Cardinality(before[i]) = n - 1
  <2> DEFINE T == 1 .. c
             f == [i \in S |-> Cardinality(before[i]) + 1]
  <2>1. f \in [S -> T]
    <3>1. \A i \in S : Cardinality(before[i]) + 1 \in 1 .. c
      BY <1>1, <1>2
    <3> QED  BY <3>1
  <2>2. ASSUME NEW i \in S, NEW j \in S, i # j PROVE f[i] # f[j]
    <3>1. i \in before[j] \/ j \in before[i]
      BY <2>2 DEF IsOrder
    <3>2. Cardinality(before[i]) \in Nat /\ Cardinality(before[j]) \in Nat
      BY <1>1, <1>2
    <3>3. Cardinality(before[i]) # Cardinality(before[j])
      BY <1>3, <3>1, <3>2
    <3> QED  BY <3>2, <3>3
  <2>3. f \in Injection(S, T)
    <3> HIDE DEF f, T
    <3> QED  BY <2>1, <2>2 DEF Injection, IsInjective
  <2>4. IsFiniteSet(T) /\ Cardinality(T) = Cardinality(S)
    BY <1>1, FS_Interval
  <2>5. f \in Surjection(S, T)
    BY <2>3, <2>4, FS_Injection
  <2>6. PICK i \in S : f[i] = n
    BY <2>5 DEF Surjection
  <2>7. Cardinality(before[i]) \in Nat /\ Cardinality(before[i]) + 1 = n
    BY <1>1, <1>2, <2>6
  <2> QED  BY <2>7
<1> QED  BY <1>1, <1>2, <1>3, <1>4

\* InOrder lists what is ordered, each before those that come after it.
LEMMA Ordered ==
  ASSUME NEW S, IsFiniteSet(S), NEW before, IsOrder(before, S)
  PROVE  /\ Lists(InOrder(before), S)
         /\ \A m, n \in DOMAIN InOrder(before) :
              m < n => InOrder(before)[m] \in before[InOrder(before)[n]]
<1> DEFINE c == Cardinality(S)
           Nth(n) == CHOOSE i \in S : Cardinality(before[i]) = n - 1
<1>1. /\ c \in Nat
      /\ \A i \in S : Cardinality(before[i]) \in 0 .. c - 1
      /\ \A i, j \in S : i \in before[j] => Cardinality(before[i]) < Cardinality(before[j])
      /\ \A n \in 1 .. c : \E i \in S : Cardinality(before[i]) = n - 1
  BY Ranks
<1>2. DOMAIN before = S
  BY DEF IsOrder
<1>3. InOrder(before) = [n \in 1 .. c |-> Nth(n)]
  BY <1>2 DEF InOrder
<1> HIDE DEF c
<1>4. ASSUME NEW n \in 1 .. c PROVE Nth(n) \in S /\ Cardinality(before[Nth(n)]) = n - 1
  BY <1>1
<1>5. InOrder(before) \in Seq(S) /\ Len(InOrder(before)) = c /\ DOMAIN InOrder(before) = 1 .. c
  <2>1. InOrder(before) \in [1 .. c -> S]
    BY <1>3, <1>4
  <2> QED  BY <1>1, <2>1
<1>6. ASSUME NEW m \in 1 .. c, NEW n \in 1 .. c, Nth(m) = Nth(n) PROVE m = n
  <2>1. m - 1 = n - 1 /\ m \in Int /\ n \in Int
    BY <1>1, <1>4, <1>6
  <2> QED  BY <2>1
<1>7. ASSUME NEW i \in S PROVE \E n \in 1 .. c : Nth(n) = i
  <2> DEFINE n == Cardinality(before[i]) + 1  k == Nth(n)
  <2>1. n \in 1 .. c /\ n - 1 = Cardinality(before[i])
    BY <1>1
  <2>2. k \in S /\ Cardinality(before[k]) = Cardinality(before[i])
    BY <1>4, <2>1
  <2>3. Cardinality(before[k]) \in Int
    BY <1>1, <2>2
  <2> HIDE DEF k
  <2>4. k = i
    BY <1>1, <2>2, <2>3 DEF IsOrder
  <2> QED  BY <2>1, <2>4 DEF k
<1>8. ASSUME NEW m \in 1 .. c, NEW n \in 1 .. c, m < n
      PROVE  Nth(m) \in before[Nth(n)]
  <2> DEFINE i == Nth(m)  k == Nth(n)
  <2>1. i \in S /\ k \in S /\ Cardinality(before[i]) = m - 1 /\ Cardinality(before[k]) = n - 1
    BY <1>4
  <2> HIDE DEF i, k
  <2>2. i # k /\ ~(k \in before[i])
    BY <1>1, <1>8, <2>1
  <2>3. i \in before[k]
    BY <2>1, <2>2 DEF IsOrder
  <2> QED  BY <2>3 DEF i, k
<1> HIDE DEF Nth
<1>9. Lists(InOrder(before), S)
  <2>1. \A m, n \in 1 .. c : InOrder(before)[m] = InOrder(before)[n] => m = n
    BY <1>3, <1>6
  <2>2. \A i \in S : \E n \in 1 .. c : InOrder(before)[n] = i
    BY <1>3, <1>7
  <2> QED  BY <1>5, <2>1, <2>2 DEF Lists, c
<1>10. \A m, n \in 1 .. c : m < n => InOrder(before)[m] \in before[InOrder(before)[n]]
  BY <1>3, <1>8
<1> QED  BY <1>5, <1>9, <1>10

\* The order of a stable sort by value, upwards or downwards.
ByValue(S, value, desc) ==
  [i \in S |-> {j \in S : IF value[j] = value[i] THEN j < i
                          ELSE IF desc THEN value[j] > value[i] ELSE value[j] < value[i]}]

LEMMA ByValueOrders ==
  ASSUME NEW S \in SUBSET Nat, NEW value \in [S -> Nat], NEW desc \in BOOLEAN
  PROVE  IsOrder(ByValue(S, value, desc), S)
<1> DEFINE before == ByValue(S, value, desc)
           Less(j, i) == IF value[j] = value[i] THEN j < i
                         ELSE IF desc THEN value[j] > value[i] ELSE value[j] < value[i]
<1>1. \A i \in S : i \in Nat /\ value[i] \in Nat
  OBVIOUS
<1>2. /\ \A i, j \in S : i = j \/ Less(i, j) \/ Less(j, i)
      /\ \A i \in S : ~Less(i, i)
  BY <1>1
<1>3. ASSUME NEW i \in S, NEW j \in S, NEW k \in S, Less(i, j), Less(j, k) PROVE Less(i, k)
  <2>1. /\ i \in Nat /\ j \in Nat /\ k \in Nat
        /\ value[i] \in Nat /\ value[j] \in Nat /\ value[k] \in Nat
    BY <1>1
  <2> QED  BY <1>3, <2>1
<1>4. \A i \in S : before[i] = {j \in S : Less(j, i)}
  BY DEF ByValue
<1>5. before \in [S -> SUBSET S]
  BY DEF ByValue
<1> HIDE DEF before, Less
<1>6. ASSUME NEW j \in S, NEW k \in S, j \in before[k] PROVE before[j] \subseteq before[k]
  BY <1>3, <1>4, <1>6, Zenon
<1>7. \A i, j \in S : i = j \/ i \in before[j] \/ j \in before[i]
  BY <1>2, <1>4
<1>8. \A i \in S : i \notin before[i]
  BY <1>2, <1>4
<1> QED  BY <1>5, <1>6, <1>7, <1>8 DEF IsOrder, before

LEMMA FiniteNats ==
  ASSUME NEW N \in Nat, NEW S \in SUBSET (1 .. N)
  PROVE  IsFiniteSet(S) /\ Cardinality(S) \in Nat /\ Cardinality(S) <= N
<1>1. IsFiniteSet(1 .. N) /\ Cardinality(1 .. N) = N
  BY FS_Interval
<1>2. IsFiniteSet(S) /\ Cardinality(S) <= N
  BY <1>1, FS_Subset
<1> QED  BY <1>2, FS_CardinalityType

\* A set of positions that is not empty has a first one.
LEMMA FirstExists ==
  ASSUME NEW N \in Nat, NEW S \in SUBSET (1 .. N), S # {}
  PROVE  \E m \in S : \A k \in 1 .. m - 1 : k \notin S
<1> DEFINE value == [i \in S |-> 0]
           before == ByValue(S, value, FALSE)
           list == InOrder(before)
<1>1. IsFiniteSet(S)
  BY FiniteNats
<1> IsOrder(before, S)
  <2>1. S \in SUBSET Nat /\ value \in [S -> Nat] /\ FALSE \in BOOLEAN
    OBVIOUS
  <2> HIDE DEF value
  <2> QED  BY <2>1, ByValueOrders
<1>2. \A i, j \in S : i \in before[j] => i < j
  BY DEF ByValue
<1> HIDE DEF before
<1>3. Lists(list, S) /\ \A m, n \in DOMAIN list : m < n => list[m] \in before[list[n]]
  BY <1>1, Ordered
<1> HIDE DEF list
<1>4. \A m \in DOMAIN list : list[m] \in S /\ m \in 1 .. Len(list)
  BY <1>3 DEF Lists
<1>5. PICK i \in S, m \in DOMAIN list : list[m] = i
  BY <1>3 DEF Lists
<1>6. 1 \in DOMAIN list
  BY <1>3, <1>4, <1>5 DEF Lists
<1>7. ASSUME NEW n \in DOMAIN list, n # 1 PROVE list[1] < list[n]
  <2>1. 1 < n
    BY <1>3, <1>7 DEF Lists
  <2>2. list[1] \in before[list[n]]
    BY <1>3, <1>6, <2>1
  <2> QED  BY <1>2, <1>4, <1>6, <2>2
<1>8. \A j \in S : j = list[1] \/ list[1] < j
  BY <1>3, <1>7 DEF Lists
<1>9. list[1] \in S /\ list[1] \in 1 .. N
  BY <1>4, <1>6
<1>10. \A k \in 1 .. list[1] - 1 : k # list[1] /\ ~(list[1] < k)
  BY <1>9
<1> QED  BY <1>8, <1>9, <1>10

-----------------------------------------------------------------------------
(* The list that Search cuts into pages.                                   *)

Directions == DOMAIN DirectionOrder

LEMMA DirectionType ==
  /\ Directions = {"inbound", "internal", "outbound", "relayed"}
  /\ \A i \in Listed : DirectionResolver[i] \in Directions
<1>1. Directions = {"inbound", "internal", "outbound", "relayed"}
  BY DEF Directions, DirectionOrder
<1>2. \A a, b, c, d, e, f : ClassifyDirection(a, b, c, d, e, f) \in Directions
  BY <1>1 DEF ClassifyDirection
<1> QED  BY <1>1, <1>2 DEF DirectionResolver, Listed, OwnDirection

LEMMA MatchingType ==
  ASSUME SInv, NEW p
  PROVE  /\ Matching(p, DirectionResolver) \subseteq Listed
         /\ Matching(p, DirectionResolver) \in SUBSET (1 .. Len(records))
         /\ IsFiniteSet(Matching(p, DirectionResolver))
         /\ Cardinality(Matching(p, DirectionResolver)) \in 0 .. MaxRows
<1>1. /\ Len(records) \in Nat /\ DOMAIN records = 1 .. Len(records)
      /\ MaxRows \in Nat /\ Len(records) <= MaxRows
  BY SearchAssumption DEF SInv, TypeOK
<1> DEFINE S == Matching(p, DirectionResolver)
<1>2. S \subseteq Listed /\ S \in SUBSET (1 .. Len(records))
  BY <1>1 DEF Matching, Listed
<1> HIDE DEF S
<1>3. IsFiniteSet(S) /\ Cardinality(S) \in Nat /\ Cardinality(S) <= Len(records)
  BY <1>1, <1>2, FiniteNats
<1>4. Cardinality(S) \in 0 .. MaxRows
  BY <1>1, <1>3
<1> QED  BY <1>2, <1>3, <1>4 DEF S

LEMMA ColumnType ==
  ASSUME SInv, NEW p \in Query, NEW i \in Listed
  PROVE  ColumnValue(i, p.column, DirectionResolver) \in Nat
<1>1. records[i] \in Row
  BY ElementOfSeq DEF SInv, TypeOK, Listed
<1>2. records[i].ts \in Nat /\ records[i].status \in Nat
  <2>1. records[i].ts \in 0 .. MaxTime /\ records[i].status \in Statuses \cup {NoStatus}
    BY <1>1 DEF Row
  <2>2. Statuses \cup {NoStatus} \subseteq Nat /\ MaxTime \in Nat
    BY ConfAssumption, SearchAssumption
  <2>3. 0 .. MaxTime \subseteq Nat
    BY <2>2
  <2> QED  BY <2>1, <2>2, <2>3
<1>3. \A d \in Directions : DirectionOrder[d] \in Nat
  BY DEF Directions, DirectionOrder
<1>4. DirectionOrder[DirectionResolver[i]] \in Nat
  BY <1>3, DirectionType
<1>5. p.column \in {"time", "status", "direction", "none"}
  BY DEF Query
<1> QED  BY <1>2, <1>4, <1>5 DEF ColumnValue

\* Sorted lists every matching row once.
LEMMA SortedLists ==
  ASSUME SInv, NEW p \in Query
  PROVE  Lists(Sorted(p, DirectionResolver), Matching(p, DirectionResolver))
<1> DEFINE S == Matching(p, DirectionResolver)
           value == [i \in S |-> ColumnValue(i, p.column, DirectionResolver)]
<1>1. S \in SUBSET Nat /\ IsFiniteSet(S) /\ S \subseteq Listed
  BY MatchingType
<1>2. Sorted(p, DirectionResolver) = InOrder(ByValue(S, value, p.desc))
  BY DEF Sorted, ByValue
<1> HIDE DEF S
<1>3. value \in [S -> Nat]
  BY <1>1, ColumnType
<1>4. p.desc \in BOOLEAN
  BY DEF Query
<1> HIDE DEF value
<1>5. IsOrder(ByValue(S, value, p.desc), S)
  BY <1>1, <1>3, <1>4, ByValueOrders
<1>6. Lists(InOrder(ByValue(S, value, p.desc)), S)
  BY <1>1, <1>5, Ordered
<1> QED  BY <1>2, <1>6 DEF S

-----------------------------------------------------------------------------
(* Clustering.                                                             *)

GroupAt(list) == [n \in DOMAIN list |-> GroupKey(records[list[n]])]

IsFirst(list, m, n) ==
  /\ GroupAt(list)[m] = GroupAt(list)[n]
  /\ \A k \in 1 .. m - 1 : GroupAt(list)[k] # GroupAt(list)[n]

\* Where the first row of each row's group is.
RankAt(list) == [n \in DOMAIN list |-> CHOOSE m \in DOMAIN list : IsFirst(list, m, n)]

OrderOf(list) == InOrder(ByValue(DOMAIN list, RankAt(list), FALSE))

LEMMA RankFirst ==
  ASSUME NEW S, NEW list \in Seq(S)
  PROVE  /\ RankAt(list) \in [DOMAIN list -> DOMAIN list]
         /\ \A n \in DOMAIN list : IsFirst(list, RankAt(list)[n], n)
         /\ \A m, n \in DOMAIN list :
              RankAt(list)[m] = RankAt(list)[n] <=> GroupAt(list)[m] = GroupAt(list)[n]
<1>1. Len(list) \in Nat /\ DOMAIN list = 1 .. Len(list)
  OBVIOUS
<1>2. ASSUME NEW n \in DOMAIN list
      PROVE  RankAt(list)[n] \in DOMAIN list /\ IsFirst(list, RankAt(list)[n], n)
  <2> DEFINE same == {m \in DOMAIN list : GroupAt(list)[m] = GroupAt(list)[n]}
  <2>1. same \in SUBSET (1 .. Len(list)) /\ n \in same
    BY <1>1
  <2>2. PICK m \in same : \A k \in 1 .. m - 1 : k \notin same
    <3> HIDE DEF same
    <3> QED  BY <1>1, <2>1, FirstExists
  <2>3. \A k \in 1 .. m - 1 : k \in DOMAIN list
    BY <1>1
  <2>4. m \in DOMAIN list /\ IsFirst(list, m, n)
    BY <2>2, <2>3 DEF IsFirst
  <2> QED  BY <2>4, Zenon DEF RankAt
<1>3. ASSUME NEW m \in DOMAIN list, NEW n \in DOMAIN list
      PROVE  RankAt(list)[m] = RankAt(list)[n] <=> GroupAt(list)[m] = GroupAt(list)[n]
  <2>1. ASSUME RankAt(list)[m] = RankAt(list)[n] PROVE GroupAt(list)[m] = GroupAt(list)[n]
    BY <1>2, <2>1 DEF IsFirst
  <2>2. ASSUME GroupAt(list)[m] = GroupAt(list)[n] PROVE RankAt(list)[m] = RankAt(list)[n]
    <3>1. \A k : IsFirst(list, k, m) <=> IsFirst(list, k, n)
      BY <2>2 DEF IsFirst
    <3> QED  BY <3>1 DEF RankAt
  <2> QED  BY <2>1, <2>2
<1>4. RankAt(list) \in [DOMAIN list -> DOMAIN list]
  <2>1. RankAt(list) = [n \in DOMAIN list |-> RankAt(list)[n]]
    BY DEF RankAt
  <2> QED  BY <1>2, <2>1
<1> QED  BY <1>2, <1>3, <1>4

\* Clustered reads the list in another order: group by group, and within a
\* group as it was.
LEMMA ClusteredOrder ==
  ASSUME NEW S, NEW list \in Seq(S)
  PROVE  /\ Clustered(list) = [n \in DOMAIN list |-> list[OrderOf(list)[n]]]
         /\ Lists(OrderOf(list), DOMAIN list)
         /\ \A m, n \in DOMAIN list : m < n =>
              LET i == OrderOf(list)[m]  j == OrderOf(list)[n]
              IN  IF RankAt(list)[i] = RankAt(list)[j] THEN i < j
                  ELSE RankAt(list)[i] < RankAt(list)[j]
<1> DEFINE at == DOMAIN list
           rank == RankAt(list)
           order == OrderOf(list)
           before == ByValue(at, rank, FALSE)
<1>1. Len(list) \in Nat /\ at = 1 .. Len(list) /\ at \in SUBSET Nat
  OBVIOUS
<1>2. rank \in [at -> Nat]
  BY <1>1, RankFirst
<1>3. IsFiniteSet(at) /\ Cardinality(at) = Len(list)
  BY <1>1, FS_Interval
<1>4. IsOrder(before, at)
  <2> HIDE DEF at, rank
  <2> QED  BY <1>1, <1>2, ByValueOrders
<1>5. /\ Lists(order, at)
      /\ \A m, n \in DOMAIN order : m < n => order[m] \in before[order[n]]
  <2> HIDE DEF at, before
  <2> QED  BY <1>3, <1>4, Ordered DEF OrderOf, before, at
<1>6. DOMAIN order = at /\ \A n \in at : order[n] \in at
  BY <1>1, <1>3, <1>5 DEF Lists
<1>7. \A i, j \in at : i \in before[j] => IF rank[i] = rank[j] THEN i < j ELSE rank[i] < rank[j]
  BY DEF ByValue
<1>8. before = [n \in at |-> {m \in at : IF rank[m] = rank[n] THEN m < n ELSE rank[m] < rank[n]}]
  BY DEF ByValue
<1>9. Clustered(list) = [n \in at |-> list[order[n]]]
  <2>1. rank = [n \in at |-> CHOOSE m \in at :
                  GroupAt(list)[m] = GroupAt(list)[n] /\ \A k \in 1 .. m - 1 : GroupAt(list)[k] # GroupAt(list)[n]]
    BY DEF RankAt, IsFirst
  <2> HIDE DEF rank
  <2>2. order = InOrder([n \in at |-> {m \in at : IF rank[m] = rank[n] THEN m < n ELSE rank[m] < rank[n]}])
    BY <1>8 DEF OrderOf, rank
  <2> HIDE DEF order
  <2> QED  BY <2>1, <2>2 DEF Clustered, GroupAt
<1> HIDE DEF at, rank, order, before
<1>10. ASSUME NEW m \in at, NEW n \in at, m < n
       PROVE  IF rank[order[m]] = rank[order[n]] THEN order[m] < order[n]
              ELSE rank[order[m]] < rank[order[n]]
  BY <1>5, <1>6, <1>7, <1>10
<1> QED  BY <1>5, <1>9, <1>10 DEF at, rank, order

\* Clustered lists what its list does.
LEMMA ClusteredLists ==
  ASSUME NEW S, NEW list, Lists(list, S)
  PROVE  Lists(Clustered(list), S)
<1> DEFINE at == DOMAIN list
           order == OrderOf(list)
           all == Clustered(list)
<1>1. list \in Seq(S) /\ Len(list) \in Nat /\ at = 1 .. Len(list)
  BY DEF Lists
<1>2. all = [n \in at |-> list[order[n]]] /\ Lists(order, at)
  BY <1>1, ClusteredOrder
<1>3. IsFiniteSet(at) /\ Cardinality(at) = Len(list)
  BY <1>1, FS_Interval
<1>4. DOMAIN order = at /\ \A n \in at : order[n] \in at
  <2>1. order \in Seq(at) /\ Len(order) = Len(list)
    BY <1>2, <1>3 DEF Lists
  <2> HIDE DEF order
  <2> QED  BY <1>1, <2>1
<1> HIDE DEF order, all
<1>5. all \in [1 .. Len(list) -> S]
  BY <1>1, <1>2, <1>4
<1>6. all \in Seq(S) /\ Len(all) = Cardinality(S) /\ DOMAIN all = at
  BY <1>1, <1>5 DEF Lists
<1>7. ASSUME NEW i \in S PROVE \E n \in at : all[n] = i
  <2>1. PICK m \in at : list[m] = i
    BY DEF Lists
  <2>2. PICK n \in at : order[n] = m
    BY <1>2, <1>4 DEF Lists
  <2> QED  BY <1>2, <2>1, <2>2
<1>8. ASSUME NEW m \in at, NEW n \in at, all[m] = all[n] PROVE m = n
  <2>1. order[m] = order[n]
    BY <1>2, <1>4, <1>8 DEF Lists
  <2> QED  BY <1>2, <1>4, <2>1 DEF Lists
<1> HIDE DEF at
<1> QED  BY <1>6, <1>7, <1>8 DEF Lists, all

-----------------------------------------------------------------------------
(* What Search returns.                                                    *)

ListOf(p) ==
  LET sorted == Sorted(p, DirectionResolver)
  IN  IF p.group THEN Clustered(sorted) ELSE sorted

\* The table without its pages: every matching row, once.
LEMMA ListOfLists ==
  ASSUME SInv, NEW p \in Query
  PROVE  /\ Lists(ListOf(p), Matching(p, DirectionResolver))
         /\ ListOf(p) \in Seq(Listed)
         /\ Len(ListOf(p)) \in 0 .. MaxRows
         /\ Len(ListOf(p)) = Cardinality(Matching(p, DirectionResolver))
<1>1. Lists(Sorted(p, DirectionResolver), Matching(p, DirectionResolver))
  BY SortedLists
<1>2. Lists(Clustered(Sorted(p, DirectionResolver)), Matching(p, DirectionResolver))
  BY <1>1, ClusteredLists
<1>3. Lists(ListOf(p), Matching(p, DirectionResolver))
  BY <1>1, <1>2 DEF ListOf
<1>4. /\ ListOf(p) \in Seq(Matching(p, DirectionResolver))
      /\ Len(ListOf(p)) = Cardinality(Matching(p, DirectionResolver))
  BY <1>3 DEF Lists
<1>5. ListOf(p) \in Seq(Listed)
  BY <1>4, MatchingType, SeqMonotonic
<1> QED  BY <1>3, <1>4, <1>5, MatchingType

\* The page that starts after `first` rows.
LEMMA SearchPage ==
  ASSUME SInv, NEW p \in Query, NEW first \in Nat, NEW length \in Nat
  PROVE  LET list == ListOf(p)
             found == Search(p, first, length)
             start == PageStart(Len(list), first)
             end == PageEnd(Len(list), start, length)
         IN  /\ found.recordsFiltered = Len(list)
             /\ DOMAIN found.data = 1 .. end - start
             /\ \A n \in 1 .. end - start :
                  /\ found.data[n].row = list[start + n]
                  /\ found.data[n].group = GroupKey(records[list[start + n]])
             /\ found.continuesAbove = (p.group /\ ContinuesAbove(list, start, end))
             /\ found.continuesBelow = (p.group /\ ContinuesBelow(list, start, end))
<1> DEFINE list == ListOf(p)
           start == PageStart(Len(list), first)
           end == PageEnd(Len(list), start, length)
<1>1. Search(p, first, length) = Page(p, list, DirectionResolver, start, end)
  BY DEF Search, PageFrom, ListOf
<1> HIDE DEF list, start, end
<1>2. \A x, y : Page(p, list, DirectionResolver, x, y) =
        [recordsTotal    |-> Cardinality(Listed),
         recordsFiltered |-> Len(list),
         data |-> Page(p, list, DirectionResolver, x, y).data,
         continuesAbove |-> p.group /\ ContinuesAbove(list, x, y),
         continuesBelow |-> p.group /\ ContinuesBelow(list, x, y)]
  BY DEF Page
<1>3. /\ DOMAIN Page(p, list, DirectionResolver, start, end).data = 1 .. end - start
      /\ \A n \in 1 .. end - start :
           /\ Page(p, list, DirectionResolver, start, end).data[n].row = list[start + n]
           /\ Page(p, list, DirectionResolver, start, end).data[n].group = GroupKey(records[list[start + n]])
  BY DEF Page
<1> QED  BY <1>1, <1>2, <1>3 DEF list, start, end

\* The page that is as long as the table can be is the table.
LEMMA WholeTable ==
  ASSUME SInv, NEW p \in Query
  PROVE  /\ Whole(p).recordsFiltered = Len(ListOf(p))
         /\ DOMAIN Whole(p).data = 1 .. Len(ListOf(p))
         /\ \A n \in 1 .. Len(ListOf(p)) :
              /\ Whole(p).data[n].row = ListOf(p)[n]
              /\ Whole(p).data[n].group = GroupKey(records[ListOf(p)[n]])
<1> DEFINE list == ListOf(p)
           start == PageStart(Len(list), 0)
           end == PageEnd(Len(list), start, MaxRows)
           found == Search(p, 0, MaxRows)
<1>1. Len(list) \in Nat /\ MaxRows \in Nat /\ Len(list) <= MaxRows
  BY ListOfLists, SearchAssumption
<1>2. /\ found.recordsFiltered = Len(list)
      /\ DOMAIN found.data = 1 .. end - start
      /\ \A n \in 1 .. end - start :
           /\ found.data[n].row = list[start + n]
           /\ found.data[n].group = GroupKey(records[list[start + n]])
  BY <1>1, SearchPage
<1> HIDE DEF list
<1>3. start = 0 /\ end = Len(list)
  BY <1>1 DEF PageStart, PageEnd
<1>4. end - start = Len(list) /\ \A n \in 1 .. Len(list) : start + n = n
  BY <1>1, <1>3
<1> HIDE DEF start, end, found
<1>5. \A n \in 1 .. Len(list) : found.data[n].row = list[n] /\ found.data[n].group = GroupKey(records[list[n]])
  BY <1>2, <1>4
<1> QED  BY <1>2, <1>4, <1>5 DEF list, found, Whole

-----------------------------------------------------------------------------
(* The direction cards.                                                    *)

LEMMA CardsMatch == SInv => CardsMatchTable
<1> SUFFICES ASSUME SInv, NEW p \in Queries
             PROVE  /\ Stats(p).total = Whole(p).recordsFiltered
                    /\ \A d \in Directions :
                         Stats(p).card[d] = Whole([p EXCEPT !.direction = d]).recordsFiltered
  BY DEF CardsMatchTable, Directions
<1> DEFINE at(d) == {i \in {j \in Listed : RecordMatches(records[j], p)} : DirectionResolver[i] = d}
<1>1. p \in Query
  BY SearchAssumption
<1>2. Stats(p).total = Cardinality(Matching(p, DirectionResolver))
  <2>1. Matching(p, DirectionResolver) =
          {i \in {j \in Listed : RecordMatches(records[j], p)} : p.direction \in {"", DirectionResolver[i]}}
    BY DEF Matching
  <2> QED  BY <2>1 DEF Stats
<1>3. ASSUME NEW d \in Directions
      PROVE  Stats(p).card[d] = Whole([p EXCEPT !.direction = d]).recordsFiltered
  <2> DEFINE q == [p EXCEPT !.direction = d]
  <2>1. q \in Query /\ q.servers = p.servers /\ q.status = p.status /\ q.direction = d /\ d # ""
    BY <1>1, DirectionType DEF Query
  <2>2. Stats(p).card[d] = Cardinality(at(d))
    BY DEF Stats, Directions
  <2> HIDE DEF q
  <2>3. Matching(q, DirectionResolver) = at(d)
    BY <2>1 DEF Matching, RecordMatches
  <2>4. Whole(q).recordsFiltered = Cardinality(Matching(q, DirectionResolver))
    BY <2>1, WholeTable, ListOfLists
  <2> QED  BY <2>2, <2>3, <2>4 DEF q
<1> QED  BY <1>1, <1>2, <1>3, WholeTable, ListOfLists

\* For every query and in every reachable state a direction card counts the
\* rows that the table lists when the card is chosen, and the total of the
\* cards is that of the table.
THEOREM CardsCountTheTable == Spec => []CardsMatchTable
BY CardsMatch, SInvAlways, PTL

-----------------------------------------------------------------------------
(* The pages.                                                              *)

LEMMA RowsOfWhole ==
  ASSUME SInv, NEW p \in Query
  PROVE  RowsOf(Whole(p)) = ListOf(p) /\ Len(Whole(p).data) = Len(ListOf(p))
<1>1. ListOf(p) \in Seq(Listed) /\ Len(ListOf(p)) \in Nat
  BY ListOfLists
<1>2. ListOf(p) = [n \in 1 .. Len(ListOf(p)) |-> ListOf(p)[n]]
  BY <1>1
<1>3. RowsOf(Whole(p)) = ListOf(p)
  BY <1>2, WholeTable DEF RowsOf
<1>4. Len(Whole(p).data) = Len(ListOf(p))
  <2>1. \E data : /\ data = Whole(p).data
                  /\ data = [n \in 1 .. Len(ListOf(p)) |-> data[n]]
    <3>1. Whole(p).data = [n \in DOMAIN Whole(p).data |-> Whole(p).data[n]]
      BY DEF Whole, Search, PageFrom, Page
    <3> QED  BY <3>1, WholeTable
  <2> QED  BY <1>1, <2>1
<1> QED  BY <1>3, <1>4

LEMMA Tiles == SInv => PagesTile
<1> SUFFICES ASSUME SInv, NEW p \in Queries
             PROVE  /\ Len(Whole(p).data) = Whole(p).recordsFiltered
                    /\ Tile(p, RowsOf(Whole(p)))
  BY DEF PagesTile
<1> DEFINE list == ListOf(p)
<1>1. p \in Query
  BY SearchAssumption
<1>2. RowsOf(Whole(p)) = list /\ Len(Whole(p).data) = Len(list) /\ Whole(p).recordsFiltered = Len(list)
  BY <1>1, RowsOfWhole, WholeTable
<1>3. list \in Seq(Listed) /\ Len(list) \in Nat /\ \A m, n \in DOMAIN list : list[m] = list[n] => m = n
  BY <1>1, ListOfLists DEF Lists
<1>4. ASSUME NEW length \in 1 .. MaxRows, NEW first \in Nat
      PROVE  RowsOf(Search(p, first, length))
               = SubSeq(list, first + 1, PageEnd(Len(list), first, length))
  <2> DEFINE start == PageStart(Len(list), first)
             end == PageEnd(Len(list), start, length)
             found == Search(p, first, length)
  <2>1. /\ DOMAIN found.data = 1 .. end - start
        /\ \A n \in 1 .. end - start : found.data[n].row = list[start + n]
    BY <1>1, SearchPage
  <2> HIDE DEF list, found
  <2>2. RowsOf(found) = [n \in 1 .. end - start |-> list[start + n]]
    <3> HIDE DEF start, end
    <3> QED  BY <2>1 DEF RowsOf
  <2>3. CASE first <= Len(list)
    <3>1. start = first /\ end \in Nat /\ end <= Len(list) /\ end = PageEnd(Len(list), first, length)
      BY <1>3, <2>3 DEF PageStart, PageEnd
    <3> HIDE DEF start, end
    <3>2. SubSeq(list, first + 1, end) = [n \in 1 .. end - first |-> list[first + n]]
      BY <1>3, <2>3, <3>1
    <3> QED  BY <2>2, <3>1, <3>2 DEF found
  <2>4. CASE first > Len(list)
    <3>1. start = Len(list) /\ end = Len(list) /\ PageEnd(Len(list), first, length) = Len(list)
      BY <1>3, <2>4 DEF PageStart, PageEnd
    <3>2. end - start = 0
      BY <1>3, <3>1
    <3>3. RowsOf(found) = <<>>
      BY <2>2, <3>2
    <3>4. SubSeq(list, first + 1, Len(list)) = <<>>
      BY <1>3, <2>4, SubSeqEmpty
    <3> QED  BY <3>1, <3>3, <3>4 DEF found
  <2> QED  BY <1>3, <2>3, <2>4
<1>5. ASSUME NEW length \in 1 .. MaxRows, NEW k \in 0 .. Len(list) \div length
      PROVE  k * length \in Nat
  BY <1>3
<1> HIDE DEF list
<1>6. Tile(p, list)
  BY <1>3, <1>4, <1>5 DEF Tile
<1> QED  BY <1>2, <1>6

\* For every query, page length and reachable state, the pages are consecutive
\* parts of one list that has every matching row once.
THEOREM PagesTileTheTable == Spec => []PagesTile
BY Tiles, SInvAlways, PTL

-----------------------------------------------------------------------------
(* Between two pages.                                                      *)

LEMMA Edges == SInv => EdgesAgree
<1> SUFFICES ASSUME SInv, NEW p \in Queries, p.group
             PROVE  EdgesAreTrue(p, Whole(p).data)
  BY DEF EdgesAgree
<1> DEFINE list == ListOf(p)
           all == Whole(p).data
<1>1. p \in Query
  BY SearchAssumption
<1>2. /\ Len(all) = Len(list) /\ Len(list) \in Nat
      /\ \A n \in 1 .. Len(list) : all[n].group = GroupKey(records[list[n]])
  BY <1>1, RowsOfWhole, WholeTable, ListOfLists
<1>3. ASSUME NEW cut \in 1 .. Len(all) - 1, NEW length \in 1 .. cut
      PROVE  EdgeIs(all[cut].group = all[cut + 1].group,
                    Search(p, cut - length, length), Search(p, cut, length))
  <2> DEFINE upper == Search(p, cut - length, length)
             lower == Search(p, cut, length)
             same == GroupKey(records[list[cut]]) = GroupKey(records[list[cut + 1]])
             from == PageStart(Len(list), cut - length)
             start == PageStart(Len(list), cut)
             mid == PageEnd(Len(list), from, length)
             end == PageEnd(Len(list), start, length)
  <2>1. /\ cut \in Nat /\ length \in Nat /\ length > 0 /\ cut > 0 /\ cut < Len(list)
        /\ cut - length \in Nat /\ cut - length < cut
        /\ cut \in 1 .. Len(list) /\ cut + 1 \in 1 .. Len(list)
    BY <1>2
  <2>2. (all[cut].group = all[cut + 1].group) = same
    BY <1>2, <2>1
  <2>3. upper.continuesBelow = (p.group /\ ContinuesBelow(list, from, mid))
    BY <1>1, <2>1, SearchPage
  <2>4. lower.continuesAbove = (p.group /\ ContinuesAbove(list, start, end))
    BY <1>1, <2>1, SearchPage
  <2> HIDE DEF list, upper, lower, all
  <2>5. from = cut - length /\ mid = cut /\ start = cut /\ end > cut
    BY <1>2, <2>1 DEF PageStart, PageEnd
  <2> HIDE DEF from, mid, start, end
  <2>6. ContinuesBelow(list, from, mid) <=> same
    BY <2>1, <2>5 DEF ContinuesBelow
  <2>7. ContinuesAbove(list, start, end) <=> same
    BY <2>1, <2>5 DEF ContinuesAbove
  <2>8. (p.group /\ ContinuesBelow(list, from, mid)) = same /\ (p.group /\ ContinuesAbove(list, start, end)) = same
    BY <2>6, <2>7
  <2> HIDE DEF same
  <2> QED  BY <2>2, <2>3, <2>4, <2>8 DEF EdgeIs, upper, lower
<1> HIDE DEF all
<1>4. EdgesAreTrue(p, all)
  BY <1>3 DEF EdgesAreTrue
<1> QED  BY <1>4 DEF all

\* Two adjacent pages, of whatever length, tell the same about the group at the
\* cut between them, and what they tell is true.
THEOREM EdgesTellTheTruth == Spec => []EdgesAgree
BY Edges, SInvAlways, PTL

-----------------------------------------------------------------------------
(* The groups.                                                             *)

LEMMA Groups == SInv => GroupsStandTogether
<1> SUFFICES ASSUME SInv, NEW p \in Queries, p.group
             PROVE  SameRowsGrouped(Whole(p).data, Whole([p EXCEPT !.group = FALSE]).data)
  BY DEF GroupsStandTogether
<1> DEFINE q == [p EXCEPT !.group = FALSE]
           list == Whole(p).data
           flat == Whole(q).data
           rows == ListOf(q)
           order == OrderOf(rows)
           rank == RankAt(rows)
           c == Len(rows)
<1>1. p \in Query /\ q \in Query /\ q.group = FALSE
  <2>1. p \in Query
    BY SearchAssumption
  <2> QED  BY <2>1 DEF Query
<1>2. /\ rows = Sorted(p, DirectionResolver)
      /\ ListOf(p) = Clustered(rows)
  <2>1. /\ q.servers = p.servers /\ q.status = p.status /\ q.direction = p.direction
        /\ q.column = p.column /\ q.desc = p.desc
    BY <1>1 DEF Query
  <2> HIDE DEF q
  <2>2. Matching(q, DirectionResolver) = Matching(p, DirectionResolver)
    BY <2>1 DEF Matching, RecordMatches
  <2>3. Sorted(q, DirectionResolver) = Sorted(p, DirectionResolver)
    BY <2>1, <2>2 DEF Sorted
  <2> QED  BY <1>1, <2>3 DEF ListOf
<1> HIDE DEF q
<1>3. /\ rows \in Seq(Listed) /\ c \in Nat /\ DOMAIN rows = 1 .. c
      /\ \A m, n \in 1 .. c : rows[m] = rows[n] => m = n
  <2>1. rows \in Seq(Listed) /\ Lists(rows, Matching(q, DirectionResolver))
    BY <1>1, ListOfLists
  <2> QED  BY <2>1 DEF Lists
<1>4. /\ DOMAIN flat = 1 .. c
      /\ \A n \in 1 .. c : flat[n].row = rows[n] /\ flat[n].group = GroupAt(rows)[n]
  BY <1>1, <1>3, WholeTable DEF GroupAt
<1>5. /\ Clustered(rows) = [n \in 1 .. c |-> rows[order[n]]]
      /\ Lists(order, 1 .. c)
      /\ \A m, n \in 1 .. c : m < n =>
           IF rank[order[m]] = rank[order[n]] THEN order[m] < order[n]
           ELSE rank[order[m]] < rank[order[n]]
  BY <1>3, ClusteredOrder
<1>6. /\ rank \in [1 .. c -> 1 .. c]
      /\ \A n \in 1 .. c : IsFirst(rows, rank[n], n)
      /\ \A m, n \in 1 .. c : rank[m] = rank[n] <=> GroupAt(rows)[m] = GroupAt(rows)[n]
  BY <1>3, RankFirst
<1> HIDE DEF rows, order, rank, flat, list, c
<1>7. /\ DOMAIN order = 1 .. c
      /\ \A n \in 1 .. c : order[n] \in 1 .. c
      /\ \A k \in 1 .. c : \E n \in 1 .. c : order[n] = k
  <2>1. Cardinality(1 .. c) = c
    BY <1>3, FS_Interval
  <2>2. order \in Seq(1 .. c) /\ Len(order) = c
    BY <1>5, <2>1 DEF Lists
  <2>3. DOMAIN order = 1 .. c /\ \A n \in 1 .. c : order[n] \in 1 .. c
    BY <1>3, <2>2
  <2> QED  BY <1>5, <2>3, Zenon DEF Lists
<1>8. /\ DOMAIN list = 1 .. c
      /\ \A n \in 1 .. c : /\ list[n].row = rows[order[n]]
                           /\ list[n].group = GroupAt(rows)[order[n]]
  <2>1. Len(ListOf(p)) = c /\ \A n \in 1 .. c : ListOf(p)[n] = rows[order[n]]
    BY <1>2, <1>3, <1>5
  <2>2. \A n \in 1 .. c : GroupAt(rows)[order[n]] = GroupKey(records[rows[order[n]]])
    BY <1>3, <1>7 DEF GroupAt
  <2> QED  BY <1>1, <2>1, <2>2, WholeTable DEF list
<1> DEFINE At(x) == CHOOSE n \in DOMAIN flat : flat[n].row = x.row
           First(x) == CHOOSE n \in DOMAIN flat :
             flat[n].group = x.group /\ \A k \in 1 .. n - 1 : flat[k].group # x.group
<1> DEFINE g(n) == list[n].group
           row(n) == list[n].row
<1>9. ASSUME NEW n \in 1 .. c
       PROVE  /\ order[n] \in 1 .. c /\ rank[order[n]] \in 1 .. c
              /\ row(n) = rows[order[n]] /\ row(n) = flat[order[n]].row
              /\ g(n) = GroupAt(rows)[order[n]] /\ IsFirst(rows, rank[order[n]], order[n])
  <2>1. order[n] \in 1 .. c
    BY <1>7
  <2>2. rank[order[n]] \in 1 .. c /\ IsFirst(rows, rank[order[n]], order[n])
    BY <1>6, <2>1
  <2>3. row(n) = rows[order[n]] /\ g(n) = GroupAt(rows)[order[n]]
    BY <1>8
  <2>4. flat[order[n]].row = rows[order[n]]
    BY <1>4, <2>1
  <2>5. row(n) = flat[order[n]].row
    BY <2>3, <2>4, Zenon
  <2> QED  BY <2>1, <2>2, <2>3, <2>5, Zenon
<1>10. ASSUME NEW m \in 1 .. c, NEW n \in 1 .. c
       PROVE  rank[order[m]] = rank[order[n]] <=> g(m) = g(n)
  <2>1. order[m] \in 1 .. c /\ order[n] \in 1 .. c
    BY <1>7
  <2>2. rank[order[m]] = rank[order[n]] <=> GroupAt(rows)[order[m]] = GroupAt(rows)[order[n]]
    BY <1>6, <2>1, Zenon
  <2>3. g(m) = GroupAt(rows)[order[m]] /\ g(n) = GroupAt(rows)[order[n]]
    BY <1>9, Zenon
  <2> QED  BY <2>2, <2>3, Zenon
<1> HIDE DEF g, row
<1>11. ASSUME NEW n \in 1 .. c PROVE At(list[n]) = order[n]
  <2>1. order[n] \in 1 .. c /\ flat[order[n]].row = list[n].row
    BY <1>4, <1>7, <1>8
  <2>2. ASSUME NEW k \in 1 .. c, flat[k].row = list[n].row PROVE k = order[n]
    <3>1. rows[k] = rows[order[n]]
      BY <1>4, <1>9, <2>2 DEF row
    <3> QED  BY <1>3, <2>1, <3>1
  <2> QED  BY <1>4, <2>1, <2>2
<1>12. ASSUME NEW n \in 1 .. c PROVE First(list[n]) = rank[order[n]]
  <2> DEFINE k == rank[order[n]]  key == list[n].group
  <2>1. k \in 1 .. c /\ IsFirst(rows, k, order[n]) /\ key = GroupAt(rows)[order[n]]
    BY <1>6, <1>7, <1>8
  <2> HIDE DEF k, key
  <2>2. k \in 1 .. c /\ flat[k].group = key /\ \A j \in 1 .. k - 1 : flat[j].group # key
    <3>1. \A j \in 1 .. k - 1 : j \in 1 .. c
      BY <1>3, <2>1
    <3> QED  BY <1>4, <2>1, <3>1 DEF IsFirst
  <2>3. \A m \in 1 .. c :
          flat[m].group = key /\ (\A j \in 1 .. m - 1 : flat[j].group # key) => m = k
    <3>1. ASSUME NEW m \in 1 .. c, flat[m].group = key, \A j \in 1 .. m - 1 : flat[j].group # key
          PROVE  m = k
      <4>1. k \notin 1 .. m - 1 /\ m \notin 1 .. k - 1
        BY <2>2, <3>1
      <4> QED  BY <1>3, <2>2, <4>1
    <3> QED  BY <3>1
  <2> QED  BY <1>4, <2>2, <2>3 DEF k, key
<1> HIDE DEF At, First
<1>13. {list[n].row : n \in DOMAIN list} = {flat[n].row : n \in DOMAIN flat}
  <2>1. \A n \in 1 .. c : \E m \in 1 .. c : row(n) = flat[m].row
    BY <1>9
  <2>2. ASSUME NEW m \in 1 .. c PROVE \E n \in 1 .. c : flat[m].row = row(n)
    <3>1. PICK n \in 1 .. c : order[n] = m
      BY <1>7
    <3> QED  BY <1>9, <3>1
  <2>3. {row(n) : n \in 1 .. c} = {flat[n].row : n \in 1 .. c}
    BY <2>1, <2>2
  <2> QED  BY <1>4, <1>8, <2>3 DEF row
<1>14. ASSUME NEW m \in 1 .. c, NEW n \in 1 .. c, m < n, list[m].group = list[n].group
       PROVE  /\ At(list[m]) < At(list[n])
              /\ \A k \in m .. n : list[k].group = list[m].group
  <2>1. rank[order[m]] = rank[order[n]]
    BY <1>14, <1>10 DEF g
  <2>2. order[m] < order[n]
    BY <1>5, <1>14, <2>1
  <2>3. ASSUME NEW k \in m .. n PROVE list[k].group = list[m].group
    <3>1. k \in 1 .. c /\ (k = m \/ k = n \/ (m < k /\ k < n))
      BY <1>3
    <3>2. CASE m < k /\ k < n
      <4>1. /\ rank[order[m]] \in Nat /\ rank[order[k]] \in Nat
            /\ rank[order[m]] = rank[order[k]] \/ rank[order[m]] < rank[order[k]]
            /\ rank[order[k]] = rank[order[n]] \/ rank[order[k]] < rank[order[n]]
        BY <1>3, <1>5, <1>9, <3>1, <3>2
      <4>2. rank[order[k]] = rank[order[m]]
        BY <2>1, <4>1
      <4> QED  BY <1>10, <3>1, <4>2 DEF g
    <3> QED  BY <1>14, <3>1, <3>2
  <2> QED  BY <1>11, <2>2, <2>3
<1>15. ASSUME NEW m \in 1 .. c, NEW n \in 1 .. c, m < n, list[m].group # list[n].group
       PROVE  First(list[m]) < First(list[n])
  <2>1. rank[order[m]] # rank[order[n]]
    BY <1>15, <1>10 DEF g
  <2> QED  BY <1>5, <1>12, <1>15, <2>1
<1>16. \A m, n \in DOMAIN list : m < n =>
           IF list[m].group = list[n].group
           THEN /\ At(list[m]) < At(list[n])
                /\ \A k \in m .. n : list[k].group = list[m].group
           ELSE First(list[m]) < First(list[n])
  BY <1>8, <1>14, <1>15
<1>17. SameRowsGrouped(list, flat)
  BY <1>13, <1>16 DEF SameRowsGrouped, At, First
<1> QED  BY <1>17 DEF list, flat, q

\* Grouping brings the rows of a message together and changes neither the
\* rows, nor their order within a message, nor which message comes first.
THEOREM GroupingKeepsOrder == Spec => []GroupsStandTogether
BY Groups, SInvAlways, PTL
=============================================================================
