-------------------------- MODULE PlvPersistProofs --------------------------
(***************************************************************************)
(* Proofs about PlvPersist while retention is off: the table mirrors the   *)
(* store, a restart brings the listed rows back, and the promises of the   *)
(* store hold through any number of restarts.                              *)
(*                                                                         *)
(* The invariant speaks of the table as the mail side's flush under way    *)
(* will leave it (Effect), which mirrors the store at every moment, and of *)
(* the table as it is, of which it only says that a start makes a linked   *)
(* store of it (Loadable).                                                 *)
(***************************************************************************)
EXTENDS PlvPersist, PlvMirrorProofs

\* What rspamd gives a verdict on is neither re-injected by the content
\* filter nor a re-injected leg.  Where it is, the rspamd side can flush a
\* primary that was just linked before the mail side flushes the folded leg.
OneScanner == \A q \in Scored : Leg[q] = NoQid /\ \A p \in QIDs : Leg[p] # q

Plain == QIDs \ Scored
At(t, q) == t[<<Local, q>>]

\* The table when the mail side has upserted what it captured.
Effect == FoldLeft(Upsert, db, inFlight.mail)

\* A listed row has the lines of its message, and its leg is not listed.
Loadable(t) ==
  /\ CleanTable(t, Local)
  /\ \A q \in Plain : ~At(t, q).subsumed =>
       /\ \A l \in At(t, q).lines : l.q \in {q, At(t, q).dqid}
       /\ At(t, q).dqid # NoQid => At(t, At(t, q).dqid).subsumed

\* t lists the rows of recs that are listed, but for those that rspamd
\* scores: the two sides flush such a row in either order.
Mirrors(t, recs) ==
  /\ \A i \in 1 .. Len(recs) : ~recs[i].subsumed /\ recs[i].qid \in Plain =>
       At(t, recs[i].qid) = recs[i]
  /\ \A q \in Plain : ~At(t, q).subsumed =>
       \E i \in 1 .. Len(recs) : ~recs[i].subsumed /\ recs[i].qid = q

\* Rows captured and not yet upserted.
Flushing(rows) == CleanRows(rows) /\ \A m \in 1 .. Len(rows) : rows[m].origin = Local

UnderWay ==
  /\ inFlight \in [Worker -> Seq(Record)]
  /\ Flushing(inFlight.mail) /\ Flushing(inFlight.rspamd)
  /\ \A m \in 1 .. Len(inFlight.rspamd) : inFlight.rspamd[m].qid \in Scored

Kept == IInv /\ Links /\ Held /\ AllShown

PInv == Kept /\ UnderWay /\ Loadable(db) /\ Mirrors(Effect, records) /\ deleting = 0

-----------------------------------------------------------------------------
(* A start.                                                                *)

\* r is a row of t that a start lists.
Loaded(t, r) ==
  /\ Clean(r) /\ ~r.subsumed /\ r.origin = Local /\ r = At(t, r.qid)
  /\ \A l \in r.lines : l.q \in {r.qid, r.dqid}
  /\ r.dqid # NoQid => /\ r.dqid = Leg[r.qid] /\ r.dqid \in QIDs
                       /\ At(t, r.dqid).subsumed

LEMMA ListedRow ==
  ASSUME OneScanner, NEW t, Loadable(t), NEW k \in Key, ~t[k].subsumed
  PROVE  Loaded(t, t[k])
<1> DEFINE r == t[k]
<1>1. r # NoRow
  BY DEF NoRow
<1>2. Clean(r) /\ r.origin = Local /\ RecKey(r) = k
  BY <1>1 DEF Loadable, CleanTable
<1>3. r = At(t, r.qid)
  BY <1>2 DEF RecKey, At
<1> HIDE DEF r
<1>4. r.qid \in QIDs /\ r.dqid \in {NoQid, Leg[r.qid]} /\ Leg[r.qid] \in QIDs \cup {NoQid}
  BY <1>2, LegAssumption DEF Clean, Record
<1>5. CASE r.qid \in Scored
  <2>1. Leg[r.qid] = NoQid /\ r.dqid = NoQid
    BY <1>4, <1>5 DEF OneScanner
  <2> QED  BY <1>2, <1>3, <2>1 DEF Loaded, Clean, r
<1>6. CASE r.qid \in Plain
  <2>1. /\ \A l \in r.lines : l.q \in {r.qid, r.dqid}
        /\ r.dqid # NoQid => At(t, r.dqid).subsumed
    BY <1>3, <1>6 DEF Loadable, r
  <2> QED  BY <1>2, <1>3, <1>4, <2>1 DEF Loaded, r
<1> QED  BY <1>4, <1>5, <1>6 DEF Plain

\* A store made of listed rows of t, with every onward id linked.
Built(t, s) ==
  /\ Sound(s)
  /\ \A i \in 1 .. Len(s.recs) :
       /\ Loaded(t, s.recs[i])
       /\ s.byQ[<<Local, s.recs[i].qid>>] = i
       /\ s.recs[i].dqid # NoQid => /\ s.byD[<<Local, s.recs[i].dqid>>] = i
                                    /\ s.byQ[<<Local, s.recs[i].dqid>>] = i
  /\ \A q \in QIDs : KeyLinked(s, q)

\* A listed row that comes next is in the store afterwards.
LEMMA LoadRowBuilt ==
  ASSUME NEW t, NEW s, Built(t, s), NEW r, Loaded(t, r)
  PROVE  /\ Built(t, LoadRow(s, r))
         /\ \E i \in 1 .. Len(LoadRow(s, r).recs) : LoadRow(s, r).recs[i] = r
         /\ \A i \in 1 .. Len(s.recs) :
              i \in 1 .. Len(LoadRow(s, r).recs) /\ LoadRow(s, r).recs[i] = s.recs[i]
<1> DEFINE k == <<Local, r.qid>>
           d == <<Local, r.dqid>>
           i == Len(s.recs) + 1
           u == [recs |-> Append(s.recs, r), byQ |-> [s.byQ EXCEPT ![k] = i],
                 byD |-> s.byD]
           v == LoadRow(s, r)
<1>1. /\ s = [recs |-> s.recs, byQ |-> s.byQ, byD |-> s.byD]
      /\ s.recs \in Seq(Record) /\ Len(s.recs) \in Nat
      /\ s.byQ \in [Key -> Nat] /\ s.byD \in [Key -> Nat]
      /\ \A h \in Key : s.byQ[h] \in 0 .. Len(s.recs)
      /\ \A j \in 1 .. Len(s.recs) : s.recs[j] \in Record /\ s.recs[j].qid \in QIDs
  BY Parts DEF Built
<1>2. \A q \in QIDs : <<Local, q>> \in Key
  BY LogAssumption DEF Key
<1>3. r \in Record /\ r.qid \in QIDs /\ RecKey(r) = k /\ OnwardKey(r) = d /\ ~r.subsumed
  BY DEF Loaded, Clean, Record, RecKey, OnwardKey
<1>4. CASE s.byQ[k] # 0
  <2> DEFINE j == s.byQ[k]
  <2>1. v = s
    BY <1>3, <1>4 DEF LoadRow
  <2>2. j \in 1 .. Len(s.recs)
    BY <1>1, <1>2, <1>3, <1>4
  <2>3. r.qid \in {s.recs[j].qid, s.recs[j].dqid} /\ Loaded(t, s.recs[j])
    BY <1>3, <1>4, <2>2 DEF Built, KeyLinked
  <2> HIDE DEF j, v
  <2>4. r.qid # NoQid
    BY <1>3, LegAssumption
  <2>5. s.recs[j] = r
    BY <2>3, <2>4 DEF Loaded
  <2> QED  BY <2>1, <2>2, <2>5 DEF v
<1>5. CASE s.byQ[k] = 0
  <2>1. v = AddFinished(s, r)
    BY <1>3, <1>5 DEF LoadRow
  <2>2. /\ u.recs \in Seq(Record) /\ Len(u.recs) = i /\ u.recs[i] = r
        /\ \A j \in 1 .. Len(s.recs) : u.recs[j] = s.recs[j]
    BY <1>1, <1>3, AppendProperties
  <2>3. v = RestoreDeliveryLink(u, i)
    BY <1>3, <2>1 DEF AddFinished
  <2>4. u.byD = s.byD /\ u.byQ = [s.byQ EXCEPT ![k] = i]
    OBVIOUS
  <2>5. u = [recs |-> u.recs, byQ |-> u.byQ, byD |-> u.byD]
    OBVIOUS
  <2> HIDE DEF u, v
  \* No row loaded so far has the onward id or is of this queue id.
  <2>6. r.dqid # NoQid =>
          /\ r.dqid = Leg[r.qid] /\ r.dqid \in QIDs /\ d \in Key /\ d # k
          /\ At(t, r.dqid).subsumed
    BY <1>2, <1>3, LegAssumption DEF Loaded
  <2>7. ASSUME NEW j \in 1 .. Len(s.recs)
        PROVE  /\ s.recs[j].qid # r.qid
               /\ s.recs[j].dqid # NoQid => s.recs[j].dqid # r.qid
    <3>0. j # 0
      BY <1>1
    <3>1. s.byQ[<<Local, s.recs[j].qid>>] = j
      BY DEF Built
    <3>2. s.recs[j].dqid # NoQid => s.byQ[<<Local, s.recs[j].dqid>>] = j
      BY DEF Built
    <3> QED  BY <1>5, <3>0, <3>1, <3>2
  <2>8. ASSUME r.dqid # NoQid, s.byQ[d] # 0 PROVE FALSE
    <3> DEFINE j == s.byQ[d]
    <3>1. j \in 1 .. Len(s.recs)
      BY <1>1, <2>6, <2>8
    <3>2. r.dqid \in {s.recs[j].qid, s.recs[j].dqid} /\ Loaded(t, s.recs[j])
      BY <2>6, <2>8, <3>1 DEF Built, KeyLinked
    <3>3. s.recs[j].qid \in QIDs /\ s.recs[j].qid # r.qid
      BY <1>1, <2>7, <3>1
    <3> HIDE DEF j
    <3>4. CASE r.dqid = s.recs[j].qid
      BY <2>6, <2>8, <3>2, <3>4 DEF Loaded
    <3>5. CASE r.dqid = s.recs[j].dqid
      <4>1. Leg[s.recs[j].qid] = Leg[r.qid] /\ Leg[r.qid] # NoQid
        BY <2>6, <2>8, <3>2, <3>5 DEF Loaded
      <4> QED  BY <1>3, <3>3, <4>1, LegAssumption
    <3> QED  BY <3>2, <3>4, <3>5
  <2>9. ASSUME NEW j \in 1 .. Len(s.recs), r.dqid # NoQid
        PROVE  s.recs[j].dqid # r.dqid /\ s.recs[j].qid # r.dqid
    <3>1. Loaded(t, s.recs[j]) /\ s.recs[j].qid \in QIDs /\ s.recs[j].qid # r.qid
      BY <1>1, <2>7 DEF Built
    <3>2. s.recs[j].dqid # r.dqid
      <4>1. SUFFICES ASSUME s.recs[j].dqid = r.dqid PROVE FALSE
        OBVIOUS
      <4>2. Leg[s.recs[j].qid] = Leg[r.qid] /\ Leg[r.qid] # NoQid
        BY <2>6, <2>9, <3>1, <4>1 DEF Loaded
      <4> QED  BY <1>3, <3>1, <4>2, LegAssumption
    <3>3. s.recs[j].qid # r.dqid
      BY <2>6, <2>9, <3>1 DEF Loaded
    <3> QED  BY <3>2, <3>3
  <2>10. /\ v.recs = u.recs
         /\ r.dqid = NoQid => v.byQ = u.byQ /\ v.byD = u.byD
         /\ r.dqid # NoQid => /\ v.byQ = [u.byQ EXCEPT ![d] = i]
                              /\ v.byD = [s.byD EXCEPT ![d] = i]
         /\ v = [recs |-> v.recs, byQ |-> v.byQ, byD |-> v.byD]
    <3>1. OnwardKey(u.recs[i]) = d /\ u.recs[i].dqid = r.dqid
      BY <1>3, <2>2
    <3>2. CASE r.dqid = NoQid
      <4>1. v = u
        BY <2>3, <3>1, <3>2 DEF RestoreDeliveryLink
      <4> QED  BY <2>5, <3>2, <4>1
    <3>3. CASE r.dqid # NoQid
      <4>1. u.byQ[d] = 0
        BY <1>1, <2>4, <2>6, <2>8, <3>3
      <4>2. v = [u EXCEPT !.byD[d] = i, !.byQ[d] = IF u.byQ[d] = 0 THEN i ELSE u.byQ[d]]
        BY <2>3, <3>1, <3>3 DEF RestoreDeliveryLink
      <4>3. v = [recs |-> u.recs, byQ |-> [u.byQ EXCEPT ![d] = i],
                 byD |-> [u.byD EXCEPT ![d] = i]]
        <5> HIDE DEF i, d
        <5> QED  BY <2>5, <4>1, <4>2
      <4> QED  BY <2>4, <3>3, <4>3
    <3> QED  BY <3>2, <3>3
  <2>11. /\ v.byQ \in [Key -> Nat] /\ v.byD \in [Key -> Nat]
         /\ \A h \in Key : v.byQ[h] = IF h = k \/ (r.dqid # NoQid /\ h = d) THEN i
                                      ELSE s.byQ[h]
         /\ \A h \in Key : v.byD[h] = IF r.dqid # NoQid /\ h = d THEN i ELSE s.byD[h]
    <3>1. i \in Nat /\ k \in Key /\ (r.dqid # NoQid => d \in Key)
      BY <1>1, <1>2, <1>3, <2>6
    <3> HIDE DEF i, k, d
    <3>4. s.byQ \in [Key -> Nat] /\ s.byD \in [Key -> Nat]
      BY <1>1
    <3>5. /\ u.byQ \in [Key -> Nat]
          /\ \A h \in Key : u.byQ[h] = IF h = k THEN i ELSE s.byQ[h]
      BY <2>4, <3>1, <3>4
    <3>2. CASE r.dqid = NoQid
      BY <2>4, <2>10, <3>2, <3>4, <3>5
    <3>3. CASE r.dqid # NoQid
      <4>1. v.byQ = [u.byQ EXCEPT ![d] = i] /\ v.byD = [s.byD EXCEPT ![d] = i] /\ d \in Key
        BY <2>10, <3>1, <3>3
      <4> QED  BY <3>1, <3>3, <3>4, <3>5, <4>1
    <3> QED  BY <3>2, <3>3
  <2>12. /\ Len(v.recs) = i /\ i \in Nat /\ v.recs[i] = r
         /\ \A j \in 1 .. Len(s.recs) : v.recs[j] = s.recs[j]
         /\ \A j \in 1 .. i : j = i \/ j \in 1 .. Len(s.recs)
    BY <1>1, <2>2, <2>10
  <2>13. Sound(v)
    <3>1. \A h \in Key : v.byQ[h] <= Len(v.recs)
      BY <1>1, <2>11, <2>12
    <3> QED  BY <2>2, <2>10, <2>11, <3>1 DEF Sound, Store
  <2>14. ASSUME NEW j \in 1 .. Len(v.recs)
         PROVE  /\ Loaded(t, v.recs[j])
                /\ v.byQ[<<Local, v.recs[j].qid>>] = j
                /\ v.recs[j].dqid # NoQid => /\ v.byD[<<Local, v.recs[j].dqid>>] = j
                                             /\ v.byQ[<<Local, v.recs[j].dqid>>] = j
    <3>1. CASE j = i
      BY <1>2, <1>3, <2>6, <2>11, <2>12, <3>1
    <3>2. CASE j \in 1 .. Len(s.recs)
      <4> DEFINE x == s.recs[j]
      <4>1. /\ Loaded(t, x) /\ x.qid \in QIDs /\ v.recs[j] = x
            /\ s.byQ[<<Local, x.qid>>] = j
            /\ x.dqid # NoQid => /\ s.byD[<<Local, x.dqid>>] = j
                                 /\ s.byQ[<<Local, x.dqid>>] = j
                                 /\ x.dqid \in QIDs
        BY <1>1, <2>12, <3>2 DEF Built, Loaded
      <4>2. /\ x.qid # r.qid
            /\ x.dqid # NoQid => x.dqid # r.qid
            /\ r.dqid # NoQid => x.dqid # r.dqid /\ x.qid # r.dqid
        BY <2>7, <2>9, <3>2
      <4> HIDE DEF x
      <4> QED  BY <1>2, <2>11, <4>1, <4>2
    <3> QED  BY <2>12, <3>1, <3>2
  <2>15. ASSUME NEW q \in QIDs PROVE KeyLinked(v, q)
    <3> DEFINE h == <<Local, q>>
    <3>1. KeyLinked(s, q) /\ h \in Key /\ s.byQ[h] \in 0 .. Len(s.recs)
      BY <1>1, <1>2 DEF Built
    <3>2. v.byQ[h] # 0 => q \in {v.recs[v.byQ[h]].qid, v.recs[v.byQ[h]].dqid}
      <4>1. CASE h = k \/ (r.dqid # NoQid /\ h = d)
        BY <2>11, <2>12, <3>1, <4>1
      <4>2. CASE ~(h = k \/ (r.dqid # NoQid /\ h = d))
        <5>1. v.byQ[h] = s.byQ[h]
          BY <2>11, <3>1, <4>2
        <5> QED  BY <2>12, <3>1, <5>1 DEF KeyLinked
      <4> QED  BY <4>1, <4>2
    <3>3. v.byD[h] # 0 => v.byD[h] \in 1 .. Len(v.recs) /\ q = v.recs[v.byD[h]].dqid
      <4>1. CASE r.dqid # NoQid /\ h = d
        BY <2>11, <2>12, <3>1, <4>1, <1>1
      <4>2. CASE ~(r.dqid # NoQid /\ h = d)
        <5>1. v.byD[h] = s.byD[h]
          BY <2>11, <3>1, <4>2
        <5> QED  BY <1>1, <2>12, <3>1, <5>1 DEF KeyLinked
      <4> QED  BY <4>1, <4>2
    <3> QED  BY <3>2, <3>3 DEF KeyLinked
  <2>16. Built(t, v)
    BY <2>13, <2>14, <2>15 DEF Built
  <2>17. \E j \in 1 .. Len(v.recs) : v.recs[j] = r
    <3>1. i \in 1 .. Len(v.recs)
      BY <1>1, <2>12
    <3> QED  BY <2>12, <3>1
  <2>18. \A j \in 1 .. Len(s.recs) : j \in 1 .. Len(v.recs) /\ v.recs[j] = s.recs[j]
    BY <1>1, <2>12
  <2> QED  BY <2>16, <2>17, <2>18 DEF v
<1> QED  BY <1>1, <1>2, <1>3, <1>4, <1>5

\* What a start makes of a loadable table.
LoadedAs(t, s) ==
  /\ Sound(s) /\ Linked(s)
  /\ \A i \in 1 .. Len(s.recs) : /\ Expected(s, i) /\ ~s.recs[i].subsumed
                                /\ s.recs[i] = At(t, s.recs[i].qid)
  /\ \A q \in QIDs : ~At(t, q).subsumed => \E i \in 1 .. Len(s.recs) : s.recs[i] = At(t, q)

LEMMA BuiltLinked ==
  ASSUME NEW t, NEW s, Built(t, s)
  PROVE  /\ Linked(s)
         /\ \A i \in 1 .. Len(s.recs) : Expected(s, i)
<1>1. /\ Len(s.recs) \in Nat /\ s.byQ \in [Key -> Nat] /\ s.byD \in [Key -> Nat]
      /\ \A j \in 1 .. Len(s.recs) :
           /\ s.recs[j] \in Record /\ s.recs[j].qid \in QIDs
           /\ \A l \in s.recs[j].lines : l.q \in QIDs
  BY Parts DEF Built
<1>2. NoQid \notin QIDs
  BY LegAssumption
<1>3. ASSUME NEW i \in 1 .. Len(s.recs) PROVE RowLinked(s, i) /\ Expected(s, i)
  <2> DEFINE r == s.recs[i]
  <2>1. /\ Loaded(t, r) /\ r.qid \in QIDs
        /\ s.byQ[<<Local, r.qid>>] = i
        /\ r.dqid # NoQid => /\ s.byD[<<Local, r.dqid>>] = i
                             /\ s.byQ[<<Local, r.dqid>>] = i
        /\ \A l \in r.lines : l.q \in QIDs
    BY <1>1 DEF Built
  <2>2. i # 0
    BY <1>1
  <2>3. RecKey(r) = <<Local, r.qid>> /\ OnwardKey(r) = <<Local, r.dqid>>
    BY <2>1 DEF Loaded, RecKey, OnwardKey
  <2> DEFINE p == s.byD[<<Local, r.qid>>]
  <2>4. p = 0
    <3> SUFFICES ASSUME p # 0 PROVE FALSE
      OBVIOUS
    <3>1. p \in 1 .. Len(s.recs) /\ r.qid = s.recs[p].dqid
      BY <2>1 DEF Built, KeyLinked
    <3>2. Loaded(t, s.recs[p]) /\ s.recs[p].dqid # NoQid
      BY <1>2, <2>1, <3>1 DEF Built
    <3>3. At(t, r.qid).subsumed
      BY <3>1, <3>2 DEF Loaded
    <3> QED  BY <2>1, <3>3 DEF Loaded
  <2>5. \A l \in r.lines : s.byQ[<<Local, l.q>>] = i
    BY <1>2, <2>1 DEF Loaded
  <2>6. RowLinked(s, i)
    BY <2>1, <2>3, <2>4, <2>5 DEF RowLinked, Loaded, Clean
  <2>7. Expected(s, i)
    BY <2>1, <2>2, <2>3 DEF Expected
  <2> QED  BY <2>6, <2>7
<1> QED  BY <1>3 DEF Linked, Built

LEMMA LoadedLinked ==
  ASSUME OneScanner, NEW t, Loadable(t), NEW s \in LoadedFrom(t)
  PROVE  LoadedAs(t, s)
<1> DEFINE X == {x \in Store : Built(t, x)}
<1>1. CleanTable(t, Local)
  BY DEF Loadable
<1>2. PICK rows : \E n \in Nat : s = LoadFromDB(rows) /\ Enumerates(rows, n, t)
  BY <1>1, LoadedRows
<1>3. PICK n \in Nat : s = LoadFromDB(rows) /\ Enumerates(rows, n, t)
  BY <1>2
<1>4. ASSUME NEW m \in 1 .. n PROVE rows[m].subsumed \/ Loaded(t, rows[m])
  <2>1. PICK k \in Key : t[k] # NoRow /\ rows[m] = t[k]
    BY <1>3 DEF Enumerates
  <2>2. t[k] \in Record /\ t[k].subsumed \in BOOLEAN
    BY <1>1, <2>1 DEF CleanTable, Record
  <2>3. CASE ~t[k].subsumed
    BY <2>1, <2>3, ListedRow
  <2> QED  BY <2>1, <2>2, <2>3
<1>5. EmptyStore \in X
  <2>1. EmptyStore.recs = <<>> /\ <<>> \in Seq(Record) /\ Len(<<>>) = 0
    BY EmptySeq DEF EmptyStore
  <2>2. \A q \in QIDs : EmptyStore.byQ[<<Local, q>>] = 0 /\ EmptyStore.byD[<<Local, q>>] = 0
    BY LogAssumption DEF EmptyStore, Key
  <2>3. Sound(EmptyStore)
    BY <2>1 DEF Sound, Store, EmptyStore
  <2>4. Built(t, EmptyStore)
    BY <2>1, <2>2, <2>3 DEF Built, KeyLinked
  <2> QED  BY <2>3, <2>4 DEF Sound
<1>6. ASSUME NEW x \in X, NEW m \in 1 .. n
      PROVE  /\ LoadRow(x, rows[m]) \in X
             /\ ~rows[m].subsumed =>
                  \E i \in 1 .. Len(LoadRow(x, rows[m]).recs) :
                    LoadRow(x, rows[m]).recs[i] = rows[m]
             /\ \A i \in 1 .. Len(x.recs) :
                  /\ i \in 1 .. Len(LoadRow(x, rows[m]).recs)
                  /\ LoadRow(x, rows[m]).recs[i] = x.recs[i]
  <2>1. CASE rows[m].subsumed
    <3>1. LoadRow(x, rows[m]) = x
      BY <2>1 DEF LoadRow
    <3> QED  BY <2>1, <3>1
  <2>2. CASE ~rows[m].subsumed
    <3>1. Loaded(t, rows[m]) /\ Built(t, x)
      BY <1>4, <2>2
    <3> DEFINE y == LoadRow(x, rows[m])
    <3>2. /\ Built(t, y)
          /\ \E i \in 1 .. Len(y.recs) : y.recs[i] = rows[m]
          /\ \A i \in 1 .. Len(x.recs) : i \in 1 .. Len(y.recs) /\ y.recs[i] = x.recs[i]
      BY <3>1, LoadRowBuilt
    <3> HIDE DEF y
    <3>3. y \in X
      BY <3>2 DEF Built, Sound
    <3> QED  BY <3>2, <3>3 DEF y
  <2> QED  BY <2>1, <2>2
<1> HIDE DEF X
<1>7. Loading(X, EmptyStore, rows, n)
  BY <1>3, <1>5, <1>6, LoadRun DEF Enumerates
<1>8. PICK run \in [0 .. n -> X] :
        /\ run[0] = EmptyStore
        /\ \A m \in 1 .. n : run[m] = LoadRow(run[m - 1], rows[m])
        /\ run[n] = FoldLeft(LoadRow, EmptyStore, rows)
  BY <1>7 DEF Loading
<1> DEFINE Has(m) == \A l \in 1 .. m : ~rows[l].subsumed =>
                       \E i \in 1 .. Len(run[m].recs) : run[m].recs[i] = rows[l]
           T == {m \in 0 .. n : Has(m)}
<1>9. 0 \in T
  OBVIOUS
<1>10. ASSUME NEW m \in 1 .. n, m - 1 \in T PROVE m \in T
  <2>1. run[m - 1] \in X /\ run[m] = LoadRow(run[m - 1], rows[m])
    BY <1>8
  <2>2. /\ ~rows[m].subsumed => \E i \in 1 .. Len(run[m].recs) : run[m].recs[i] = rows[m]
        /\ \A i \in 1 .. Len(run[m - 1].recs) :
             i \in 1 .. Len(run[m].recs) /\ run[m].recs[i] = run[m - 1].recs[i]
    <3> DEFINE x == run[m - 1]
    <3>1. x \in X /\ run[m] = LoadRow(x, rows[m])
      BY <2>1
    <3> HIDE DEF x, T, Has
    <3>3. /\ ~rows[m].subsumed =>
               \E i \in 1 .. Len(LoadRow(x, rows[m]).recs) :
                 LoadRow(x, rows[m]).recs[i] = rows[m]
          /\ \A i \in 1 .. Len(x.recs) :
               /\ i \in 1 .. Len(LoadRow(x, rows[m]).recs)
               /\ LoadRow(x, rows[m]).recs[i] = x.recs[i]
      BY <1>6, <3>1
    <3>2. /\ ~rows[m].subsumed => \E i \in 1 .. Len(run[m].recs) : run[m].recs[i] = rows[m]
          /\ \A i \in 1 .. Len(x.recs) :
               i \in 1 .. Len(run[m].recs) /\ run[m].recs[i] = x.recs[i]
      BY <3>1, <3>3
    <3> QED  BY <3>2 DEF x
  <2>3. ASSUME NEW l \in 1 .. m, ~rows[l].subsumed
        PROVE  \E i \in 1 .. Len(run[m].recs) : run[m].recs[i] = rows[l]
    <3>1. CASE l = m
      BY <2>2, <2>3, <3>1
    <3>2. CASE l # m
      <4>1. l \in 1 .. (m - 1)
        BY <3>2
      <4>2. PICK i \in 1 .. Len(run[m - 1].recs) : run[m - 1].recs[i] = rows[l]
        BY <1>10, <2>3, <4>1
      <4> QED  BY <2>2, <4>2
    <3> QED  BY <3>1, <3>2
  <2> QED  BY <2>3
<1>11. \A m \in 0 .. n : m \in T
  <2> HIDE DEF T
  <2> QED  BY <1>9, <1>10, PositionInduction
<1>12. s = run[n] /\ n \in 0 .. n
  BY <1>3, <1>8 DEF LoadFromDB
<1>13. Built(t, s) /\ Has(n)
  BY <1>11, <1>12 DEF X
<1>14. ASSUME NEW q \in QIDs, ~At(t, q).subsumed
       PROVE  \E i \in 1 .. Len(s.recs) : s.recs[i] = At(t, q)
  <2>1. <<Local, q>> \in Key /\ t[<<Local, q>>] # NoRow
    BY <1>14, LogAssumption DEF Key, At, NoRow
  <2>2. PICK m \in 1 .. n : rows[m] = t[<<Local, q>>]
    BY <1>3, <2>1 DEF Enumerates
  <2> QED  BY <1>12, <1>13, <1>14, <2>2 DEF At
<1>15. \A i \in 1 .. Len(s.recs) : ~s.recs[i].subsumed /\ s.recs[i] = At(t, s.recs[i].qid)
  BY <1>13 DEF Built, Loaded
<1>16. Sound(s) /\ Linked(s) /\ \A i \in 1 .. Len(s.recs) : Expected(s, i)
  BY <1>13, BuiltLinked DEF Built
<1> QED  BY <1>14, <1>15, <1>16 DEF LoadedAs

-----------------------------------------------------------------------------
(* A flush.                                                                *)

\* No two listed rows have one queue id.
Unique(recs) ==
  \A i, j \in 1 .. Len(recs) :
    ~recs[i].subsumed /\ ~recs[j].subsumed /\ recs[i].qid = recs[j].qid => i = j

LEMMA LinkedUnique ==
  ASSUME NEW s, Linked(s)
  PROVE  Unique(s.recs)
<1>1. ASSUME NEW i \in 1 .. Len(s.recs), ~s.recs[i].subsumed
      PROVE  s.byQ[<<Local, s.recs[i].qid>>] = i
  <2>1. RowLinked(s, i)
    BY DEF Linked
  <2> QED  BY <1>1, <2>1 DEF RowLinked, RecKey
<1> QED  BY <1>1 DEF Unique

LEMMA FlushedTable ==
  ASSUME NEW t, CleanTable(t, Local), NEW rows, Flushing(rows)
  PROVE  /\ CleanTable(FoldLeft(Upsert, t, rows), Local)
         /\ Upserted(t, rows, Len(rows), FoldLeft(Upsert, t, rows))
<1>1. /\ DOMAIN rows = 1 .. Len(rows) /\ Len(rows) \in Nat
      /\ \A m \in 1 .. Len(rows) :
           Clean(rows[m]) /\ rows[m].origin = Local /\ rows[m] \in Record
  BY LenProperties DEF Flushing, CleanRows, Clean
<1>2. CleanTable(FoldLeft(Upsert, t, rows), Local)
  BY <1>1, UpsertRecordsClean
<1>3. t \in [Key -> Record \cup {NoRow}]
  BY DEF CleanTable
<1>4. Upserted(t, rows, Len(rows), FoldLeft(Upsert, t, rows))
  BY <1>1, <1>3, UpsertEffect
<1> QED  BY <1>2, <1>4

\* What an upsert of the rows does to queue id q: the last row of q is there
\* afterwards, whatever was there before; with no row of q nothing changes.
LEMMA FlushedRow ==
  ASSUME NEW t, NEW rows, Flushing(rows), NEW u, Upserted(t, rows, Len(rows), u),
         NEW q \in QIDs
  PROVE  \/ At(u, q) = At(t, q) /\ \A m \in 1 .. Len(rows) : rows[m].qid # q
         \/ \E m \in 1 .. Len(rows) :
              /\ rows[m].qid = q /\ At(u, q) = rows[m]
              /\ \A l \in (m + 1) .. Len(rows) : rows[l].qid # q
<1> DEFINE k == <<Local, q>>
<1>1. k \in Key /\ Len(rows) \in Nat
  BY LogAssumption, LenProperties DEF Key, Flushing, CleanRows
<1>2. \A m \in 1 .. Len(rows) : RecKey(rows[m]) = k <=> rows[m].qid = q
  BY DEF Flushing, RecKey
<1> HIDE DEF k
<1>3. CASE u[k] = t[k] /\ \A m \in 1 .. Len(rows) : RecKey(rows[m]) # k
  BY <1>2, <1>3 DEF At, k
<1>4. CASE \E m \in 1 .. Len(rows) :
             /\ RecKey(rows[m]) = k /\ u[k] = rows[m]
             /\ \A l \in (m + 1) .. Len(rows) : RecKey(rows[l]) # k
  <2>1. PICK m \in 1 .. Len(rows) :
             /\ RecKey(rows[m]) = k /\ u[k] = rows[m]
             /\ \A l \in (m + 1) .. Len(rows) : RecKey(rows[l]) # k
    BY <1>4
  <2>2. \A l \in (m + 1) .. Len(rows) : l \in 1 .. Len(rows)
    BY <1>1
  <2> QED  BY <1>2, <2>1, <2>2 DEF At, k
<1> QED  BY <1>1, <1>3, <1>4 DEF Upserted

\* The mail side: a step rewrites rows, captures each row that it changed,
\* and upserting those makes the table mirror the rows after the step.
LEMMA MirrorsRewritten ==
  ASSUME NEW recs, NEW new, NEW byD, NEW newD, NEW i, NEW more,
         Rewrites(recs, byD, new, newD, i, more),
         Len(recs) \in Nat, Len(new) \in Nat, Unique(recs), Unique(new),
         NEW c, Captures(c, recs, new, i), Flushing(c),
         NEW t, Mirrors(t, recs), NEW u, Upserted(t, c, Len(c), u)
  PROVE  Mirrors(u, new)
<1>0. /\ i \in 1 .. Len(new) /\ ~new[i].subsumed /\ Len(recs) <= Len(new)
      /\ \A j \in 1 .. Len(recs) : j \in 1 .. Len(new) /\ new[j].qid = recs[j].qid
      /\ \A j \in 1 .. Len(new) :
           j # i /\ ~new[j].subsumed => j \in 1 .. Len(recs) /\ new[j] = recs[j]
  <2>1. Len(recs) <= Len(new) /\ i \in 1 .. Len(new) /\ ~new[i].subsumed
    BY DEF Rewrites
  <2>2. \A j \in 1 .. Len(recs) : j \in 1 .. Len(new)
    BY <2>1
  <2>3. \A j \in 1 .. Len(recs) : new[j].qid = recs[j].qid
    BY DEF Rewrites
  <2>4. \A j \in 1 .. Len(new) :
           j # i /\ ~new[j].subsumed => j \in 1 .. Len(recs) /\ new[j] = recs[j]
    BY DEF Rewrites
  <2> QED  BY <2>1, <2>2, <2>3, <2>4
<1>1. /\ Len(c) \in Nat /\ Len(c) \in 1 .. Len(c) /\ c[Len(c)] = new[i]
  <2>1. c \in Seq(Record) /\ c # <<>> /\ c[Len(c)] = new[i]
    BY DEF Captures
  <2> QED  BY <2>1, LenProperties, EmptySeq
<1>2. ASSUME NEW j \in 1 .. Len(new), ~new[j].subsumed, new[j].qid \in Plain
      PROVE  At(u, new[j].qid) = new[j]
  <2> DEFINE q == new[j].qid
  <2>0. q = new[j].qid
    OBVIOUS
  <2> HIDE DEF q
  <2> SUFFICES At(u, q) = new[j]
    BY <2>0
  <2>1. q \in QIDs /\ q \in Plain
    BY <1>2, <2>0 DEF Plain
  <2>2. CASE At(u, q) = At(t, q) /\ \A m \in 1 .. Len(c) : c[m].qid # q
    <3>1. j # i
      BY <1>1, <2>0, <2>2
    <3>2. j \in 1 .. Len(recs) /\ new[j] = recs[j]
      BY <1>0, <1>2, <3>1
    <3> QED  BY <1>2, <2>0, <2>2, <3>2 DEF Mirrors
  <2>3. CASE \E m \in 1 .. Len(c) :
               /\ c[m].qid = q /\ At(u, q) = c[m]
               /\ \A l \in (m + 1) .. Len(c) : c[l].qid # q
    <3>1. PICK m \in 1 .. Len(c) :
               /\ c[m].qid = q /\ At(u, q) = c[m]
               /\ \A l \in (m + 1) .. Len(c) : c[l].qid # q
      BY <2>3
    <3>2. CASE j = i
      <4>1. m = Len(c)
        BY <1>1, <2>0, <3>1, <3>2
      <4> QED  BY <1>1, <3>1, <3>2, <4>1
    <3>3. CASE j # i
      <4>1. j \in 1 .. Len(recs) /\ new[j] = recs[j]
        BY <1>0, <1>2, <3>3
      <4>2. c[m] # new[i]
        BY <1>0, <1>2, <2>0, <3>1, <3>3 DEF Unique
      <4>3. PICK o \in 1 .. Len(recs) :
              ~recs[o].subsumed /\ new[o].subsumed /\ c[m] = new[o]
        BY <4>2 DEF Captures
      <4>4. recs[o].qid = q /\ recs[j].qid = q /\ ~recs[j].subsumed
        BY <1>0, <1>2, <2>0, <3>1, <4>1, <4>3
      <4>5. o = j
        BY <4>1, <4>3, <4>4 DEF Unique
      <4> QED  BY <1>2, <4>3, <4>5
    <3> QED  BY <3>2, <3>3
  <2>4. \/ At(u, q) = At(t, q) /\ \A m \in 1 .. Len(c) : c[m].qid # q
        \/ \E m \in 1 .. Len(c) :
             /\ c[m].qid = q /\ At(u, q) = c[m]
             /\ \A l \in (m + 1) .. Len(c) : c[l].qid # q
    BY <2>1, FlushedRow
  <2> QED  BY <2>2, <2>3, <2>4, Zenon
<1>3. ASSUME NEW q \in Plain, ~At(u, q).subsumed
      PROVE  \E j \in 1 .. Len(new) : ~new[j].subsumed /\ new[j].qid = q
  <2>1. q \in QIDs
    BY DEF Plain
  <2>2. CASE At(u, q) = At(t, q) /\ \A m \in 1 .. Len(c) : c[m].qid # q
    <3>1. PICK j \in 1 .. Len(recs) : ~recs[j].subsumed /\ recs[j].qid = q
      BY <1>3, <2>2 DEF Mirrors
    <3>2. ~new[j].subsumed
      <4>1. SUFFICES ASSUME new[j].subsumed PROVE FALSE
        OBVIOUS
      <4>2. PICK m \in 1 .. Len(c) : c[m] = new[j]
        BY <3>1, <4>1 DEF Captures
      <4> QED  BY <1>0, <2>2, <3>1, <4>2
    <3> QED  BY <1>0, <3>1, <3>2
  <2>3. CASE \E m \in 1 .. Len(c) :
               /\ c[m].qid = q /\ At(u, q) = c[m]
               /\ \A l \in (m + 1) .. Len(c) : c[l].qid # q
    <3>1. PICK m \in 1 .. Len(c) : c[m].qid = q /\ At(u, q) = c[m]
      BY <2>3
    <3>2. c[m] = new[i]
      BY <1>3, <3>1 DEF Captures
    <3> QED  BY <1>0, <3>1, <3>2
  <2>4. \/ At(u, q) = At(t, q) /\ \A m \in 1 .. Len(c) : c[m].qid # q
        \/ \E m \in 1 .. Len(c) :
             /\ c[m].qid = q /\ At(u, q) = c[m]
             /\ \A l \in (m + 1) .. Len(c) : c[l].qid # q
    BY <2>1, FlushedRow
  <2> QED  BY <2>2, <2>3, <2>4, Zenon
<1> QED  BY <1>2, <1>3 DEF Mirrors

\* A table that mirrors the store is one to start from.
LEMMA MirrorLoadable ==
  ASSUME OneScanner, Kept, NEW t, CleanTable(t, Local), Mirrors(t, records)
  PROVE  Loadable(t)
<1>0. Sound(Stored) /\ Links
  BY DEF Kept, IInv
<1>1. ASSUME NEW q \in Plain, ~At(t, q).subsumed
      PROVE  /\ \A l \in At(t, q).lines : l.q \in {q, At(t, q).dqid}
             /\ At(t, q).dqid # NoQid => At(t, At(t, q).dqid).subsumed
  <2> DEFINE r == At(t, q)
  <2>1. PICK i \in 1 .. Len(records) : ~records[i].subsumed /\ records[i].qid = q
    BY <1>1 DEF Mirrors
  <2>2. r = records[i]
    BY <2>1 DEF Mirrors
  <2> HIDE DEF r
  <2>3. /\ RowLinked(Stored, i) /\ records[i].qid \in QIDs
        /\ RecKey(records[i]) = <<Local, q>>
        /\ \A l \in r.lines : l.q \in QIDs
    BY <1>0, <2>1, <2>2, StoredParts
  <2>4. byQueueID[<<Local, q>>] = i /\ \A l \in r.lines : byQueueID[<<Local, l.q>>] = i
    BY <2>1, <2>2, <2>3 DEF RowLinked, Stored
  <2>5. ASSUME NEW l \in r.lines PROVE l.q \in {q, r.dqid}
    <3>0. i # 0 /\ l.q \in QIDs
      BY <2>3, <2>1
    <3>1. KeyLinked(Stored, l.q)
      BY <1>0, <3>0, StoredParts
    <3> QED  BY <2>1, <2>2, <2>4, <3>0, <3>1 DEF KeyLinked, Stored
  <2>6. ASSUME r.dqid # NoQid, ~At(t, r.dqid).subsumed PROVE FALSE
    <3>1. r.dqid = Leg[q] /\ r.dqid \in Plain /\ r.dqid # q
      <4>1. r.dqid = Leg[q]
        BY <2>1, <2>2, <2>3, <2>6 DEF RowLinked, Stored
      <4> QED  BY <2>6, <4>1, LegAssumption DEF OneScanner, Plain
    <3>2. PICK j \in 1 .. Len(records) : ~records[j].subsumed /\ records[j].qid = r.dqid
      BY <2>6, <3>1 DEF Mirrors
    <3>3. RowLinked(Stored, j) /\ RecKey(records[j]) = <<Local, r.dqid>>
      BY <1>0, <3>2, StoredParts
    <3>4. byDelivery[<<Local, r.dqid>>] = 0
      BY <3>2, <3>3 DEF RowLinked, Stored
    <3>5. Expected(Stored, i) /\ OnwardKey(records[i]) = <<Local, r.dqid>>
      BY <1>0, <2>1, <2>2, StoredParts DEF OnwardKey
    <3> QED  BY <2>2, <2>6, <3>4, <3>5 DEF Expected, Stored
  <2> QED  BY <2>5, <2>6 DEF r
<1> QED  BY <1>1 DEF Loadable

-----------------------------------------------------------------------------
(* The steps.                                                              *)

LEMMA KeptStep ==
  ASSUME Kept, Unpurged
  PROVE  Kept'
<1>1. [Next]_vars
  BY DEF Unpurged, Next
<1> QED  BY <1>1, IInvStep, LinksStep, HeldStep, AllShownStep DEF Kept

\* The store does not move.
LEMMA MemoryStands ==
  ASSUME Kept, UNCHANGED memory
  PROVE  Kept' /\ records' = records
<1>1. Unpurged
  BY DEF memory, vars, Unpurged
<1> QED  BY <1>1, KeptStep DEF memory

\* The store's rows, and that each queue id has one listed row.
LEMMA KeptRows ==
  ASSUME Kept
  PROVE  /\ Len(records) \in Nat /\ Unique(records)
         /\ \A j \in 1 .. Len(records) : records[j].qid \in QIDs
<1>1. Sound(Stored) /\ Linked(Stored) /\ Links /\ Stored.recs = records
  BY DEF Kept, IInv, Links, Stored
<1>2. Unique(records)
  BY <1>1, LinkedUnique
<1> QED  BY <1>1, <1>2, StoredParts

\* With no mail flush under way the table is what that flush would leave.
LEMMA NothingUnderWay ==
  ASSUME PInv, inFlight.mail = <<>>
  PROVE  Effect = db
<1>1. 1 .. 0 = {} /\ Flushing(inFlight.mail) /\ Len(inFlight.mail) = 0
  BY EmptySeq DEF PInv, UnderWay
<1>2. CleanTable(db, Local)
  BY DEF PInv, Loadable
<1>3. Upserted(db, inFlight.mail, 0, Effect) /\ CleanTable(Effect, Local)
  BY <1>1, <1>2, FlushedTable DEF Effect
<1>4. \A k \in Key : Effect[k] = db[k]
  BY <1>1, <1>3 DEF Upserted
<1> QED  BY <1>2, <1>3, <1>4 DEF CleanTable

LEMMA AddMailStep ==
  ASSUME PInv, NEW q \in QIDs, AddMail(q)
  PROVE  PInv'
<1> DEFINE c == CapturedByMail(q)
           i == byQueueID'[<<Local, q>>]
<1>0. /\ inFlight.mail = <<>> /\ FeedMail(q) /\ deleting = 0 /\ deleting' = 0 /\ db' = db
      /\ inFlight' = [inFlight EXCEPT !.mail = c]
      /\ IInv /\ Links /\ Kept
  BY DEF AddMail, PInv, Kept
<1>1. Kept'
  BY <1>0, KeptStep DEF Unpurged
<1>2. Flushing(c) /\ Captures(c, records, records', i)
  BY <1>0, CapturedByMailRows DEF Flushing
<1>3. Rewrites(records, byDelivery, records', byDelivery', i, Handed(q))
  BY <1>0, FeedMailRow
<1> HIDE DEF c, i
<1>4. inFlight \in [Worker -> Seq(Record)] /\ c \in Seq(Record)
  BY <1>2 DEF PInv, UnderWay, Flushing, CleanRows
<1>5. inFlight' \in [Worker -> Seq(Record)] /\ inFlight'.mail = c
      /\ inFlight'.rspamd = inFlight.rspamd
  BY <1>0, <1>4 DEF Worker
<1>6. UnderWay'
  BY <1>2, <1>5 DEF PInv, UnderWay
<1>7. Effect = db
  BY <1>0, NothingUnderWay
<1>8. Mirrors(Effect', records')
  <2> DEFINE u == FoldLeft(Upsert, db, c)
  <2>1. Effect' = u
    BY <1>0, <1>5 DEF Effect
  <2>2. Upserted(db, c, Len(c), u)
    BY <1>2, FlushedTable DEF PInv, Loadable
  <2> HIDE DEF u
  <2>3. Mirrors(db, records)
    BY <1>7 DEF PInv
  <2>4. /\ Len(records) \in Nat /\ Unique(records)
        /\ Len(records') \in Nat /\ Unique(records')
    <3> DEFINE s == [recs |-> records', byQ |-> byQueueID', byD |-> byDelivery']
    <3>1. Sound(s) /\ Linked(s) /\ s.recs = records'
      BY <1>1 DEF Kept, IInv, Links, Stored
    <3> HIDE DEF s
    <3>2. Len(s.recs) \in Nat /\ Unique(s.recs)
      BY <3>1, Parts, LinkedUnique
    <3> QED  BY <1>0, <3>1, <3>2, KeptRows
  <2>5. Mirrors(u, records')
    BY <1>2, <1>3, <2>2, <2>3, <2>4, MirrorsRewritten
  <2> QED  BY <2>1, <2>5
<1>9. Loadable(db)'
  BY <1>0 DEF PInv, Loadable, At, CleanTable
<1> QED  BY <1>0, <1>1, <1>6, <1>8, <1>9 DEF PInv

\* The rspamd side: a row that it scores changes, and it is left out.
LEMMA MirrorsEnriched ==
  ASSUME NEW recs, NEW new, NEW i, Enriched(recs, new, i), Len(recs) \in Nat,
         i \in 1 .. Len(recs) => recs[i].qid \notin Plain,
         NEW t, Mirrors(t, recs)
  PROVE  Mirrors(t, new)
<1>1. Len(new) = Len(recs)
  BY DEF Enriched
<1>2. ASSUME NEW j \in 1 .. Len(recs)
      PROVE  /\ new[j].qid = recs[j].qid
             /\ new[j].subsumed = recs[j].subsumed
             /\ recs[j].qid \in Plain => new[j] = recs[j]
  BY DEF Enriched
<1>3. ASSUME NEW j \in 1 .. Len(recs), ~new[j].subsumed, new[j].qid \in Plain
      PROVE  At(t, new[j].qid) = new[j]
  <2>1. new[j] = recs[j] /\ ~recs[j].subsumed /\ recs[j].qid \in Plain
    BY <1>2, <1>3
  <2> QED  BY <2>1 DEF Mirrors
<1>4. ASSUME NEW p \in Plain, ~At(t, p).subsumed
      PROVE  \E j \in 1 .. Len(recs) : ~new[j].subsumed /\ new[j].qid = p
  <2>1. PICK j \in 1 .. Len(recs) : ~recs[j].subsumed /\ recs[j].qid = p
    BY <1>4 DEF Mirrors
  <2>2. ~new[j].subsumed /\ new[j].qid = p
    BY <1>2, <2>1
  <2> QED  BY <2>2
<1> QED  BY <1>1, <1>3, <1>4 DEF Mirrors

LEMMA AddVerdictStep ==
  ASSUME OneScanner, PInv, NEW q \in QIDs, AddVerdict(q)
  PROVE  PInv'
<1> DEFINE c == CapturedByVerdict(q)
           i == byQueueID[<<Local, q>>]
<1>0. /\ FeedVerdict(q) /\ deleting = 0 /\ deleting' = 0 /\ db' = db
      /\ inFlight' = [inFlight EXCEPT !.rspamd = c]
      /\ IInv /\ Links /\ Kept /\ q \in Scored
  BY DEF AddVerdict, PInv, Kept, FeedVerdict
<1>1. Kept'
  BY <1>0, KeptStep DEF Unpurged
<1>2. Flushing(c) /\ \A m \in 1 .. Len(c) : q \in {c[m].qid, Leg[c[m].qid]}
  BY <1>0, CapturedByVerdictRows DEF Flushing
<1>3. Enriched(records, records', i)
  BY <1>0, FeedVerdictRows
<1>4. i \in 1 .. Len(records) => records[i].qid = q
  <2> SUFFICES ASSUME i \in 1 .. Len(records) PROVE records[i].qid = q
    OBVIOUS
  <2>1. /\ KeyLinked(Stored, q) /\ RowLinked(Stored, i) /\ records[i].qid \in QIDs
        /\ Len(records) \in Nat
    BY <1>0, StoredParts DEF IInv
  <2>2. i # 0
    BY <2>1
  <2>3. q \in {records[i].qid, records[i].dqid} /\ q # NoQid
    BY <2>1, <2>2, LegAssumption DEF KeyLinked, Stored
  <2>4. records[i].dqid \in {NoQid, Leg[records[i].qid]}
    BY <2>1 DEF RowLinked, Stored
  <2> QED  BY <1>0, <2>1, <2>3, <2>4 DEF OneScanner
<1> HIDE DEF c, i
<1>5. inFlight \in [Worker -> Seq(Record)] /\ c \in Seq(Record)
  BY <1>2 DEF PInv, UnderWay, Flushing, CleanRows
<1>6. inFlight' \in [Worker -> Seq(Record)] /\ inFlight'.rspamd = c
      /\ inFlight'.mail = inFlight.mail
  BY <1>0, <1>5 DEF Worker
<1>7. ASSUME NEW m \in 1 .. Len(c) PROVE c[m].qid \in Scored
  <2>1. c[m].qid \in QIDs
    BY <1>2 DEF Flushing, CleanRows, Clean, Record
  <2> QED  BY <1>0, <1>2, <2>1 DEF OneScanner
<1>8. UnderWay'
  BY <1>2, <1>6, <1>7 DEF PInv, UnderWay
<1>9. Mirrors(Effect', records')
  <2>1. Effect' = Effect /\ Mirrors(Effect, records)
    BY <1>0, <1>6 DEF Effect, PInv
  <2>2. Len(records) \in Nat /\ (i \in 1 .. Len(records) => records[i].qid \notin Plain)
    BY <1>0, <1>4, KeptRows DEF Plain
  <2> DEFINE t == Effect
  <2>3. Mirrors(t, records)
    BY <2>1
  <2> HIDE DEF t
  <2>4. Mirrors(t, records')
    BY <1>3, <2>2, <2>3, MirrorsEnriched
  <2> QED  BY <2>1, <2>4 DEF t
<1>10. Loadable(db)'
  BY <1>0 DEF PInv, Loadable, At, CleanTable
<1> QED  BY <1>0, <1>1, <1>8, <1>9, <1>10 DEF PInv

\* The rspamd side's rows are not the mail side's.
LEMMA ApartUpserts ==
  ASSUME NEW t, NEW rows, Flushing(rows), NEW u, Upserted(t, rows, Len(rows), u),
         \A m \in 1 .. Len(rows) : rows[m].qid \in Scored
  PROVE  \A q \in Plain : At(u, q) = At(t, q)
<1> SUFFICES ASSUME NEW q \in Plain PROVE At(u, q) = At(t, q)
  OBVIOUS
<1>1. q \in QIDs /\ \A m \in 1 .. Len(rows) : rows[m].qid # q
  BY DEF Plain
<1> QED  BY <1>1, FlushedRow

LEMMA SameUpserts ==
  ASSUME NEW rows, Flushing(rows), NEW q \in QIDs,
         NEW s, NEW t, At(s, q) = At(t, q),
         NEW u, Upserted(s, rows, Len(rows), u),
         NEW v, Upserted(t, rows, Len(rows), v)
  PROVE  At(u, q) = At(v, q)
<1>1. \/ At(u, q) = At(s, q) /\ \A m \in 1 .. Len(rows) : rows[m].qid # q
      \/ \E m \in 1 .. Len(rows) :
           /\ rows[m].qid = q /\ At(u, q) = rows[m]
           /\ \A l \in (m + 1) .. Len(rows) : rows[l].qid # q
  BY FlushedRow
<1>2. \/ At(v, q) = At(t, q) /\ \A m \in 1 .. Len(rows) : rows[m].qid # q
      \/ \E m \in 1 .. Len(rows) :
           /\ rows[m].qid = q /\ At(v, q) = rows[m]
           /\ \A l \in (m + 1) .. Len(rows) : rows[l].qid # q
  BY FlushedRow, SMTT(60)
<1>3. CASE \A m \in 1 .. Len(rows) : rows[m].qid # q
  BY <1>1, <1>2, <1>3
<1>4. CASE ~\A m \in 1 .. Len(rows) : rows[m].qid # q
  <2>1. PICK m \in 1 .. Len(rows) : /\ rows[m].qid = q /\ At(u, q) = rows[m]
                                    /\ \A l \in (m + 1) .. Len(rows) : rows[l].qid # q
    BY <1>1, <1>4
  <2>2. PICK n \in 1 .. Len(rows) : /\ rows[n].qid = q /\ At(v, q) = rows[n]
                                    /\ \A l \in (n + 1) .. Len(rows) : rows[l].qid # q
    BY <1>2, <1>4
  <2>3. Len(rows) \in Nat
    BY LenProperties DEF Flushing, CleanRows
  <2>4. m = n
    <3>1. n \notin (m + 1) .. Len(rows) /\ m \notin (n + 1) .. Len(rows)
      BY <2>1, <2>2
    <3> QED  BY <2>3, <3>1
  <2> QED  BY <2>1, <2>2, <2>4
<1> QED  BY <1>3, <1>4

LEMMA UpsertMailStep ==
  ASSUME OneScanner, PInv, UpsertRecords("mail")
  PROVE  PInv'
<1>0. /\ db' = Effect /\ inFlight' = [inFlight EXCEPT !.mail = <<>>]
      /\ UNCHANGED memory /\ deleting = 0 /\ deleting' = 0
  BY DEF UpsertRecords, Effect, PInv
<1>1. Kept' /\ records' = records
  BY <1>0, MemoryStands DEF PInv
<1>2. <<>> \in Seq(Record) /\ Len(<<>>) = 0 /\ Flushing(<<>>)
  BY EmptySeq DEF Flushing, CleanRows
<1>3. /\ inFlight' \in [Worker -> Seq(Record)]
      /\ inFlight'.mail = <<>> /\ inFlight'.rspamd = inFlight.rspamd
  BY <1>0, <1>2 DEF PInv, UnderWay, Worker
<1>4. UnderWay'
  BY <1>2, <1>3 DEF PInv, UnderWay
<1>5. CleanTable(Effect, Local)
  BY FlushedTable DEF PInv, Loadable, UnderWay, Effect
<1>6. Loadable(Effect)
  BY <1>5, MirrorLoadable DEF PInv
<1>7. Effect' = Effect
  <2> DEFINE t == Effect
             u == FoldLeft(Upsert, t, <<>>)
  <2>1. Effect' = u
    BY <1>0, <1>3 DEF Effect
  <2>2. CleanTable(t, Local)
    BY <1>5
  <2> HIDE DEF t
  <2>3. CleanTable(u, Local) /\ Upserted(t, <<>>, 0, u)
    BY <1>2, <2>2, FlushedTable
  <2> HIDE DEF u
  <2>4. \A k \in Key : u[k] = t[k]
    BY <2>3 DEF Upserted
  <2>5. u = t
    BY <2>2, <2>3, <2>4 DEF CleanTable
  <2> QED  BY <2>1, <2>5 DEF t
<1>8. Mirrors(Effect', records')
  BY <1>1, <1>7 DEF PInv
<1>9. Loadable(db')
  BY <1>0, <1>6
<1> QED  BY <1>0, <1>1, <1>4, <1>8, <1>9 DEF PInv, Loadable, At, CleanTable

LEMMA UpsertRspamdStep ==
  ASSUME OneScanner, PInv, UpsertRecords("rspamd")
  PROVE  PInv'
<1> DEFINE u == FoldLeft(Upsert, db, inFlight.rspamd)
           mail == inFlight.mail
           v == FoldLeft(Upsert, u, mail)
<1>0. /\ db' = u /\ inFlight' = [inFlight EXCEPT !.rspamd = <<>>]
      /\ UNCHANGED memory /\ deleting = 0 /\ deleting' = 0
  BY DEF UpsertRecords, PInv
<1>1. Kept' /\ records' = records
  BY <1>0, MemoryStands DEF PInv
<1>2. <<>> \in Seq(Record) /\ Len(<<>>) = 0 /\ Flushing(<<>>)
  BY EmptySeq DEF Flushing, CleanRows
<1>3. /\ inFlight' \in [Worker -> Seq(Record)]
      /\ inFlight'.mail = mail /\ inFlight'.rspamd = <<>>
  BY <1>0, <1>2 DEF PInv, UnderWay, Worker
<1>4. UnderWay'
  BY <1>2, <1>3 DEF PInv, UnderWay
<1>5. /\ CleanTable(db, Local) /\ Flushing(mail) /\ Flushing(inFlight.rspamd)
      /\ \A m \in 1 .. Len(inFlight.rspamd) : inFlight.rspamd[m].qid \in Scored
  BY DEF PInv, Loadable, UnderWay
<1>6. CleanTable(u, Local) /\ \A q \in Plain : At(u, q) = At(db, q)
  BY <1>5, FlushedTable, ApartUpserts
<1> HIDE DEF u
<1>7. Upserted(u, mail, Len(mail), v) /\ Upserted(db, mail, Len(mail), Effect)
  BY <1>5, <1>6, FlushedTable DEF Effect
<1>8. Effect' = v
  BY <1>0, <1>3 DEF Effect
<1> HIDE DEF mail, v
<1>9. \A q \in Plain : At(v, q) = At(Effect, q)
  <2>1. Plain \subseteq QIDs
    BY DEF Plain
  <2> DEFINE e == Effect
  <2>2. Upserted(db, mail, Len(mail), e)
    BY <1>7
  <2> HIDE DEF e
  <2>3. ASSUME NEW q \in Plain PROVE At(v, q) = At(e, q)
    BY <1>5, <1>6, <1>7, <2>1, <2>2, SameUpserts
  <2> QED  BY <2>3 DEF e
<1>10. Mirrors(v, records)
  BY <1>9 DEF PInv, Mirrors
<1>11. ASSUME NEW q \in Plain, ~At(u, q).subsumed
       PROVE  /\ \A l \in At(u, q).lines : l.q \in {q, At(u, q).dqid}
              /\ At(u, q).dqid # NoQid => At(u, At(u, q).dqid).subsumed
  <2> DEFINE r == At(db, q)
  <2>1. At(u, q) = r /\ ~r.subsumed
    BY <1>6, <1>11
  <2>2. /\ \A l \in r.lines : l.q \in {q, r.dqid}
        /\ r.dqid # NoQid => At(db, r.dqid).subsumed
    BY <2>1 DEF PInv, Loadable
  <2>3. r.dqid # NoQid => r.dqid \in Plain
    <3>1. <<Local, q>> \in Key
      BY LogAssumption DEF Key, Plain
    <3>2. Loaded(db, r)
      BY <2>1, <3>1, ListedRow DEF PInv, At
    <3>3. r.qid \in QIDs
      BY <3>2 DEF Loaded, Clean, Record
    <3> QED  BY <3>2, <3>3 DEF Loaded, OneScanner, Plain
  <2> HIDE DEF r
  <2> QED  BY <1>6, <2>1, <2>2, <2>3
<1>12. Loadable(u)
  BY <1>6, <1>11 DEF Loadable
<1>13. Loadable(db')
  BY <1>0, <1>12
<1>14. Mirrors(Effect', records')
  BY <1>1, <1>8, <1>10
<1> QED  BY <1>0, <1>1, <1>4, <1>13, <1>14 DEF PInv, Loadable, At, CleanTable

LEMMA RestartStep ==
  ASSUME OneScanner, PInv, Restart
  PROVE  PInv' /\ Mirrors(db, records')
<1>1. PICK s \in LoadedFrom(db) :
        records' = s.recs /\ byQueueID' = s.byQ /\ byDelivery' = s.byD
  BY DEF Restart
<1>2. /\ rspamdPending' = {} /\ fed' = [q \in QIDs |-> 0] /\ told' = {}
      /\ inFlight' = [w \in Worker |-> <<>>] /\ deleting' = 0
      /\ db' = db /\ cutoff' = cutoff
  BY DEF Restart
<1>3. LoadedAs(db, s)
  BY LoadedLinked DEF PInv
<1>4. Stored' = s
  BY <1>1, <1>3, Parts DEF Stored, LoadedAs
<1>5. IInv'
  BY <1>2, <1>3, <1>4 DEF IInv, InputOK, LoadedAs, PInv, Kept
<1>6. Links'
  <2>1. DOMAIN records' = 1 .. Len(s.recs)
    BY <1>1, <1>3, Parts DEF LoadedAs
  <2> QED  BY <1>3, <1>4, <2>1 DEF LoadedAs, Links
<1>7. Held' /\ AllShown'
  BY <1>2 DEF Held, NoneHeld, AllShown
<1>8. <<>> \in Seq(Record) /\ Len(<<>>) = 0 /\ Flushing(<<>>)
  BY EmptySeq DEF Flushing, CleanRows
<1>9. inFlight'.mail = <<>> /\ inFlight'.rspamd = <<>> /\ UnderWay'
  BY <1>2, <1>8 DEF UnderWay, Worker
<1>10. Mirrors(db, records')
  <2>1. /\ \A i \in 1 .. Len(s.recs) : ~s.recs[i].subsumed /\ s.recs[i] = At(db, s.recs[i].qid)
        /\ \A q \in QIDs : ~At(db, q).subsumed => \E i \in 1 .. Len(s.recs) : s.recs[i] = At(db, q)
    BY <1>3 DEF LoadedAs
  <2>2. ASSUME NEW q \in Plain, ~At(db, q).subsumed
        PROVE  \E i \in 1 .. Len(s.recs) : ~s.recs[i].subsumed /\ s.recs[i].qid = q
    <3>1. q \in QIDs /\ <<Local, q>> \in Key
      BY LogAssumption DEF Plain, Key
    <3>2. PICK i \in 1 .. Len(s.recs) : s.recs[i] = At(db, q)
      BY <2>1, <2>2, <3>1
    <3>3. db[<<Local, q>>] # NoRow
      BY <2>2 DEF At, NoRow
    <3>4. RecKey(At(db, q)) = <<Local, q>>
      BY <3>1, <3>3 DEF PInv, Loadable, CleanTable, At
    <3> QED  BY <2>2, <3>2, <3>4 DEF RecKey
  <2> QED  BY <1>1, <2>1, <2>2 DEF Mirrors
<1>11. Effect' = db
  <2> DEFINE u == FoldLeft(Upsert, db, <<>>)
  <2>1. Effect' = u
    BY <1>2, <1>9 DEF Effect
  <2>2. CleanTable(db, Local)
    BY DEF PInv, Loadable
  <2>3. CleanTable(u, Local) /\ Upserted(db, <<>>, 0, u)
    BY <1>8, <2>2, FlushedTable
  <2> HIDE DEF u
  <2>4. \A k \in Key : u[k] = db[k]
    BY <2>3 DEF Upserted
  <2>5. u = db
    BY <2>2, <2>3, <2>4 DEF CleanTable
  <2> QED  BY <2>1, <2>5
<1>12. Mirrors(Effect', records')
  BY <1>10, <1>11
<1>13. Loadable(db')
  BY <1>2 DEF PInv
<1> QED  BY <1>2, <1>5, <1>6, <1>7, <1>9, <1>10, <1>12, <1>13
        DEF PInv, Kept, Loadable, At, CleanTable

LEMMA PInvInit == PInit => PInv
<1> SUFFICES ASSUME PInit PROVE PInv
  OBVIOUS
<1>1. /\ db = EmptyTable /\ inFlight = [w \in Worker |-> <<>>] /\ deleting = 0 /\ Init
      /\ records = <<>> /\ fed = [q \in QIDs |-> 0]
  BY DEF PInit, Init
<1>2. <<>> \in Seq(Record) /\ Len(<<>>) = 0 /\ Flushing(<<>>)
  BY EmptySeq DEF Flushing, CleanRows
<1>3. Kept
  <2>1. Held /\ AllShown
    BY <1>1, <1>2 DEF Held, NoneHeld, AllShown
  <2> QED  BY <1>1, <2>1, IInvInit, LinksInit DEF Kept
<1>4. inFlight.mail = <<>> /\ UnderWay
  BY <1>1, <1>2 DEF UnderWay, Worker
<1>5. CleanTable(db, Local) /\ \A q \in QIDs : At(db, q).subsumed
  <2>1. \A q \in QIDs : <<Local, q>> \in Key
    BY LogAssumption DEF Key
  <2> QED  BY <1>1, <2>1, EmptyTableClean DEF EmptyTable, NoRow, At
<1>6. Loadable(db)
  BY <1>5 DEF Loadable, Plain
<1>7. \A k \in Key : Effect[k] = db[k]
  <2> DEFINE u == FoldLeft(Upsert, db, <<>>)
  <2>1. Effect = u
    BY <1>4 DEF Effect
  <2>2. Upserted(db, <<>>, 0, u)
    BY <1>2, <1>5, FlushedTable
  <2> HIDE DEF u
  <2> QED  BY <2>1, <2>2 DEF Upserted
<1>8. Mirrors(Effect, records)
  <2>1. \A q \in Plain : At(Effect, q).subsumed
    <3>1. \A q \in Plain : q \in QIDs /\ <<Local, q>> \in Key
      BY LogAssumption DEF Key, Plain
    <3> QED  BY <1>5, <1>7, <3>1 DEF At
  <2> QED  BY <1>1, <1>2, <2>1 DEF Mirrors
<1> QED  BY <1>1, <1>3, <1>4, <1>6, <1>8 DEF PInv

\* While retention is off and no upsert fails, every step keeps it.
LEMMA PInvStep ==
  ASSUME ~Retention, OneScanner, PInv, [PNext]_pvars, failures = 0, failures' = 0
  PROVE  PInv'
<1>1. ASSUME UNCHANGED <<memory, db, inFlight, deleting>> PROVE PInv'
  <2>1. Kept' /\ records' = records
    BY <1>1, MemoryStands DEF PInv
  <2> QED  BY <1>1, <2>1 DEF PInv, UnderWay, Loadable, Mirrors, Effect, At, CleanTable
<1>2. ASSUME NEW q \in QIDs, AddMail(q) \/ AddVerdict(q) PROVE PInv'
  BY <1>2, AddMailStep, AddVerdictStep
<1>3. CASE PruneVerdicts
  <2>1. Kept'
    BY <1>3, KeptStep DEF PruneVerdicts, Unpurged, PInv
  <2>2. records' = records /\ UNCHANGED <<db, inFlight, deleting>>
    BY <1>3 DEF PruneVerdicts, Prune, PruneRspamdPending
  <2> QED  BY <2>1, <2>2 DEF PInv, UnderWay, Loadable, Mirrors, Effect, At, CleanTable
<1>4. ASSUME NEW w \in Worker, UpsertRecords(w) PROVE PInv'
  BY <1>4, UpsertMailStep, UpsertRspamdStep DEF Worker
<1>5. ASSUME NEW w \in Worker, UpsertFails(w) PROVE FALSE
  BY <1>5 DEF UpsertFails
<1>6. ASSUME PurgeMemory PROVE FALSE
  BY <1>6 DEF PurgeMemory, Purge
<1>7. ASSUME DeleteOlderThan PROVE FALSE
  BY <1>7 DEF DeleteOlderThan, PInv
<1>8. CASE Restart
  BY <1>8, RestartStep
<1>9. CASE UNCHANGED pvars
  BY <1>1, <1>9 DEF pvars
<1> QED  BY <1>2, <1>3, <1>4, <1>5, <1>6, <1>7, <1>8, <1>9 DEF PNext

-----------------------------------------------------------------------------
(* The theorems.                                                           *)

\* From the first failed upsert on nothing is claimed.
LEMMA KeptWhileNoneFails ==
  ASSUME ~Retention, OneScanner
  PROVE  PSpec => [](failures \in Nat /\ (failures = 0 => PInv))
<1>1. PInit => failures = 0 /\ PInv
  BY PInvInit DEF PInit
<1>2. failures \in Nat /\ [PNext]_pvars => failures' \in Nat /\ (failures' = 0 => failures = 0)
  BY DEF PNext, pvars, AddMail, AddVerdict, PruneVerdicts, UpsertRecords, UpsertFails,
         PurgeMemory, DeleteOlderThan, Restart
<1>3. /\ failures \in Nat /\ (failures = 0 => PInv)
      /\ [PNext]_pvars
      => (failures \in Nat /\ (failures = 0 => PInv))'
  BY <1>2, PInvStep
<1>4. PInit => failures \in Nat /\ (failures = 0 => PInv)
  BY <1>1
<1> QED  BY <1>3, <1>4, PTL DEF PSpec

\* The promises of the store hold through any number of restarts, which read
\* the table back and parse the logs again from their start, interrupting
\* whatever flush was under way: rows keep to their message, every line read
\* since is shown in exactly one listed row, ids resolve, legs are folded and
\* no verdict is left behind.
THEOREM RestartsKeepThePromises ==
  ASSUME ~Retention, OneScanner
  PROVE  PSpec => [](failures = 0 =>
                       /\ NoForeignLines /\ ShownOnce /\ EveryIdResolves
                       /\ OneItemPerMessage /\ HeldOnlyUntilSeen)
<1>1. PInv => /\ NoForeignLines /\ ShownOnce /\ EveryIdResolves
              /\ OneItemPerMessage /\ HeldOnlyUntilSeen
  <2> SUFFICES ASSUME PInv
               PROVE  /\ NoForeignLines /\ ShownOnce /\ EveryIdResolves
                      /\ OneItemPerMessage /\ HeldOnlyUntilSeen
    OBVIOUS
  <2>1. IInv /\ Sound(Stored) /\ Links /\ Held /\ AllShown
    BY DEF PInv, Kept, IInv
  <2>2. \A q \in QIDs : Leg[q] \notin Scored
    BY DEF OneScanner
  <2> QED  BY <2>1, <2>2, LinksShow, ShownInOne, HeldInvIsHeld
<1> QED  BY <1>1, KeptWhileNoneFails, PTL

\* The table is a durable mirror of the store: with one writer, no upsert
\* failed and nothing under way, it lists the rows that the store lists, as
\* the store lists them, and no other.  With both writers it need not: two
\* flushes of one row commit in either order.
THEOREM TableMirrorsStore ==
  ASSUME ~Retention, Scored = {}
  PROVE  PSpec => []Mirror
<1>1. OneScanner
  BY DEF OneScanner
<1>2. ASSUME PInv, Idle PROVE Mirror
  <2>1. Effect = db
    BY <1>2, NothingUnderWay DEF Idle, Worker
  <2>2. Mirrors(db, records) /\ Plain = QIDs
    BY <1>2, <2>1 DEF PInv, Plain
  <2>3. /\ Visible = {i \in 1 .. Len(records) : ~records[i].subsumed}
        /\ \A i \in 1 .. Len(records) :
             records[i].qid \in QIDs /\ RecKey(records[i]) = <<Local, records[i].qid>>
    BY <1>2, StoredParts DEF PInv, Kept, IInv, Visible
  <2>4. ASSUME NEW i \in Visible PROVE db[RecKey(records[i])] = records[i]
    BY <2>2, <2>3 DEF Mirrors, At
  <2>5. ASSUME NEW k \in Key, InTable(k), ~db[k].subsumed
        PROVE  \E i \in Visible : RecKey(records[i]) = k
    <3>1. CleanTable(db, Local)
      BY <1>2 DEF PInv, Loadable
    <3>2. db[k].origin = Local /\ RecKey(db[k]) = k /\ db[k].qid \in QIDs
      BY <2>5, <3>1 DEF CleanTable, InTable, Clean, Record
    <3>3. k = <<Local, db[k].qid>>
      BY <3>2 DEF RecKey
    <3>4. ~At(db, db[k].qid).subsumed
      BY <2>5, <3>3 DEF At
    <3>5. PICK i \in 1 .. Len(records) : ~records[i].subsumed /\ records[i].qid = db[k].qid
      BY <2>2, <3>2, <3>4 DEF Mirrors
    <3> QED  BY <2>3, <3>3, <3>5
  <2> QED  BY <2>4, <2>5 DEF Mirror
<1>3. (failures = 0 => PInv) => Mirror
  BY <1>2 DEF Mirror
<1> QED  BY <1>1, <1>3, KeptWhileNoneFails, PTL

\* Two lists of rows that one table mirrors list the same rows.
LEMMA SameListed ==
  ASSUME Scored = {}, NEW t, NEW a, NEW b, Mirrors(t, a), Mirrors(t, b),
         DOMAIN a = 1 .. Len(a), DOMAIN b = 1 .. Len(b),
         \A i \in 1 .. Len(a) : a[i].qid \in QIDs
  PROVE  Listed(a) \subseteq Listed(b)
<1> SUFFICES ASSUME NEW r \in Listed(a) PROVE r \in Listed(b)
  OBVIOUS
<1>1. PICK i \in 1 .. Len(a) : r = a[i]
  BY DEF Listed, Range
<1>2. ~r.subsumed /\ Fresh(r) /\ r.qid \in Plain
  BY <1>1 DEF Listed, Plain
<1>3. At(t, r.qid) = r
  BY <1>1, <1>2 DEF Mirrors
<1>4. PICK j \in 1 .. Len(b) : ~b[j].subsumed /\ b[j].qid = r.qid
  BY <1>2, <1>3 DEF Mirrors
<1>5. b[j] = r
  BY <1>2, <1>3, <1>4 DEF Mirrors
<1> QED  BY <1>2, <1>4, <1>5 DEF Listed, Range

\* So a restart of an idle instance brings back the rows it listed, each as
\* it was, before any log is read again.
THEOREM RestartBringsRowsBack ==
  ASSUME ~Retention, Scored = {}
  PROVE  PSpec => RestartKeepsRows
<1>1. OneScanner
  BY DEF OneScanner
<1>2. ASSUME failures = 0 => PInv, [PNext]_pvars, restarts' # restarts, Idle, failures = 0
      PROVE  Listed(records') = Listed(records)
  <2>1. Restart
    BY <1>2 DEF PNext, pvars, AddMail, AddVerdict, PruneVerdicts, UpsertRecords,
                UpsertFails, PurgeMemory, DeleteOlderThan
  <2>2. PInv' /\ Mirrors(db, records')
    BY <1>1, <1>2, <2>1, RestartStep
  <2>3. Mirrors(db, records)
    BY <1>2, NothingUnderWay DEF Idle, Worker, PInv
  <2>4. DOMAIN records = 1 .. Len(records)
        /\ \A i \in 1 .. Len(records) : records[i].qid \in QIDs
    BY <1>2, StoredParts DEF PInv, Kept, IInv
  <2> DEFINE s == [recs |-> records', byQ |-> byQueueID', byD |-> byDelivery']
  <2>5. Sound(s) /\ s.recs = records'
    BY <2>2 DEF PInv, Kept, IInv, Stored
  <2> HIDE DEF s
  <2>6. DOMAIN records' = 1 .. Len(records')
        /\ \A i \in 1 .. Len(records') : records'[i].qid \in QIDs
    BY <2>5, Parts
  <2>7. Listed(records') \subseteq Listed(records) /\ Listed(records) \subseteq Listed(records')
    BY <2>2, <2>3, <2>4, <2>6, SameListed
  <2> QED  BY <2>7
<1>3. (failures = 0 => PInv) /\ [PNext]_pvars
      => [restarts' # restarts /\ Idle /\ failures = 0 =>
            Listed(records') = Listed(records)]_pvars
  BY <1>2
<1> QED  BY <1>1, <1>3, KeptWhileNoneFails, PTL DEF PSpec, RestartKeepsRows
=============================================================================
