----------------------------- MODULE PlvMirror ------------------------------
(***************************************************************************)
(* Rebuilding a Store from rows that arrive finished: LoadFromDB at boot   *)
(* and IngestSnapshots at a receiver.  No correlation runs here, that was  *)
(* done where the rows were made; the delivery link is restored from the   *)
(* primary.  Also what AddRecords and ApplyRspamdVerdict hand to flush,    *)
(* the rows that travel to the database or to the forwarder's queue.       *)
(*                                                                         *)
(* A store is passed as the record [recs, byQ, byD] of its rows and of the *)
(* two indexes, the state one critical section of Store.mu works on.       *)
(***************************************************************************)
EXTENDS PlvStore, SequencesExt

EmptyStore ==
  [recs |-> <<>>, byQ |-> [k \in Key |-> 0], byD |-> [k \in Key |-> 0]]

\* The onward id of row i resolves to row i unless it is taken.
RestoreDeliveryLink(s, i) ==
  LET d == OnwardKey(s.recs[i])
  IN  IF s.recs[i].dqid = NoQid THEN s
      ELSE [s EXCEPT !.byD[d] = i, !.byQ[d] = IF @ = 0 THEN i ELSE @]

BadAddFinished(s, r) ==  \* the delivery link is not restored
  LET i == Len(s.recs) + 1
  IN  [recs |-> Append(s.recs, r), byQ |-> [s.byQ EXCEPT ![RecKey(r)] = i],
       byD |-> s.byD]

AddFinished(s, r) ==
  LET i == Len(s.recs) + 1
  IN  RestoreDeliveryLink([recs |-> Append(s.recs, r),
                           byQ  |-> [s.byQ EXCEPT ![RecKey(r)] = i],
                           byD  |-> s.byD], i)

\* A subsumed leg is stored but not listed; the first row of an id wins.
LoadRow(s, r) ==
  IF r.subsumed \/ s.byQ[RecKey(r)] # 0 THEN s ELSE AddFinished(s, r)

LoadFromDB(rows) == FoldLeft(LoadRow, EmptyStore, rows)

-----------------------------------------------------------------------------
(* The mail_records table: a map from (origin, queue id) to a row, by its  *)
(* primary key, with ON CONFLICT DO UPDATE of every column.                *)

NoRow == [subsumed |-> TRUE, ts |-> 0]
EmptyTable == [k \in Key |-> NoRow]

BadUpsert(table, r) ==  \* the update leaves the subsumed column alone
  LET k == RecKey(r)
  IN  [table EXCEPT ![k] =
         IF @ = NoRow THEN r ELSE [r EXCEPT !.subsumed = table[k].subsumed]]

Upsert(table, r) == [table EXCEPT ![RecKey(r)] = r]

\* LoadAll: newest first, NULL timestamps before all others.
LoadOrder(rows) ==
  \A m, n \in DOMAIN rows :
    m < n => rows[m].ts = 0 \/ (rows[n].ts # 0 /\ rows[n].ts <= rows[m].ts)

\* The stores a start can come up with.
LoadedFrom(table) ==
  {LoadFromDB(rows) : rows \in
     {x \in SetToSeqs({table[k] : k \in Key} \ {NoRow}) : LoadOrder(x)}}
-----------------------------------------------------------------------------

BadIngestOne(s, r) ==  \* every snapshot becomes a row
  IF r.subsumed THEN s ELSE AddFinished(s, r)

\* One snapshot: the row of the same identity is replaced, else a row added.
IngestOne(s, r) ==
  LET i == s.byQ[RecKey(r)]
      own == /\ i \in DOMAIN s.recs
             /\ RecKey(s.recs[i]) = RecKey(r)
             /\ ~s.recs[i].subsumed
  IN  IF r.subsumed THEN s
      ELSE IF own THEN RestoreDeliveryLink([s EXCEPT !.recs[i] = r], i)
      ELSE AddFinished(s, r)

\* The origin is the forwarder's certificate name, whatever the rows claim.
FromOrigin(origin, batch) ==
  [n \in DOMAIN batch |-> [batch[n] EXCEPT !.origin = origin]]

IngestSnapshots(s, origin, batch) ==
  FoldLeft(IngestOne, s, FromOrigin(origin, batch))

-----------------------------------------------------------------------------

\* The rows a step of AddRecords captures for flush when it wrote row i: the
\* leg that it marked subsumed, then row i itself.
Captured(i) ==
  LET folded == {j \in DOMAIN records : ~records[j].subsumed
                                        /\ records'[j].subsumed}
  IN  SetToSeq({records'[j] : j \in folded}) \o <<records'[i]>>

\* What flush gets from adding a part of q, and from a verdict on q.
CapturedByMail(q) == Captured(byQueueID'[<<Local, q>>])
CapturedByVerdict(q) ==
  IF HasRow(q) THEN Captured(byQueueID[<<Local, q>>]) ELSE <<>>
=============================================================================
