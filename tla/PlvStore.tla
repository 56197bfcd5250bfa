------------------------------ MODULE PlvStore ------------------------------
(***************************************************************************)
(* The in-memory Store of store.go: the rows (records), the two indexes    *)
(* over them and the rspamd verdicts that wait for their row.              *)
(*                                                                         *)
(* Every operation runs under Store.mu, so each is one atomic action.  The *)
(* callers are goroutines that interleave freely: the mail.log watcher     *)
(* (AddRecords), the rspamd.log watcher (ApplyRspamdVerdict,               *)
(* PruneRspamdPending) and the hourly retention ticker (PurgeOlderThan).   *)
(* Rows that arrive finished, from the database or from a forwarder, are   *)
(* the subject of PlvMirror.                                               *)
(*                                                                         *)
(* Abstraction.  A row keeps what decides where a log line ends up: its    *)
(* identity, the onward queue id, the timestamp and the SET of raw lines.  *)
(* The outcome fields (status, disposition) are the subject of PlvOutcome. *)
(* Rows are numbered from 1 and 0 stands for a key missing from a Go map.  *)
(***************************************************************************)
EXTENDS Naturals, Sequences, FiniteSets

CONSTANTS
  Origins,   \* forwarder names (client-certificate CNs), and Local
  Local,     \* the empty origin of what this instance parsed itself
  QIDs,      \* Postfix queue ids (and the synthetic ids of NOQUEUE rejects)
  NoQid,     \* the empty DeliveryQueueID
  Leg,       \* Leg[q]: the queue id under which the content filter
             \*   re-injected q's message, NoQid when it did not
  Handoff,   \* Handoff[q]: the line that hands q to the filter, 0 if none
  Stamp,     \* Stamp[q]: the times of q's mail.log lines, in log order;
             \*   0 for one that does not parse
  Scored,    \* the queue ids rspamd logs a verdict for
  MaxTime,   \* bound on the retention clock
  Retention  \* is RETENTION_DAYS set?

\* Queue ids name one message each; a re-injected message is not scanned and
\* re-injected a second time, and two messages do not share an onward id.
ASSUME LegAssumption ==
  /\ NoQid \notin QIDs
  /\ Leg \in [QIDs -> QIDs \cup {NoQid}]
  /\ \A p, q \in QIDs : Leg[p] = Leg[q] /\ Leg[p] # NoQid => p = q
  /\ \A p \in QIDs : Leg[p] # NoQid => Leg[p] # p /\ Leg[Leg[p]] = NoQid

ASSUME LogAssumption ==
  /\ Local \in Origins
  /\ Handoff \in [QIDs -> Nat]
  /\ MaxTime \in Nat
  /\ Stamp \in [QIDs -> Seq(0 .. MaxTime)]
  /\ Scored \subseteq QIDs
  /\ Retention \in BOOLEAN

VARIABLES
  records,        \* Store.records
  byQueueID,      \* Store.byQueueID
  byDelivery,     \* Store.byDelivery
  rspamdPending,  \* the queue ids with a held verdict
  fed,            \* fed[q]: the mail.log lines of q handed to the store
  told,           \* the queue ids whose rspamd verdict was read
  cutoff          \* the cutoff of the latest retention purge

index == <<byQueueID, byDelivery>>
input == <<fed, told>>
vars  == <<records, index, rspamdPending, input, cutoff>>

Key  == Origins \X QIDs
\* Line n of queue id q in mail.log; n = 0 is q's rspamd task summary.
Line == [q : QIDs, n : Nat]
Record ==
  [origin   : Origins,
   qid      : QIDs,
   dqid     : QIDs \cup {NoQid},
   ts       : 0 .. MaxTime,
   lines    : SUBSET Line,
   subsumed : BOOLEAN]

RecKey(r)    == <<r.origin, r.qid>>
OnwardKey(r) == <<r.origin, r.dqid>>
RspamdLine(q) == [q |-> q, n |-> 0]

-----------------------------------------------------------------------------
(* How rows are combined.                                                  *)

\* Definitions named Bad... are the mistakes the properties must detect.
BadMergeRecord(dst, src) ==   \* a part that arrives later loses its lines
  [dst EXCEPT !.lines = IF @ = {} THEN src.lines ELSE @]

\* A later part of the same queue id: empty fields are filled, lines united.
MergeRecord(dst, src) ==
  [dst EXCEPT !.ts    = IF @ = 0 THEN src.ts ELSE @,
              !.dqid  = IF @ = NoQid THEN src.dqid ELSE @,
              !.lines = @ \cup src.lines]

\* The outbound leg is folded into the inbound primary.
MergeDeliveryLeg(primary, leg) ==
  [primary EXCEPT !.dqid = leg.qid, !.lines = @ \cup leg.lines]

EnrichRecordWithRspamd(r, q) == [r EXCEPT !.lines = @ \cup {RspamdLine(q)}]

BadRegisterNoFold(s, i) ==    \* a leg that came first stays a row of its own
  [s EXCEPT !.byD[OnwardKey(s.recs[i])] = i]

BadRegisterFirstRow(s, i) ==  \* a missing key is taken for the first row
  LET d == OnwardKey(s.recs[i])
      o == IF s.byQ[d] = 0 THEN 1 ELSE s.byQ[d]
  IN  [s EXCEPT !.byD[d] = i,
                !.recs[i] = IF o = i THEN @ ELSE MergeDeliveryLeg(@, s.recs[o])]

\* Row i expects an outbound leg; a leg that is already a row of its own is
\* folded in and marked.  s holds the rows and the indexes under the lock.
RegisterDelivery(s, i) ==
  LET d == OnwardKey(s.recs[i])
      o == s.byQ[d]
      linked == [s EXCEPT !.byD[d] = i]
  IN  IF o # 0 /\ o # i /\ ~s.recs[o].subsumed
      THEN [recs |-> [s.recs EXCEPT
                        ![i] = MergeDeliveryLeg(s.recs[i], s.recs[o]),
                        ![o] = [s.recs[o] EXCEPT !.subsumed = TRUE]],
            byQ  |-> [s.byQ EXCEPT ![d] = i],
            byD  |-> linked.byD]
      ELSE linked

BadSettleRow(s, i, r) ==      \* the waiting verdict is not applied
  LET t == IF r.dqid # NoQid THEN RegisterDelivery(s, i) ELSE s
  IN  /\ records' = t.recs
      /\ byQueueID' = t.byQ
      /\ byDelivery' = t.byD
      /\ UNCHANGED rspamdPending

\* The end of cases (2) and (3) of AddRecords for row i: register the onward
\* id the new part brings, then apply a verdict that was waiting for the row.
SettleRow(s, i, r) ==
  LET t == IF r.dqid # NoQid THEN RegisterDelivery(s, i) ELSE s
      q == t.recs[i].qid
  IN  /\ records' = IF q \in rspamdPending
                    THEN [t.recs EXCEPT ![i] = EnrichRecordWithRspamd(@, q)]
                    ELSE t.recs
      /\ byQueueID' = t.byQ
      /\ byDelivery' = t.byD
      /\ rspamdPending' = rspamdPending \ {q}

-----------------------------------------------------------------------------
(* AddRecords, for one parsed record r.                                    *)

\* (1) The leg of a primary the store already has.
FoldLeg(r) ==
  LET k == RecKey(r)
      p == byDelivery[k]
  IN  /\ p \in DOMAIN records
      /\ records' = [records EXCEPT ![p] = MergeDeliveryLeg(@, r)]
      /\ byQueueID' = [byQueueID EXCEPT ![k] = p]
      /\ UNCHANGED <<byDelivery, rspamdPending>>

IsLegOfKnown(r) == byDelivery[RecKey(r)] \in DOMAIN records
BadIsKnown(r) ==              \* the test for a folded row is inverted
  /\ byQueueID[RecKey(r)] # 0
  /\ records[byQueueID[RecKey(r)]].subsumed

IsKnown(r) ==
  /\ byQueueID[RecKey(r)] # 0
  /\ ~records[byQueueID[RecKey(r)]].subsumed

\* (2) The same queue id seen again.
MergeSame(r) ==
  LET i == byQueueID[RecKey(r)]
  IN  /\ ~IsLegOfKnown(r)
      /\ IsKnown(r)
      /\ SettleRow([recs |-> [records EXCEPT ![i] = MergeRecord(@, r)],
                    byQ |-> byQueueID, byD |-> byDelivery], i, r)

\* (3) A new row.
AppendNew(r) ==
  LET i == Len(records) + 1
  IN  /\ ~IsLegOfKnown(r)
      /\ ~IsKnown(r)
      /\ SettleRow([recs |-> Append(records, r),
                    byQ  |-> [byQueueID EXCEPT ![RecKey(r)] = i],
                    byD  |-> byDelivery], i, r)

AddRecords(r) == FoldLeg(r) \/ MergeSame(r) \/ AppendNew(r)

-----------------------------------------------------------------------------
(* The other operations.                                                   *)

HasRow(q) ==
  LET i == byQueueID[<<Local, q>>]
  IN  i \in DOMAIN records /\ ~records[i].subsumed

\* The verdict enriches the row of its queue id, or waits for it.
ApplyRspamdVerdict(q) ==
  LET i == byQueueID[<<Local, q>>]
  IN  /\ records' = IF HasRow(q)
                    THEN [records EXCEPT ![i] = EnrichRecordWithRspamd(@, q)]
                    ELSE records
      /\ rspamdPending' = IF HasRow(q) THEN rspamdPending
                                       ELSE rspamdPending \cup {q}
      /\ UNCHANGED index

\* Verdicts older than fifteen minutes are given up; which ones are that old
\* is left open.
PruneRspamdPending(old) ==
  /\ old # {}
  /\ rspamdPending' = rspamdPending \ old
  /\ UNCHANGED <<records, index>>

BadExpired(r, c) == r.ts < c  \* a row without a timestamp counts as old
Expired(r, c) == r.ts # 0 /\ r.ts < c

BadNewIndexStale(recs) == byQueueID  \* the index is not rebuilt
BadNewIndexFirst(recs) ==            \* the first row of a key wins
  [k \in Key |->
     LET own == {i \in DOMAIN recs : RecKey(recs[i]) = k}
     IN  IF own = {} THEN 0 ELSE CHOOSE i \in own : \A j \in own : i <= j]

\* byQueueID rebuilt from the queue id of each kept row; the last row of a
\* key wins.
NewIndex(recs) ==
  [k \in Key |->
     LET own == {i \in DOMAIN recs : RecKey(recs[i]) = k}
     IN  IF own = {} THEN 0 ELSE CHOOSE i \in own : \A j \in own : j <= i]

\* Rows older than c are dropped and the rest move up in their order.
\* byDelivery is not touched.
PurgeOlderThan(c) ==
  LET keep == {i \in DOMAIN records : ~Expired(records[i], c)}
      pos  == 1 .. Cardinality(keep)
  IN  \E row \in [pos -> keep] :
        /\ \A i, j \in pos : i < j => row[i] < row[j]
        /\ records' = [i \in pos |-> records[row[i]]]
        /\ byQueueID' = NewIndex(records')
        /\ UNCHANGED <<byDelivery, rspamdPending>>

-----------------------------------------------------------------------------
(* The callers, and what they have read.                                   *)

\* parseLines over lines a+1 .. b of q.  The onward id is found when the
\* hand-off line is among them and the filter's verdict is still known: the
\* watcher forgets verdicts after five minutes, a rotated file has its own.
ParseLines(q, a, b, known) ==
  [origin   |-> Local,
   qid      |-> q,
   dqid     |-> IF known /\ Handoff[q] \in (a + 1) .. b THEN Leg[q] ELSE NoQid,
   ts       |-> Stamp[q][a + 1],
   lines    |-> {[q |-> q, n |-> n] : n \in (a + 1) .. b},
   subsumed |-> FALSE]

\* The mail side hands over the next lines of q: a finished message, a group
\* flushed as stale after five minutes, or what one log file holds of it.
FeedMail(q) ==
  \E b \in (fed[q] + 1) .. Len(Stamp[q]), known \in BOOLEAN :
    /\ AddRecords(ParseLines(q, fed[q], b, known))
    /\ fed' = [fed EXCEPT ![q] = b]
    /\ UNCHANGED <<told, cutoff>>

BadFeedVerdict(q) ==          \* a summary without a verdict is taken for one
  /\ q \in QIDs \ told
  /\ ApplyRspamdVerdict(q)
  /\ told' = told \cup {q}
  /\ UNCHANGED <<fed, cutoff>>

\* The rspamd side reads the verdict on q.
FeedVerdict(q) ==
  /\ q \in Scored \ told
  /\ ApplyRspamdVerdict(q)
  /\ told' = told \cup {q}
  /\ UNCHANGED <<fed, cutoff>>

Prune ==
  /\ \E old \in SUBSET rspamdPending : PruneRspamdPending(old)
  /\ UNCHANGED <<input, cutoff>>

\* The retention ticker: time moves on, so the cutoff never goes back.
Purge ==
  /\ Retention
  /\ \E c \in cutoff .. MaxTime + 1 : PurgeOlderThan(c) /\ cutoff' = c
  /\ UNCHANGED input

Init ==
  /\ records = <<>>
  /\ byQueueID = [k \in Key |-> 0]
  /\ byDelivery = [k \in Key |-> 0]
  /\ rspamdPending = {}
  /\ fed = [q \in QIDs |-> 0]
  /\ told = {}
  /\ cutoff = 0

Next ==
  \/ \E q \in QIDs : FeedMail(q) \/ FeedVerdict(q)
  \/ Prune
  \/ Purge

Spec == Init /\ [][Next]_vars
-----------------------------------------------------------------------------
(* Properties.                                                             *)

TypeOK ==
  /\ records \in Seq(Record)
  /\ byQueueID \in [Key -> Nat]
  /\ byDelivery \in [Key -> Nat]
  /\ rspamdPending \subseteq Scored
  /\ fed \in [QIDs -> Nat]
  /\ told \subseteq Scored
  /\ cutoff \in 0 .. MaxTime + 1

\* What Search, Stats and Suggest list: every row that was not folded away.
Visible == {i \in DOMAIN records : ~records[i].subsumed}

\* An index never points past the rows.  GetDetail, ApplyRspamdVerdict and
\* AddRecords subscript records with a byQueueID hit; GetDetail and case (2)
\* do so unchecked, so a stale entry after a retention purge is a panic.
IndexInRange == \A k \in Key : byQueueID[k] <= Len(records)

\* "Either queue id resolves to the merged item": the queue id of every line
\* a listed row shows leads GetDetail to that row.
EveryIdResolves ==
  \A i \in Visible : \A l \in records[i].lines :
    byQueueID[<<records[i].origin, l.q>>] = i

\* A row shows lines of one message only: of its own queue id and of the leg
\* that the content filter really made of that message.
NoForeignLines ==
  \A i \in DOMAIN records : \A l \in records[i].lines :
    l.q \in {records[i].qid, Leg[records[i].qid]}

\* Whatever the order in which the parts of a message and of its leg reach
\* the store, each line read is shown, and shown in exactly one listed row.
ShownOnce ==
  \A q \in QIDs : \A n \in 1 .. fed[q] :
    Cardinality({i \in Visible : [q |-> q, n |-> n] \in records[i].lines}) = 1

\* One item per message: a leg whose primary names it is not listed as well.
OneItemPerMessage ==
  \A i, j \in Visible :
    records[i].dqid # NoQid /\ RecKey(records[j]) = OnwardKey(records[i])
      => i = j

\* A verdict is held only until its mail arrives: it never stays behind in
\* rspamdPending while a listed row shows mail-log lines of its queue id.
HeldOnlyUntilSeen ==
  \A q \in rspamdPending : \A i \in Visible :
    \A l \in records[i].lines : l.q # q

\* The index a purge rebuilds leads from every listed row's own queue id back
\* to that row, also when a folded leg left a second row of the same key.
PurgeReindexes ==
  [][cutoff' # cutoff \/ Len(records') < Len(records) =>
       \A i \in Visible' : byQueueID'[RecKey(records'[i])] = i]_vars

\* A log line once shown stays shown until retention removes its row for its
\* age: no merge, fold or verdict loses it, and a purge takes no row that is
\* young enough or has no timestamp.
LinesVanishOnlyByAge ==
  [][\A i \in Visible : records[i].ts \notin 1 .. cutoff' - 1 =>
       \E j \in Visible' : records[i].lines \subseteq records'[j].lines]_vars
=============================================================================
