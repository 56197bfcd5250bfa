-------------------------- MODULE PlvForwardProofs --------------------------
(***************************************************************************)
(* Proofs about PlvForward.                                                *)
(*                                                                         *)
(* Part 1: what the receiver keeps apart and unique with any number of     *)
(* crashes, restarts, late handlers and failed upserts.  The invariant     *)
(* follows the rows along their way.  In the node's store each shows lines *)
(* of its own message only (Links, from PlvStoreProofs); so does every row *)
(* captured, queued, posted or held by a late handler, and the table's     *)
(* rows do.  The receiver's store, made of such rows alone, is Finished:   *)
(* its index leads from each row's queue id to that row.                   *)
(*                                                                         *)
(* Part 2: while the forwarder lives on, upserts succeed, handlers end     *)
(* with their requests and no verdict comes from the second goroutine,     *)
(* nothing is lost on the way and the way implements the safety of         *)
(* PlvDelivery.  The invariant has one view for each place on the way, the *)
(* rows its table would hold if what is before it had arrived, and says    *)
(* how each leads to the next.                                             *)
(***************************************************************************)
EXTENDS PlvForward, PlvMirrorProofs

\* Rows on their way.
Rows == {rows \in Seq(Record) : CleanRows(rows)}
Request == [stage : {"sending", "taken"}, rows : Rows]
Checkpoint == [mail : Nat, rspamd : SUBSET Scored]

Offsets ==
  /\ written \in 0 .. Len(Log) /\ offset \in Nat
  /\ reading => phase = "tailing" /\ offset \in 1 .. Len(Log)
  /\ cp \in Checkpoint /\ saved \in Checkpoint

UnderWay ==
  /\ queue \in Rows /\ batch \in Rows
  /\ captured \in [{"mail", "rspamd"} -> Rows]
  /\ late \subseteq Request

Received == Finished(receiver, Node) /\ CleanTable(table, Node)

FInv == IInv /\ Links /\ Offsets /\ UnderWay /\ Received

-----------------------------------------------------------------------------
(* Rows.                                                                   *)

\* The node is an origin of its own.
LEMMA NodeIsOrigin == Node \in Origins
BY ForwardAssumption

LEMMA NoRows == <<>> \in Rows
<1>1. <<>> \in Seq(Record) /\ Len(<<>>) = 0
  BY EmptySeq
<1> QED  BY <1>1 DEF Rows, CleanRows

LEMMA RowsJoin ==
  ASSUME NEW a \in Rows, NEW b \in Rows
  PROVE  a \o b \in Rows
<1>1. /\ a \in Seq(Record) /\ b \in Seq(Record)
      /\ Len(a) \in Nat /\ Len(b) \in Nat
      /\ \A m \in 1 .. Len(a) : Clean(a[m])
      /\ \A m \in 1 .. Len(b) : Clean(b[m])
  BY LenProperties DEF Rows, CleanRows
<1>2. /\ a \o b \in Seq(Record) /\ Len(a \o b) = Len(a) + Len(b)
      /\ \A m \in 1 .. Len(a) + Len(b) :
           (a \o b)[m] = IF m <= Len(a) THEN a[m] ELSE b[m - Len(a)]
  BY <1>1, ConcatProperties
<1> DEFINE c == a \o b
<1> HIDE DEF c
<1>3. ASSUME NEW m \in 1 .. Len(c) PROVE Clean(c[m])
  <2>1. CASE m <= Len(a)
    BY <1>1, <1>2, <2>1 DEF c
  <2>2. CASE ~(m <= Len(a))
    <3>1. m - Len(a) \in 1 .. Len(b) /\ c[m] = b[m - Len(a)]
      BY <1>1, <1>2, <2>2 DEF c
    <3> QED  BY <1>1, <3>1
  <2> QED  BY <2>1, <2>2
<1> QED  BY <1>2, <1>3 DEF c, Rows, CleanRows

LEMMA LinesOfType ==
  ASSUME NEW q \in QIDs, NEW n \in Nat
  PROVE  LinesOf(q, n) \in Nat
<1>1. IsFiniteSet(1 .. n)
  BY FS_Interval
<1>2. IsFiniteSet({i \in 1 .. n : Log[i] = q})
  BY <1>1, FS_Subset
<1> QED  BY <1>2, FS_CardinalityType DEF LinesOf

-----------------------------------------------------------------------------
(* The node.                                                               *)

LEMMA StoreSteps ==
  ASSUME Offsets, [FNext]_fvars
  PROVE  Unpurged \/ Crash
<1>1. ASSUME UNCHANGED <<memory, input>> PROVE Unpurged
  BY <1>1 DEF memory, vars, Unpurged
<1>2. ASSUME NEW q \in QIDs, FeedMail(q) \/ FeedVerdict(q) PROVE Unpurged
  BY <1>2 DEF Unpurged
<1>3. CASE Write \/ StartTailing \/ ReadLine \/ \E q \in QIDs : WriteVerdict(q)
  BY <1>1, <1>3 DEF Write, StartTailing, ReadLine, WriteVerdict
<1>4. CASE \E q \in QIDs : ParseGroup(q) \/ ParseVerdict(q) \/ FlushStale(q)
                           \/ ReadVerdict(q)
  BY <1>2, <1>4 DEF ParseGroup, ParseVerdict, FlushStale, ReadVerdict, Finalize
<1>5. CASE ProcessLine
  <2>1. CASE UNCHANGED <<memory, input, captured>>
    BY <1>1, <2>1
  <2>2. CASE Finalize(Log[offset])
    <3>1. Log[offset] \in QIDs
      BY <1>5, ForwardAssumption, ElementOfSeq DEF Offsets, ProcessLine
    <3> QED  BY <1>2, <2>2, <3>1 DEF Finalize
  <2> QED  BY <1>5, <2>1, <2>2 DEF ProcessLine
<1>6. CASE PruneVerdicts
  BY <1>6 DEF PruneVerdicts, Unpurged
<1>7. CASE \E w \in {"mail", "rspamd"} : Enqueue(w)
  BY <1>1, <1>7 DEF Enqueue
<1>8. CASE Capture \/ Drain \/ SaveCheckpoint
  BY <1>1, <1>8 DEF Capture, Drain, SaveCheckpoint, node
<1>9. CASE TakeBatch \/ Answer \/ SendFails \/ ReceiverRestart
  BY <1>1, <1>9 DEF TakeBatch, Answer, SendFails, ReceiverRestart, node
<1>10. CASE \E h \in late : LateTake(h) \/ LatePersist(h)
  BY <1>1, <1>10 DEF LateTake, LatePersist, node
<1>11. CASE UNCHANGED fvars
  BY <1>1, <1>11 DEF fvars, node
<1> QED  BY <1>3, <1>4, <1>5, <1>6, <1>7, <1>8, <1>9, <1>10, <1>11 DEF FNext

\* The forwarder comes up with an empty store and a saved offset or none.
LEMMA CrashStore ==
  ASSUME IInv, Offsets, Crash
  PROVE  IInv' /\ Links'
<1> DEFINE s == [recs |-> records', byQ |-> byQueueID', byD |-> byDelivery']
           from == IF saved.mail > 0 THEN saved ELSE Start
<1>1. s.recs = <<>> /\ s.byQ = [k \in Key |-> 0] /\ s.byD = [k \in Key |-> 0]
  BY DEF Crash
<1>2. <<>> \in Seq(Record) /\ Len(<<>>) = 0
  BY EmptySeq
<1>3. Sound(s)
  BY <1>1, <1>2 DEF Sound, Store
<1>4. from \in Checkpoint
  BY DEF Offsets, Start, Checkpoint
<1>5. /\ fed' = [q \in QIDs |-> LinesOf(q, from.mail)] /\ told' = from.rspamd
      /\ rspamdPending' = {} /\ cutoff' = cutoff
  BY DEF Crash
<1>6. fed' \in [QIDs -> Nat] /\ told' \subseteq Scored
  <2> HIDE DEF from
  <2>1. from.mail \in Nat /\ from.rspamd \subseteq Scored
    BY <1>4 DEF Checkpoint
  <2>2. \A q \in QIDs : LinesOf(q, from.mail) \in Nat
    BY <2>1, LinesOfType
  <2> QED  BY <1>5, <2>1, <2>2
<1>7. IInv'
  BY <1>3, <1>5, <1>6 DEF IInv, InputOK, Stored
<1>8. \A q \in QIDs : <<Local, q>> \in Key
  BY LogAssumption DEF Key
<1>9. Linked(s)
  BY <1>1, <1>2, <1>8 DEF Linked, KeyLinked
<1>10. DOMAIN records' = {}
  BY <1>1
<1>11. Links'
  BY <1>9, <1>10 DEF Links, Stored
<1> QED  BY <1>7, <1>11

LEMMA StoreStep ==
  ASSUME FInv, [FNext]_fvars
  PROVE  IInv' /\ Links'
<1>1. CASE Crash
  BY <1>1, CrashStore DEF FInv
<1>2. CASE Unpurged
  <2>1. [Next]_vars
    BY <1>2 DEF Unpurged, Next
  <2> QED  BY <1>2, <2>1, IInvStep, LinksStep DEF FInv
<1> QED  BY <1>1, <1>2, StoreSteps DEF FInv

LEMMA OffsetsStep ==
  ASSUME FInv, [FNext]_fvars
  PROVE  Offsets'
<1>1. /\ written \in 0 .. Len(Log) /\ offset \in Nat /\ Len(Log) \in Nat
      /\ reading => phase = "tailing" /\ offset \in 1 .. Len(Log)
      /\ cp \in Checkpoint /\ saved \in Checkpoint /\ told \subseteq Scored
  BY ForwardAssumption, LenProperties DEF FInv, Offsets, IInv, InputOK
<1> USE DEF Offsets
<1>2. ASSUME UNCHANGED <<written, watching, cp, saved>> PROVE Offsets'
  BY <1>1, <1>2 DEF watching
<1>3. CASE Write
  BY <1>1, <1>3 DEF Write, watching, run
<1>4. CASE StartTailing
  BY <1>1, <1>4 DEF StartTailing, logs, run
<1>5. CASE ReadLine
  BY <1>1, <1>5 DEF ReadLine, MailIdle, logs, run
<1>6. CASE ProcessLine
  BY <1>1, <1>6 DEF ProcessLine, logs, run
<1>7. CASE Capture
  <2>1. cp' \in Checkpoint
    BY <1>1, <1>7 DEF Capture, Checkpoint
  <2> QED  BY <1>1, <1>7, <2>1 DEF Capture, node, logs, watching
<1>8. CASE SaveCheckpoint
  BY <1>1, <1>8 DEF SaveCheckpoint, node, logs, watching
<1>9. CASE Crash
  <2> DEFINE from == IF saved.mail > 0 THEN saved ELSE Start
  <2>1. from \in Checkpoint
    BY <1>1 DEF Start, Checkpoint
  <2>2. offset' = from.mail /\ reading' = FALSE /\ UNCHANGED <<written, cp, saved>>
    BY <1>9 DEF Crash, logs
  <2> HIDE DEF from
  <2>3. offset' \in Nat
    BY <2>1, <2>2 DEF Checkpoint
  <2> QED  BY <1>1, <2>2, <2>3
<1>10. CASE \E q \in QIDs : \/ WriteVerdict(q) \/ ParseGroup(q) \/ ParseVerdict(q)
                            \/ FlushStale(q) \/ ReadVerdict(q)
  BY <1>2, <1>10 DEF WriteVerdict, ParseGroup, ParseVerdict, FlushStale, ReadVerdict,
                     logs, run
<1>11. CASE PruneVerdicts \/ \E w \in {"mail", "rspamd"} : Enqueue(w)
  BY <1>2, <1>11 DEF PruneVerdicts, Enqueue, logs, run
<1>12. CASE Drain \/ TakeBatch \/ Answer \/ SendFails \/ ReceiverRestart
  BY <1>2, <1>12 DEF Drain, TakeBatch, Answer, SendFails, ReceiverRestart, node, logs
<1>13. CASE \E h \in late : LateTake(h) \/ LatePersist(h)
  BY <1>2, <1>13 DEF LateTake, LatePersist, node, logs, run
<1>14. CASE UNCHANGED fvars
  BY <1>2, <1>14 DEF fvars, node, logs, run
<1> QED  BY <1>3, <1>4, <1>5, <1>6, <1>7, <1>8, <1>9, <1>10, <1>11, <1>12, <1>13,
            <1>14 DEF FNext

-----------------------------------------------------------------------------
(* The way.                                                                *)

LEMMA FinalizeRows ==
  ASSUME FInv, NEW q \in QIDs, Finalize(q)
  PROVE  captured' \in [{"mail", "rspamd"} -> Rows]
<1>1. captured \in [{"mail", "rspamd"} -> Rows]
  BY DEF FInv, UnderWay
<1>2. CleanRows(CapturedByMail(q))
  BY CapturedByMailRows DEF FInv, Finalize
<1>3. CapturedByMail(q) \in Rows
  BY <1>2 DEF Rows, CleanRows
<1> QED  BY <1>1, <1>3 DEF Finalize

\* A request that outlives its caller has the rows of the batch.
LEMMA LateRequest ==
  ASSUME batch \in Rows, pc \in {"sending", "taken"}
  PROVE  [stage |-> pc, rows |-> batch] \in Request
BY DEF Request

LEMMA AbandonRows ==
  ASSUME UnderWay, Abandon
  PROVE  late' \subseteq Request
BY LateRequest DEF UnderWay, Abandon

LEMMA UnderWayStep ==
  ASSUME FInv, [FNext]_fvars
  PROVE  UnderWay'
<1>1. /\ queue \in Rows /\ batch \in Rows
      /\ captured \in [{"mail", "rspamd"} -> Rows]
      /\ late \subseteq Request
  BY DEF FInv, UnderWay
<1>2. IInv /\ Links
  BY DEF FInv
<1> USE DEF UnderWay
<1>3. ASSUME UNCHANGED <<queue, batch, captured, late>> PROVE UnderWay'
  BY <1>1, <1>3
<1>4. CASE Write \/ StartTailing \/ ReadLine \/ PruneVerdicts \/ Capture \/ TakeBatch
           \/ SaveCheckpoint
  BY <1>3, <1>4 DEF Write, StartTailing, ReadLine, PruneVerdicts, Capture, TakeBatch,
                    SaveCheckpoint, run, receiving, node
<1>5. ASSUME NEW q \in QIDs, WriteVerdict(q) PROVE UnderWay'
  BY <1>3, <1>5 DEF WriteVerdict, run, receiving
<1>6. ASSUME NEW q \in QIDs, ParseGroup(q) PROVE UnderWay'
  <2>1. CleanRows(CapturedByMail(q))
    BY <1>2, <1>6, CapturedByMailRows DEF ParseGroup
  <2>2. queue' \in Rows
    BY <1>1, <1>6, <2>1, RowsJoin DEF ParseGroup, Rows, CleanRows
  <2> QED  BY <1>1, <1>6, <2>2 DEF ParseGroup, run, receiving
<1>7. ASSUME NEW q \in QIDs, ParseVerdict(q) PROVE UnderWay'
  <2>1. CleanRows(CapturedByVerdict(q))
    BY <1>2, <1>7, CapturedByVerdictRows DEF ParseVerdict
  <2>2. queue' \in Rows
    BY <1>1, <1>7, <2>1, RowsJoin DEF ParseVerdict, Rows, CleanRows
  <2> QED  BY <1>1, <1>7, <2>2 DEF ParseVerdict, run, receiving
<1>8. ASSUME NEW q \in QIDs, FlushStale(q) PROVE UnderWay'
  <2>1. captured' \in [{"mail", "rspamd"} -> Rows]
    BY <1>8, FinalizeRows DEF FlushStale
  <2> QED  BY <1>1, <1>8, <2>1 DEF FlushStale, run, receiving
<1>9. ASSUME NEW q \in QIDs, ReadVerdict(q) PROVE UnderWay'
  <2>1. CleanRows(CapturedByVerdict(q))
    BY <1>2, <1>9, CapturedByVerdictRows DEF ReadVerdict
  <2>2. captured' \in [{"mail", "rspamd"} -> Rows]
    BY <1>1, <1>9, <2>1 DEF ReadVerdict, Rows, CleanRows
  <2> QED  BY <1>1, <1>9, <2>2 DEF ReadVerdict, run, receiving
<1>10. CASE ProcessLine
  <2>1. CASE UNCHANGED <<memory, input, captured>>
    BY <1>1, <1>10, <2>1 DEF ProcessLine, run, receiving
  <2>2. CASE Finalize(Log[offset])
    <3>1. Log[offset] \in QIDs
      BY <1>10, ForwardAssumption, ElementOfSeq DEF FInv, Offsets, ProcessLine
    <3>2. captured' \in [{"mail", "rspamd"} -> Rows]
      BY <2>2, <3>1, FinalizeRows
    <3> QED  BY <1>1, <1>10, <3>2 DEF ProcessLine, run, receiving
  <2> QED  BY <1>10, <2>1, <2>2 DEF ProcessLine
<1>11. ASSUME NEW w \in {"mail", "rspamd"}, Enqueue(w) PROVE UnderWay'
  <2>1. queue' \in Rows
    BY <1>1, <1>11, RowsJoin DEF Enqueue
  <2>2. captured' \in [{"mail", "rspamd"} -> Rows]
    BY <1>1, <1>11, NoRows DEF Enqueue
  <2> QED  BY <1>1, <1>11, <2>1, <2>2 DEF Enqueue, run, receiving
<1>12. CASE Drain
  BY <1>1, <1>12, NoRows DEF Drain, node, receiving
<1>13. CASE Answer
  BY <1>1, <1>13, NoRows DEF Answer, node
<1>14. CASE SendFails
  <2>1. queue' \in Rows
    BY <1>1, <1>14, RowsJoin DEF SendFails, Requeue
  <2>2. late' \subseteq Request
    BY <1>1, <1>14, AbandonRows DEF SendFails
  <2> QED  BY <1>1, <1>14, <2>1, <2>2, NoRows DEF SendFails, node
<1>15. ASSUME NEW h \in late, LateTake(h) PROVE UnderWay'
  <2>1. [h EXCEPT !.stage = "taken"] \in Request
    BY <1>1 DEF Request
  <2> QED  BY <1>1, <1>15, <2>1 DEF LateTake, node, run
<1>16. ASSUME NEW h \in late, LatePersist(h) PROVE UnderWay'
  BY <1>1, <1>16 DEF LatePersist, node, run
<1>17. CASE ReceiverRestart
  BY <1>1, <1>17 DEF ReceiverRestart, node
<1>18. CASE Crash
  <2>1. late' \subseteq Request
    BY <1>1, <1>18, LateRequest DEF Crash
  <2> QED  BY <1>18, <2>1, NoRows DEF Crash, Nothing
<1>19. CASE UNCHANGED fvars
  BY <1>3, <1>19 DEF fvars, node, run, receiving
<1> QED  BY <1>4, <1>5, <1>6, <1>7, <1>8, <1>9, <1>10, <1>11, <1>12, <1>13, <1>14,
            <1>15, <1>16, <1>17, <1>18, <1>19 DEF FNext

-----------------------------------------------------------------------------
(* The receiver.                                                           *)

LEMMA TakeFinished ==
  ASSUME Received, NEW rows \in Rows, Take(rows)
  PROVE  Finished(receiver', Node)
BY IngestSnapshotsFinished, NodeIsOrigin DEF Received, Take, Rows

LEMMA PersistClean ==
  ASSUME Received, NEW rows \in Rows, Persist(rows)
  PROVE  CleanTable(table', Node)
<1>1. CASE UNCHANGED table
  BY <1>1 DEF Received
<1>2. CASE table' = FoldLeft(Upsert, table, FromOrigin(Node, rows))
  <2> DEFINE b == FromOrigin(Node, rows)
             n == Len(rows)
  <2>1. /\ DOMAIN b = 1 .. n /\ n \in Nat
        /\ \A m \in 1 .. n : Clean(b[m]) /\ b[m].origin = Node
    BY FromOriginClean, NodeIsOrigin DEF Rows
  <2>2. CleanTable(table, Node)
    BY DEF Received
  <2> HIDE DEF b, n
  <2>3. CleanTable(FoldLeft(Upsert, table, b), Node)
    BY <2>1, <2>2, UpsertRecordsClean
  <2> QED  BY <1>2, <2>3 DEF b
<1> QED  BY <1>1, <1>2 DEF Persist

LEMMA ReceivedStep ==
  ASSUME FInv, [FNext]_fvars
  PROVE  Received'
<1>1. Received /\ Finished(receiver, Node) /\ CleanTable(table, Node)
  BY DEF FInv, Received
<1>2. batch \in Rows /\ \A h \in late : h.rows \in Rows
  BY DEF FInv, UnderWay, Request
<1>3. ASSUME UNCHANGED <<receiver, table>> PROVE Received'
  BY <1>1, <1>3 DEF Received
<1>4. CASE \/ Write \/ StartTailing \/ ReadLine \/ ProcessLine \/ PruneVerdicts
           \/ \E q \in QIDs : \/ WriteVerdict(q) \/ ParseGroup(q) \/ ParseVerdict(q)
                              \/ FlushStale(q) \/ ReadVerdict(q)
           \/ \E w \in {"mail", "rspamd"} : Enqueue(w)
  BY <1>3, <1>4 DEF Write, StartTailing, ReadLine, ProcessLine, PruneVerdicts,
       WriteVerdict, ParseGroup, ParseVerdict, FlushStale, ReadVerdict, Enqueue,
       receiving
<1>5. CASE Capture \/ Drain \/ SaveCheckpoint \/ Crash
  BY <1>3, <1>5 DEF Capture, Drain, SaveCheckpoint, Crash, receiving
<1>6. CASE TakeBatch
  BY <1>1, <1>2, <1>6, TakeFinished DEF TakeBatch, Received
<1>7. CASE Answer
  BY <1>1, <1>2, <1>7, PersistClean DEF Answer, Received
<1>8. CASE SendFails
  <2>1. CleanTable(table', Node)
    BY <1>1, <1>2, <1>8, PersistClean DEF SendFails, Abandon
  <2> QED  BY <1>1, <1>8, <2>1 DEF SendFails, Received
<1>9. ASSUME NEW h \in late, LateTake(h) PROVE Received'
  BY <1>1, <1>2, <1>9, TakeFinished DEF LateTake, Received
<1>10. ASSUME NEW h \in late, LatePersist(h) PROVE Received'
  BY <1>1, <1>2, <1>10, PersistClean DEF LatePersist, Received
<1>11. CASE ReceiverRestart
  <2>1. Finished(receiver', Node)
    BY <1>1, <1>11, LoadedFinished, NodeIsOrigin DEF ReceiverRestart
  <2> QED  BY <1>1, <1>11, <2>1 DEF ReceiverRestart, Received
<1>12. CASE UNCHANGED fvars
  BY <1>3, <1>12 DEF fvars, receiving
<1> QED  BY <1>4, <1>5, <1>6, <1>7, <1>8, <1>9, <1>10, <1>11, <1>12 DEF FNext

-----------------------------------------------------------------------------
(* The theorems.                                                           *)

LEMMA FInvInit == FInit => FInv
<1> SUFFICES ASSUME FInit PROVE FInv
  OBVIOUS
<1>1. IInv /\ Links
  BY IInvInit, LinksInit DEF FInit
<1>2. Offsets
  BY ForwardAssumption DEF FInit, Offsets, Start, Checkpoint
<1>3. UnderWay
  BY NoRows DEF FInit, UnderWay, Nothing
<1>4. Received
  BY EmptyStoreFinished, EmptyTableClean, NodeIsOrigin DEF FInit, Received
<1> QED  BY <1>1, <1>2, <1>3, <1>4 DEF FInv

LEMMA FInvStep == FInv /\ [FNext]_fvars => FInv'
<1> SUFFICES ASSUME FInv, [FNext]_fvars PROVE FInv'
  OBVIOUS
<1> QED  BY StoreStep, OffsetsStep, UnderWayStep, ReceivedStep DEF FInv

\* At the receiver, every row is the one its own queue id leads to, however
\* often its rows were sent, by whichever life of the forwarder, handled late,
\* or loaded from a table that missed some of them.
THEOREM ReceiverIsDeduplicated == FSpec => []ReceiverDedupes
<1>1. FInv => ReceiverDedupes
  BY Parts DEF FInv, Received, Finished, RowFinished, ReceiverDedupes
<1> QED  BY <1>1, FInvInit, FInvStep, PTL DEF FSpec

\* No row of the receiver shows a line of another message and no id leads to
\* one, through the same faults.
THEOREM ReceiverMixesNothingUp == FSpec => []ReceiverKeepsApart
<1>1. ASSUME FInv PROVE ReceiverKeepsApart
  <2>1. /\ Sound(receiver)
        /\ \A i \in 1 .. Len(receiver.recs) : RowFinished(receiver, Node, i)
        /\ \A q \in QIDs : KeyFinished(receiver, Node, q)
    BY <1>1 DEF FInv, Received, Finished
  <2>2. DOMAIN receiver.recs = 1 .. Len(receiver.recs)
    BY <2>1, Parts
  <2>3. \A r \in Range(receiver.recs) : \A l \in r.lines : l.q \in {r.qid, Leg[r.qid]}
    BY <2>1, <2>2 DEF Range, RowFinished, Clean
  <2>4. \A q \in QIDs : LET i == receiver.byQ[<<Node, q>>]
                        IN  i # 0 => q \in {receiver.recs[i].qid, Leg[receiver.recs[i].qid]}
    BY <2>1 DEF KeyFinished
  <2> QED  BY <2>3, <2>4 DEF ReceiverKeepsApart
<1> QED  BY <1>1, FInvInit, FInvStep, PTL DEF FSpec

-----------------------------------------------------------------------------
(* Part 2.                                                                 *)
(*                                                                         *)
(* What a table comes to hold.  A view gives for each queue id the node's  *)
(* row of it, as a table that missed nothing would.                        *)

View == [QIDs -> Record \cup {NoRow}]

\* Which of the rows are snapshots of q: "all", or the "listed" ones.
Sent(rows, q, which) ==
  {m \in 1 .. Len(rows) : rows[m].qid = q /\ (which = "all" \/ ~rows[m].subsumed)}

LastOf(S, m) == m \in S /\ \A l \in S : l <= m

\* A row as the receiver stores it.
Home(r) == [r EXCEPT !.origin = Node]

\* The view after the rows are upserted.
Newest(x, rows) ==
  [q \in QIDs |-> LET S == Sent(rows, q, "all")
                  IN  IF S = {} THEN x[q] ELSE Home(rows[Max(S)])]

LinesAt(x, q) == IF x[q] = NoRow THEN {} ELSE x[q].lines

\* No line is in folded rows alone, and no listed row is the leg of another.
Whole(x) ==
  /\ \A q \in QIDs : \A l \in LinesAt(x, q) :
       \E p \in QIDs : ~x[p].subsumed /\ l \in x[p].lines
  /\ \A p, q \in QIDs : ~x[p].subsumed /\ ~x[q].subsumed => x[p].dqid # q

\* The rows take nothing back, and who follows the listed ones alone, as the
\* receiver does, comes to have the same lines of each queue id.
Leads(x, rows) ==
  \A q \in QIDs :
    LET y == LinesAt(Newest(x, rows), q)
        S == Sent(rows, q, "listed")
    IN  /\ LinesAt(x, q) \subseteq y
        /\ S = {} => y = LinesAt(x, q)
        /\ \A m : LastOf(S, m) => rows[m].lines = y

Stage(x, rows) == Whole(x) /\ Leads(x, rows)

\* The receiver changes nothing of a row but the origin.
LEMMA HomeRow ==
  ASSUME NEW r \in Record
  PROVE  /\ Home(r) \in Record /\ Home(r) # NoRow
         /\ Home(r).qid = r.qid /\ Home(r).lines = r.lines /\ Home(r).dqid = r.dqid
         /\ Home(r).subsumed = r.subsumed /\ Home(r).origin = Node
<1>1. Home(r) \in Record
  BY NodeIsOrigin DEF Home, Record
<1> QED  BY <1>1, NoRowIsNoRecord DEF Home, Record

\* Where there are snapshots there is a last one.
LEMMA LastSent ==
  ASSUME NEW rows \in Seq(Record), NEW q, NEW which
  PROVE  LET S == Sent(rows, q, which)
         IN  \/ S = {}
             \/ LastOf(S, Max(S)) /\ Max(S) \in 1 .. Len(rows)
<1> DEFINE S == Sent(rows, q, which)
<1>1. Len(rows) \in Nat /\ S \in SUBSET (1 .. Len(rows))
  BY LenProperties DEF Sent
<1> HIDE DEF S
<1>2. S # {} => LastOf(S, Max(S)) /\ Max(S) \in 1 .. Len(rows)
  BY <1>1, LastIsMax DEF LastOf
<1> QED  BY <1>2 DEF S

\* There is one last element.
LEMMA LastIsUnique ==
  ASSUME NEW S \in SUBSET Nat, NEW m, NEW n, LastOf(S, m), LastOf(S, n)
  PROVE  m = n
<1>1. m \in Nat /\ n \in Nat /\ m <= n /\ n <= m
  BY DEF LastOf
<1> QED  BY <1>1

\* The newest snapshot counts.
LEMMA NewestIs ==
  ASSUME NEW x \in View, NEW rows \in Seq(Record)
  PROVE  /\ Newest(x, rows) \in View
         /\ \A q \in QIDs :
              /\ Sent(rows, q, "all") = {} => Newest(x, rows)[q] = x[q]
              /\ \A m : LastOf(Sent(rows, q, "all"), m) =>
                   /\ m \in 1 .. Len(rows) /\ rows[m] \in Record
                   /\ Newest(x, rows)[q] = Home(rows[m])
<1>1. Len(rows) \in Nat /\ \A m \in 1 .. Len(rows) : rows[m] \in Record
  BY LenProperties, ElementOfSeq
<1>2. ASSUME NEW q \in QIDs, NEW m, LastOf(Sent(rows, q, "all"), m)
      PROVE  /\ m \in 1 .. Len(rows) /\ rows[m] \in Record
             /\ Newest(x, rows)[q] = Home(rows[m])
  <2> DEFINE S == Sent(rows, q, "all")
  <2>1. S # {} /\ S \in SUBSET Nat /\ m \in 1 .. Len(rows)
    BY <1>1, <1>2 DEF LastOf, Sent
  <2>2. LastOf(S, Max(S))
    BY <2>1, LastSent
  <2>3. Newest(x, rows)[q] = Home(rows[Max(S)])
    BY <2>1 DEF Newest
  <2> HIDE DEF S
  <2>4. Max(S) = m
    BY <1>2, <2>1, <2>2, LastIsUnique DEF S
  <2> QED  BY <1>1, <2>1, <2>3, <2>4
<1>3. ASSUME NEW q \in QIDs, Sent(rows, q, "all") = {}
      PROVE  Newest(x, rows)[q] = x[q]
  BY <1>3 DEF Newest
<1>4. ASSUME NEW q \in QIDs PROVE Newest(x, rows)[q] \in Record \cup {NoRow}
  <2>1. CASE Sent(rows, q, "all") = {}
    BY <1>3, <2>1 DEF View
  <2>2. CASE Sent(rows, q, "all") # {}
    <3>1. PICK m : LastOf(Sent(rows, q, "all"), m)
      BY <2>2, LastSent
    <3> QED  BY <1>2, <3>1, HomeRow
  <2> QED  BY <2>1, <2>2
<1>5. Newest(x, rows) = [q \in QIDs |-> Newest(x, rows)[q]]
  BY DEF Newest
<1>6. Newest(x, rows) \in View
  BY <1>4, <1>5 DEF View
<1> QED  BY <1>2, <1>3, <1>6

\* The snapshots A of batch a and B of batch b are the snapshots C of both in a row.
Joined(a, A, b, B, c, C) ==
  /\ C \in SUBSET Nat
  /\ \A m : LastOf(B, m) => LastOf(C, Len(a) + m) /\ c[Len(a) + m] = b[m]
  /\ B = {} => \A m : LastOf(A, m) => LastOf(C, m) /\ c[m] = a[m]
  /\ A = {} /\ B = {} => C = {}

LEMMA SentJoin ==
  ASSUME NEW a \in Seq(Record), NEW b \in Seq(Record), NEW q, NEW which
  PROVE  Joined(a, Sent(a, q, which), b, Sent(b, q, which), a \o b, Sent(a \o b, q, which))
<1> DEFINE A == Sent(a, q, which)
           B == Sent(b, q, which)
           c == a \o b
           C == Sent(c, q, which)
<1>1. /\ Len(a) \in Nat /\ Len(b) \in Nat /\ Len(c) = Len(a) + Len(b)
      /\ \A m \in 1 .. Len(a) + Len(b) : c[m] = IF m <= Len(a) THEN a[m] ELSE b[m - Len(a)]
  BY LenProperties, ConcatProperties
<1> HIDE DEF c
<1>2. ASSUME NEW m \in 1 .. Len(a) PROVE m \in 1 .. Len(c) /\ c[m] = a[m]
  BY <1>1
<1>3. ASSUME NEW m \in 1 .. Len(b)
      PROVE  Len(a) + m \in 1 .. Len(c) /\ c[Len(a) + m] = b[m]
  <2>1. Len(a) + m \in 1 .. Len(a) + Len(b) /\ ~(Len(a) + m <= Len(a))
        /\ (Len(a) + m) - Len(a) = m
    BY <1>1
  <2> QED  BY <1>1, <2>1
<1>4. ASSUME NEW l \in C
      PROVE  \/ l \in A
             \/ \E m \in B : l = Len(a) + m
  <2>1. l \in 1 .. Len(c) /\ c[l].qid = q /\ (which = "all" \/ ~c[l].subsumed)
    BY DEF Sent
  <2>2. CASE l <= Len(a)
    <3>1. l \in 1 .. Len(a) /\ c[l] = a[l]
      BY <1>1, <2>1, <2>2
    <3> QED  BY <2>1, <3>1 DEF Sent
  <2>3. CASE ~(l <= Len(a))
    <3>1. l - Len(a) \in 1 .. Len(b) /\ c[l] = b[l - Len(a)] /\ l = Len(a) + (l - Len(a))
      BY <1>1, <2>1, <2>3
    <3> QED  BY <2>1, <3>1 DEF Sent
  <2> QED  BY <2>2, <2>3
<1>5. A \in SUBSET (1 .. Len(a)) /\ B \in SUBSET (1 .. Len(b))
  BY DEF Sent
<1>6. ASSUME NEW m, LastOf(B, m) PROVE LastOf(C, Len(a) + m) /\ c[Len(a) + m] = b[m]
  <2>1. m \in 1 .. Len(b) /\ b[m].qid = q /\ (which = "all" \/ ~b[m].subsumed)
    BY <1>6 DEF LastOf, Sent
  <2>2. Len(a) + m \in C
    BY <1>3, <2>1 DEF Sent
  <2>3. ASSUME NEW l \in C PROVE l <= Len(a) + m
    <3>1. CASE l \in A
      BY <1>1, <1>5, <2>1, <3>1
    <3>2. CASE \E k \in B : l = Len(a) + k
      <4>1. PICK k \in B : l = Len(a) + k
        BY <3>2
      <4>2. k <= m /\ k \in 1 .. Len(b)
        BY <1>5, <1>6 DEF LastOf
      <4> QED  BY <1>1, <2>1, <4>1, <4>2
    <3> QED  BY <1>4, <3>1, <3>2
  <2> QED  BY <1>3, <2>1, <2>2, <2>3 DEF LastOf
<1>7. ASSUME B = {}, NEW m, LastOf(A, m) PROVE LastOf(C, m) /\ c[m] = a[m]
  <2>1. m \in 1 .. Len(a) /\ a[m].qid = q /\ (which = "all" \/ ~a[m].subsumed)
    BY <1>7 DEF LastOf, Sent
  <2>2. m \in C
    BY <1>2, <2>1 DEF Sent
  <2>3. \A l \in C : l <= m
    BY <1>4, <1>7 DEF LastOf
  <2> QED  BY <1>2, <2>1, <2>2, <2>3 DEF LastOf
<1>8. ASSUME A = {}, B = {} PROVE C = {}
  BY <1>4, <1>8
<1>9. C \in SUBSET Nat
  BY <1>1 DEF Sent
<1> HIDE DEF A, B, C
<1>10. Joined(a, A, b, B, c, C)
  BY <1>6, <1>7, <1>8, <1>9 DEF Joined
<1> QED  BY <1>10 DEF A, B, C, c

\* Views are functions.
LEMMA ViewsEqual ==
  ASSUME NEW x \in View, NEW y \in View, \A q \in QIDs : x[q] = y[q]
  PROVE  x = y
BY DEF View

LEMMA NewestJoin ==
  ASSUME NEW x \in View, NEW a \in Seq(Record), NEW b \in Seq(Record)
  PROVE  Newest(Newest(x, a), b) = Newest(x, a \o b)
<1> DEFINE c == a \o b
<1>1. c \in Seq(Record) /\ Newest(x, a) \in View
  BY ConcatProperties, NewestIs
<1>4. c = a \o b
  OBVIOUS
<1> HIDE DEF c
<1>2. Newest(Newest(x, a), b) \in View /\ Newest(x, c) \in View
  BY <1>1, NewestIs
<1>3. ASSUME NEW q \in QIDs PROVE Newest(Newest(x, a), b)[q] = Newest(x, c)[q]
  <2> DEFINE A == Sent(a, q, "all")
             B == Sent(b, q, "all")
             C == Sent(c, q, "all")
  <2>1. /\ A = {} \/ LastOf(A, Max(A))
        /\ B = {} \/ LastOf(B, Max(B))
    BY LastSent
  <2>3. /\ A = {} => Newest(x, a)[q] = x[q]
        /\ LastOf(A, Max(A)) => Newest(x, a)[q] = Home(a[Max(A)])
    BY NewestIs
  <2>4. /\ B = {} => Newest(Newest(x, a), b)[q] = Newest(x, a)[q]
        /\ LastOf(B, Max(B)) => Newest(Newest(x, a), b)[q] = Home(b[Max(B)])
    BY <1>1, NewestIs
  <2>5. /\ C = {} => Newest(x, c)[q] = x[q]
        /\ \A m : LastOf(C, m) => Newest(x, c)[q] = Home(c[m])
    BY <1>1, NewestIs
  <2>0. Joined(a, A, b, B, c, C)
    BY SentJoin DEF c
  <2> HIDE DEF A, B, C
  <2>2. /\ LastOf(B, Max(B)) =>
             /\ LastOf(C, Len(a) + Max(B)) /\ c[Len(a) + Max(B)] = b[Max(B)]
        /\ B = {} /\ LastOf(A, Max(A)) => LastOf(C, Max(A)) /\ c[Max(A)] = a[Max(A)]
        /\ A = {} /\ B = {} => C = {}
    BY <2>0 DEF Joined
  <2>6. CASE LastOf(B, Max(B))
    BY <2>2, <2>4, <2>5, <2>6
  <2>7. CASE B = {} /\ LastOf(A, Max(A))
    BY <2>2, <2>3, <2>4, <2>5, <2>7
  <2>8. CASE A = {} /\ B = {}
    BY <2>2, <2>3, <2>4, <2>5, <2>8
  <2> QED  BY <2>1, <2>6, <2>7, <2>8
<1> QED  BY <1>2, <1>3, <1>4, ViewsEqual

\* Rows that arrive again change nothing.
LEMMA NewestAgain ==
  ASSUME NEW x \in View, NEW a \in Seq(Record)
  PROVE  Newest(Newest(x, a), a) = Newest(x, a)
<1>1. Newest(x, a) \in View
  BY NewestIs
<1>2. Newest(Newest(x, a), a) \in View
  BY <1>1, NewestIs
<1>3. ASSUME NEW q \in QIDs PROVE Newest(Newest(x, a), a)[q] = Newest(x, a)[q]
  <2>1. CASE Sent(a, q, "all") = {}
    BY <1>1, <2>1, NewestIs
  <2>2. CASE LastOf(Sent(a, q, "all"), Max(Sent(a, q, "all")))
    BY <1>1, <2>2, NewestIs
  <2> QED  BY <2>1, <2>2, LastSent
<1> QED  BY <1>1, <1>2, <1>3, ViewsEqual

\* No rows, no snapshots.
LEMMA NoneSent ==
  ASSUME NEW q, NEW which
  PROVE  <<>> \in Seq(Record) /\ Sent(<<>>, q, which) = {}
<1>1. <<>> \in Seq(Record) /\ Len(<<>>) = 0 /\ 1 .. 0 = {}
  BY EmptySeq
<1> QED  BY <1>1 DEF Sent

\* No rows change nothing,
LEMMA NewestOfNone ==
  ASSUME NEW x \in View
  PROVE  Newest(x, <<>>) = x
<1>1. <<>> \in Seq(Record) /\ \A q \in QIDs : Sent(<<>>, q, "all") = {}
  BY NoneSent
<1>2. Newest(x, <<>>) \in View /\ \A q \in QIDs : Newest(x, <<>>)[q] = x[q]
  BY <1>1, NewestIs
<1> QED  BY <1>2, ViewsEqual

\* lead on from any view,
LEMMA StageOfNone ==
  ASSUME NEW x \in View, Whole(x)
  PROVE  Stage(x, <<>>)
<1>1. Newest(x, <<>>) = x
  BY NewestOfNone
<1>2. \A q \in QIDs : Sent(<<>>, q, "listed") = {}
  BY NoneSent
<1>3. Leads(x, <<>>)
  BY <1>1, <1>2 DEF Leads, LastOf
<1> QED  BY <1>3 DEF Stage

\* and rows that arrived lead on from where they led.
LEMMA StageAgain ==
  ASSUME NEW x \in View, NEW a \in Seq(Record), Stage(x, a), Whole(Newest(x, a))
  PROVE  Stage(Newest(x, a), a)
<1>1. Newest(Newest(x, a), a) = Newest(x, a)
  BY NewestAgain
<1>2. \A q \in QIDs : \A m :
        LastOf(Sent(a, q, "listed"), m) => a[m].lines = LinesAt(Newest(x, a), q)
  BY DEF Stage, Leads
<1> DEFINE y == Newest(x, a)
<1>3. Newest(y, a) = y /\ \A q \in QIDs : \A m :
        LastOf(Sent(a, q, "listed"), m) => a[m].lines = LinesAt(y, q)
  BY <1>1, <1>2
<1> HIDE DEF y
<1>4. Leads(y, a)
  BY <1>3 DEF Leads
<1> QED  BY <1>4 DEF Stage, y

\* Two stages in a row are one.
LEMMA StageJoin ==
  ASSUME NEW x \in View, NEW a \in Seq(Record), NEW b \in Seq(Record),
         Stage(x, a), Stage(Newest(x, a), b)
  PROVE  Stage(x, a \o b)
<1> DEFINE y == Newest(x, a)
           z == Newest(y, b)
           c == a \o b
<1>1. z = Newest(x, c) /\ c = a \o b
  BY NewestJoin
<1> HIDE DEF c
<1>2. ASSUME NEW q \in QIDs
      PROVE  /\ LinesAt(x, q) \subseteq LinesAt(z, q)
             /\ Sent(c, q, "listed") = {} => LinesAt(z, q) = LinesAt(x, q)
             /\ \A m : LastOf(Sent(c, q, "listed"), m) => c[m].lines = LinesAt(z, q)
  <2> DEFINE A == Sent(a, q, "listed")
             B == Sent(b, q, "listed")
             C == Sent(c, q, "listed")
  <2>1. /\ LinesAt(x, q) \subseteq LinesAt(y, q)
        /\ A = {} => LinesAt(y, q) = LinesAt(x, q)
        /\ \A m : LastOf(A, m) => a[m].lines = LinesAt(y, q)
    BY DEF Stage, Leads
  <2>2. /\ LinesAt(y, q) \subseteq LinesAt(z, q)
        /\ B = {} => LinesAt(z, q) = LinesAt(y, q)
        /\ \A m : LastOf(B, m) => b[m].lines = LinesAt(z, q)
    BY DEF Stage, Leads
  <2>3. /\ A = {} \/ LastOf(A, Max(A))
        /\ B = {} \/ LastOf(B, Max(B))
    BY LastSent
  <2>0. Joined(a, A, b, B, c, C)
    BY SentJoin DEF c
  <2> HIDE DEF A, B, C, y, z
  <2>4. /\ LastOf(B, Max(B)) =>
             /\ LastOf(C, Len(a) + Max(B)) /\ c[Len(a) + Max(B)] = b[Max(B)]
        /\ B = {} /\ LastOf(A, Max(A)) => LastOf(C, Max(A)) /\ c[Max(A)] = a[Max(A)]
        /\ A = {} /\ B = {} => C = {}
    BY <2>0 DEF Joined
  <2>5. C \in SUBSET Nat
    BY <2>0 DEF Joined
  <2>6. CASE LastOf(B, Max(B))
    <3>1. \A m : LastOf(C, m) => m = Len(a) + Max(B)
      BY <2>4, <2>5, <2>6, LastIsUnique
    <3>2. C # {}
      BY <2>4, <2>6 DEF LastOf
    <3> QED  BY <2>1, <2>2, <2>4, <2>6, <3>1, <3>2 DEF C
  <2>7. CASE B = {} /\ LastOf(A, Max(A))
    <3>1. \A m : LastOf(C, m) => m = Max(A)
      BY <2>4, <2>5, <2>7, LastIsUnique
    <3>2. C # {}
      BY <2>4, <2>7 DEF LastOf
    <3> QED  BY <2>1, <2>2, <2>4, <2>7, <3>1, <3>2 DEF C
  <2>8. CASE A = {} /\ B = {}
    <3>1. C = {} /\ \A m : ~LastOf(C, m)
      BY <2>4, <2>8 DEF LastOf
    <3> QED  BY <2>1, <2>2, <2>8, <3>1 DEF C
  <2> QED  BY <2>3, <2>6, <2>7, <2>8
<1> HIDE DEF y, z
<1>3. Leads(x, c)
  BY <1>1, <1>2 DEF Leads
<1> QED  BY <1>1, <1>3 DEF Stage

-----------------------------------------------------------------------------
(* The node's store as a view, and what a step of the mail side captures.  *)

\* One row for each queue id; a row that was folded away is expected as a leg,
\* and its lines are in a listed row.
WellFolded(recs, byD) ==
  /\ \A i, j \in 1 .. Len(recs) : recs[i].qid = recs[j].qid => i = j
  /\ \A j \in 1 .. Len(recs) : recs[j].subsumed => byD[<<Local, recs[j].qid>>] # 0
  /\ \A j \in 1 .. Len(recs) : \A l \in recs[j].lines :
       \E i \in 1 .. Len(recs) : ~recs[i].subsumed /\ l \in recs[i].lines

ViewOf(x, recs) ==
  /\ \A i \in 1 .. Len(recs) : x[recs[i].qid] = Home(recs[i])
  /\ \A q \in QIDs : x[q] # NoRow => \E i \in 1 .. Len(recs) : recs[i].qid = q

\* What a step of the mail side does to the rows keeps them well folded.
LEMMA RewritesWellFolded ==
  ASSUME NEW recs \in Seq(Record), NEW byD, WellFolded(recs, byD),
         NEW s, Sound(s), Linked(s), NEW i, NEW more,
         Rewrites(recs, byD, s.recs, s.byD, i, more)
  PROVE  WellFolded(s.recs, s.byD)
<1> DEFINE new == s.recs
           newD == s.byD
<1>1. /\ Len(recs) \in Nat /\ Len(new) \in Nat /\ new \in Seq(Record)
      /\ \A j \in 1 .. Len(recs) : <<Local, recs[j].qid>> \in Key
  <2>1. \A j \in 1 .. Len(recs) : recs[j] \in Record
    BY ElementOfSeq, LenProperties
  <2> QED  BY <2>1, Parts, LenProperties, LogAssumption DEF Record, Key
<1>2. ASSUME NEW j \in 1 .. Len(new), ~new[j].subsumed
      PROVE  s.byQ[<<Local, new[j].qid>>] = j /\ newD[<<Local, new[j].qid>>] = 0
  <2>1. RowLinked(s, j)
    BY DEF Linked
  <2> QED  BY <1>2, <2>1 DEF RowLinked, RecKey
<1> HIDE DEF new, newD
<1>0. Rewrites(recs, byD, new, newD, i, more)
  BY DEF new, newD
<1>3. /\ Len(recs) <= Len(new) /\ i \in 1 .. Len(new) /\ ~new[i].subsumed
      /\ \A j \in 1 .. Len(recs) :
           /\ j \in 1 .. Len(new) /\ new[j].qid = recs[j].qid
           /\ recs[j].lines \subseteq new[j].lines
           /\ recs[j].subsumed => new[j] = recs[j]
           /\ ~recs[j].subsumed /\ new[j].subsumed =>
                /\ newD[<<Local, recs[j].qid>>] # 0
                /\ new[j].lines = recs[j].lines /\ recs[j].lines \subseteq new[i].lines
      /\ \A j \in 1 .. Len(new) : new[j].subsumed => j \in 1 .. Len(recs)
      /\ \A k \in Key : byD[k] # 0 => newD[k] # 0
  <2>1. Len(recs) <= Len(new) /\ i \in 1 .. Len(new) /\ ~new[i].subsumed
    BY <1>0 DEF Rewrites
  <2>2. \A j \in 1 .. Len(recs) : j \in 1 .. Len(new)
    BY <1>1, <2>1
  <2>3. \A j \in 1 .. Len(recs) :
           /\ new[j].qid = recs[j].qid
           /\ recs[j].lines \subseteq new[j].lines
           /\ recs[j].subsumed => new[j] = recs[j]
           /\ ~recs[j].subsumed /\ new[j].subsumed =>
                /\ newD[<<Local, recs[j].qid>>] # 0
                /\ new[j].lines = recs[j].lines /\ recs[j].lines \subseteq new[i].lines
    BY <1>0 DEF Rewrites
  <2>4. \A j \in 1 .. Len(new) : new[j].subsumed => j \in 1 .. Len(recs)
    BY <1>0, <2>1 DEF Rewrites
  <2>5. \A k \in Key : byD[k] # 0 => newD[k] # 0
    BY <1>0 DEF Rewrites
  <2> QED  BY <2>1, <2>2, <2>3, <2>4, <2>5
<1>4. ASSUME NEW j \in 1 .. Len(new), new[j].subsumed
      PROVE  j \in 1 .. Len(recs) /\ newD[<<Local, new[j].qid>>] # 0
  <2>1. j \in 1 .. Len(recs) /\ new[j].qid = recs[j].qid /\ <<Local, recs[j].qid>> \in Key
    BY <1>1, <1>3, <1>4
  <2>2. CASE recs[j].subsumed
    BY <1>3, <2>1, <2>2 DEF WellFolded
  <2>3. CASE ~recs[j].subsumed
    BY <1>3, <1>4, <2>1, <2>3
  <2> QED  BY <2>1, <2>2, <2>3
<1>5. ASSUME NEW a \in 1 .. Len(new), NEW b \in 1 .. Len(new), new[a].qid = new[b].qid
      PROVE  a = b
  <2>1. CASE new[a].subsumed /\ new[b].subsumed
    <3>1. a \in 1 .. Len(recs) /\ b \in 1 .. Len(recs) /\ recs[a].qid = recs[b].qid
      BY <1>3, <1>4, <1>5, <2>1
    <3> QED  BY <3>1 DEF WellFolded
  <2>2. CASE ~new[a].subsumed /\ ~new[b].subsumed
    BY <1>2, <1>5, <2>2
  <2>3. CASE ~(new[a].subsumed <=> new[b].subsumed)
    <3>1. \A j \in 1 .. Len(new) : new[j].subsumed => newD[<<Local, new[j].qid>>] # 0
      BY <1>4
    <3>2. \A j \in 1 .. Len(new) : ~new[j].subsumed => newD[<<Local, new[j].qid>>] = 0
      BY <1>2
    <3> QED  BY <1>5, <2>3, <3>1, <3>2
  <2> QED  BY <2>1, <2>2, <2>3
<1>6. ASSUME NEW j \in 1 .. Len(new), NEW l \in new[j].lines
      PROVE  \E p \in 1 .. Len(new) : ~new[p].subsumed /\ l \in new[p].lines
  <2>1. CASE ~new[j].subsumed
    BY <2>1
  <2>2. CASE new[j].subsumed
    <3>1. j \in 1 .. Len(recs) /\ l \in recs[j].lines
      BY <1>3, <1>4, <2>2
    <3>2. PICK p \in 1 .. Len(recs) : ~recs[p].subsumed /\ l \in recs[p].lines
      BY <3>1 DEF WellFolded
    <3>3. CASE new[p].subsumed
      BY <1>3, <3>2, <3>3
    <3>4. CASE ~new[p].subsumed
      BY <1>3, <3>2, <3>4
    <3> QED  BY <3>3, <3>4
  <2> QED  BY <2>1, <2>2
<1>7. WellFolded(new, newD)
  BY <1>4, <1>5, <1>6 DEF WellFolded
<1> QED  BY <1>7 DEF new, newD

\* What is captured brings the view after the rows on the way up to the store.
LEMMA CapturedStage ==
  ASSUME NEW recs \in Seq(Record), NEW new \in Seq(Record), NEW byD, NEW newD,
         WellFolded(recs, byD), WellFolded(new, newD),
         NEW i, NEW more, Rewrites(recs, byD, new, newD, i, more),
         NEW c, Captures(c, recs, new, i),
         NEW x \in View, ViewOf(x, recs)
  PROVE  ViewOf(Newest(x, c), new) /\ Leads(x, c)
<1> DEFINE y == Newest(x, c)
           n == Len(c)
<1>1. /\ c \in Seq(Record) /\ n \in Nat /\ n \in 1 .. n /\ c[n] = new[i]
      /\ \A m \in 1 .. n : c[m] \in Record
  <2>1. c \in Seq(Record) /\ c # <<>> /\ c[n] = new[i]
    BY DEF Captures
  <2> QED  BY <2>1, LenProperties, ElementOfSeq, EmptySeq
<1>2. /\ \A j \in 1 .. Len(recs) : recs[j] \in Record
      /\ \A j \in 1 .. Len(new) : new[j] \in Record /\ new[j].qid \in QIDs
  <2>1. \A j \in 1 .. Len(recs) : recs[j] \in Record
    BY LenProperties, ElementOfSeq
  <2>2. \A j \in 1 .. Len(new) : new[j] \in Record
    BY LenProperties, ElementOfSeq
  <2> QED  BY <2>1, <2>2 DEF Record
<1> HIDE DEF y, n
<1>3. /\ i \in 1 .. Len(new) /\ ~new[i].subsumed
      /\ \A j \in 1 .. Len(recs) :
           /\ j \in 1 .. Len(new) /\ new[j].qid = recs[j].qid
           /\ recs[j].lines \subseteq new[j].lines
           /\ recs[j].subsumed => new[j] = recs[j]
           /\ ~recs[j].subsumed /\ new[j].subsumed => new[j].lines = recs[j].lines
      /\ \A j \in 1 .. Len(new) : j # i =>
           /\ j \in 1 .. Len(recs)
           /\ ~new[j].subsumed => new[j] = recs[j]
  <2>1. Len(recs) <= Len(new) /\ i \in 1 .. Len(new) /\ ~new[i].subsumed
    BY DEF Rewrites
  <2>2. \A j \in 1 .. Len(recs) : j \in 1 .. Len(new)
    BY <2>1, LenProperties
  <2>3. \A j \in 1 .. Len(recs) :
           /\ new[j].qid = recs[j].qid
           /\ recs[j].lines \subseteq new[j].lines
           /\ recs[j].subsumed => new[j] = recs[j]
           /\ ~recs[j].subsumed /\ new[j].subsumed => new[j].lines = recs[j].lines
    BY DEF Rewrites
  <2>4. \A j \in 1 .. Len(new) : j # i =>
           /\ j \in 1 .. Len(recs)
           /\ ~new[j].subsumed => new[j] = recs[j]
    BY DEF Rewrites
  <2> QED  BY <2>1, <2>2, <2>3, <2>4
<1> DEFINE Folds(j) == j \in 1 .. Len(recs) /\ ~recs[j].subsumed /\ new[j].subsumed
<1>4. \A m \in 1 .. n : c[m] = new[i] \/ \E j \in 1 .. Len(recs) : Folds(j) /\ c[m] = new[j]
  BY DEF Captures, n
<1>5. \A j \in 1 .. Len(recs) : Folds(j) => \E m \in 1 .. n : c[m] = new[j]
  BY DEF Captures, n
<1>6. \A j, k \in 1 .. Len(new) : new[j].qid = new[k].qid => j = k
  BY DEF WellFolded
<1>7. ASSUME NEW m \in 1 .. n, NEW j \in 1 .. Len(new), c[m].qid = new[j].qid
      PROVE  c[m] = new[j] /\ (j = i \/ Folds(j))
  <2>1. CASE c[m] = new[i]
    BY <1>3, <1>6, <1>7, <2>1
  <2>2. CASE \E k \in 1 .. Len(recs) : Folds(k) /\ c[m] = new[k]
    BY <1>3, <1>6, <1>7, <2>2
  <2> QED  BY <1>4, <2>1, <2>2
\* The view now has row j of the store, and what it had of it before.
<1>8. ASSUME NEW j \in 1 .. Len(new), NEW q, q = new[j].qid
      PROVE  y[q] = Home(new[j])
  <2>0. q \in QIDs
    BY <1>2, <1>8
  <2>1. CASE Sent(c, q, "all") = {}
    <3>1. j # i
      BY <1>1, <1>8, <2>1 DEF Sent, n
    <3>2. ~Folds(j)
      BY <1>3, <1>5, <1>8, <2>1 DEF Sent, n
    <3>3. j \in 1 .. Len(recs) /\ new[j] = recs[j]
      BY <1>3, <3>1, <3>2
    <3>4. y[q] = x[q]
      BY <1>1, <2>0, <2>1, NewestIs DEF y
    <3> QED  BY <1>8, <3>3, <3>4 DEF ViewOf
  <2>2. CASE Sent(c, q, "all") # {}
    <3>1. PICK m : LastOf(Sent(c, q, "all"), m)
      BY <1>1, <2>2, LastSent
    <3>2. m \in 1 .. n /\ c[m].qid = q
      BY <3>1 DEF LastOf, Sent, n
    <3>3. y[q] = Home(c[m])
      BY <1>1, <2>0, <3>1, NewestIs DEF y
    <3> QED  BY <1>7, <1>8, <3>2, <3>3
  <2> QED  BY <2>1, <2>2
<1>9. ASSUME NEW q \in QIDs, \A j \in 1 .. Len(new) : new[j].qid # q
      PROVE  y[q] = NoRow /\ x[q] = NoRow /\ Sent(c, q, "listed") = {}
  <2>1. \A m \in 1 .. n : c[m].qid # q
    BY <1>3, <1>4, <1>9
  <2>2. Sent(c, q, "all") = {} /\ Sent(c, q, "listed") = {}
    BY <2>1 DEF Sent, n
  <2>3. y[q] = x[q]
    BY <1>1, <2>2, NewestIs DEF y
  <2>4. x[q] = NoRow
    BY <1>3, <1>9 DEF ViewOf
  <2> QED  BY <2>2, <2>3, <2>4
<1>10. ViewOf(y, new)
  BY <1>8, <1>9, Zenon DEF ViewOf
<1>11. ASSUME NEW q \in QIDs
       PROVE  /\ LinesAt(x, q) \subseteq LinesAt(y, q)
              /\ Sent(c, q, "listed") = {} => LinesAt(y, q) = LinesAt(x, q)
              /\ \A m : LastOf(Sent(c, q, "listed"), m) => c[m].lines = LinesAt(y, q)
  <2>1. CASE \A j \in 1 .. Len(new) : new[j].qid # q
    BY <1>9, <2>1 DEF LinesAt, LastOf
  <2>2. CASE \E j \in 1 .. Len(new) : new[j].qid = q
    <3>1. PICK j \in 1 .. Len(new) : new[j].qid = q
      BY <2>2
    <3>2. LinesAt(y, q) = new[j].lines
      BY <1>2, <1>8, <3>1, HomeRow DEF LinesAt
    <3>3. j \in 1 .. Len(recs) => LinesAt(x, q) = recs[j].lines
      <4>1. ASSUME j \in 1 .. Len(recs) PROVE x[q] = Home(recs[j]) /\ recs[j] \in Record
        BY <1>2, <1>3, <3>1, <4>1 DEF ViewOf
      <4> QED  BY <4>1, HomeRow DEF LinesAt
    <3>4. j \notin 1 .. Len(recs) => LinesAt(x, q) = {}
      <4>1. ASSUME j \notin 1 .. Len(recs) PROVE x[q] = NoRow
        <5>1. \A k \in 1 .. Len(recs) : recs[k].qid # q
          BY <1>3, <1>6, <3>1, <4>1
        <5> QED  BY <5>1 DEF ViewOf
      <4> QED  BY <4>1 DEF LinesAt
    <3>5. LinesAt(x, q) \subseteq LinesAt(y, q)
      BY <1>3, <3>2, <3>3, <3>4
    <3>6. ASSUME Sent(c, q, "listed") = {} PROVE LinesAt(y, q) = LinesAt(x, q)
      <4>1. j # i
        BY <1>1, <1>3, <3>1, <3>6 DEF Sent, n
      <4>2. j \in 1 .. Len(recs) /\ new[j].lines = recs[j].lines
        BY <1>3, <4>1
      <4> QED  BY <3>2, <3>3, <4>2
    <3>7. ASSUME NEW m, LastOf(Sent(c, q, "listed"), m) PROVE c[m].lines = LinesAt(y, q)
      <4>1. m \in 1 .. n /\ c[m].qid = q
        BY <3>7 DEF LastOf, Sent, n
      <4> QED  BY <1>7, <3>1, <3>2, <4>1
    <3> QED  BY <3>5, <3>6, <3>7
  <2> QED  BY <2>1, <2>2
<1>12. Leads(x, c)
  BY <1>11 DEF Leads, y
<1> QED  BY <1>10, <1>12 DEF y

\* The store's own view is whole.
LEMMA StoreIsWhole ==
  ASSUME NEW s, Sound(s), Linked(s), \A i \in 1 .. Len(s.recs) : Expected(s, i),
         WellFolded(s.recs, s.byD), NEW x \in View, ViewOf(x, s.recs)
  PROVE  Whole(x)
<1>1. \A j \in 1 .. Len(s.recs) : s.recs[j] \in Record /\ s.recs[j].qid \in QIDs
  BY Parts
<1>2. ASSUME NEW q \in QIDs, x[q] # NoRow
      PROVE  \E i \in 1 .. Len(s.recs) :
               /\ s.recs[i].qid = q /\ x[q].subsumed = s.recs[i].subsumed
               /\ x[q].lines = s.recs[i].lines /\ x[q].dqid = s.recs[i].dqid
  <2>1. PICK i \in 1 .. Len(s.recs) : s.recs[i].qid = q
    BY <1>2 DEF ViewOf
  <2>2. x[q] = Home(s.recs[i])
    BY <2>1 DEF ViewOf
  <2> QED  BY <1>1, <2>1, <2>2, HomeRow
<1>3. ASSUME NEW q \in QIDs, NEW l \in LinesAt(x, q)
      PROVE  \E p \in QIDs : ~x[p].subsumed /\ l \in x[p].lines
  <2>1. x[q] # NoRow /\ l \in x[q].lines
    BY <1>3 DEF LinesAt
  <2>2. PICK i \in 1 .. Len(s.recs) : x[q].lines = s.recs[i].lines
    BY <1>2, <2>1
  <2>3. PICK j \in 1 .. Len(s.recs) : ~s.recs[j].subsumed /\ l \in s.recs[j].lines
    BY <2>1, <2>2 DEF WellFolded
  <2>4. x[s.recs[j].qid] = Home(s.recs[j])
    BY DEF ViewOf
  <2> QED  BY <1>1, <2>3, <2>4, HomeRow
<1>4. ASSUME NEW p \in QIDs, NEW q \in QIDs, ~x[p].subsumed, ~x[q].subsumed, x[p].dqid = q
      PROVE  FALSE
  <2>1. x[p] # NoRow /\ x[q] # NoRow
    BY <1>4 DEF NoRow
  <2>2. PICK i \in 1 .. Len(s.recs) : s.recs[i].dqid = q
    BY <1>2, <1>4, <2>1
  <2>3. PICK j \in 1 .. Len(s.recs) : s.recs[j].qid = q /\ ~s.recs[j].subsumed
    BY <1>2, <1>4, <2>1
  <2>4. RowLinked(s, i) /\ RowLinked(s, j)
    BY DEF Linked
  <2>5. OnwardKey(s.recs[i]) = <<Local, q>> /\ RecKey(s.recs[j]) = <<Local, q>>
    BY <2>2, <2>3, <2>4 DEF RowLinked, OnwardKey, RecKey
  <2>6. s.byD[<<Local, q>>] = 0
    BY <2>3, <2>4, <2>5 DEF RowLinked
  <2>7. q # NoQid
    BY LegAssumption
  <2> QED  BY <2>2, <2>5, <2>6, <2>7 DEF Expected
<1> QED  BY <1>3, <1>4 DEF Whole

-----------------------------------------------------------------------------
(* The table and the receiver against a view.                              *)

TableView(t) == [q \in QIDs |-> t[<<Node, q>>]]

\* A clean table is a view of the node's rows.
LEMMA TableViews ==
  ASSUME NEW t, CleanTable(t, Node)
  PROVE  TableView(t) \in View
<1>1. \A q \in QIDs : <<Node, q>> \in Key
  BY NodeIsOrigin DEF Key
<1> QED  BY <1>1 DEF TableView, View, CleanTable

\* What a batch does to the table it does to the view.
LEMMA UpsertIsNewest ==
  ASSUME NEW t, CleanTable(t, Node), NEW rows \in Rows
  PROVE  TableView(FoldLeft(Upsert, t, FromOrigin(Node, rows))) = Newest(TableView(t), rows)
<1> DEFINE b == FromOrigin(Node, rows)
           n == Len(rows)
           u == FoldLeft(Upsert, t, b)
<1>1. /\ DOMAIN b = 1 .. n /\ n \in Nat
      /\ \A m \in 1 .. n : Clean(b[m]) /\ b[m].origin = Node
  BY FromOriginClean, NodeIsOrigin DEF Rows
<1>2. rows \in Seq(Record) /\ \A m \in 1 .. n : rows[m] \in Record /\ b[m] = Home(rows[m])
  <2>1. rows \in Seq(Record) /\ DOMAIN rows = 1 .. n /\ \A m \in 1 .. n : rows[m] \in Record
    BY LenProperties, ElementOfSeq DEF Rows
  <2> QED  BY <2>1 DEF FromOrigin, Home
<1>3. \A m \in 1 .. n : RecKey(b[m]) = <<Node, rows[m].qid>>
  BY <1>1, <1>2, HomeRow DEF RecKey
<1> HIDE DEF b
<1>4. CleanTable(u, Node)
  BY <1>1, UpsertRecordsClean
<1>5. Upserted(t, b, n, u)
  <2>1. t \in [Key -> Record \cup {NoRow}]
    BY DEF CleanTable
  <2> QED  BY <1>1, <2>1, UpsertEffect DEF Clean
<1> HIDE DEF u
<1>6. TableView(t) \in View /\ TableView(u) \in View /\ Newest(TableView(t), rows) \in View
  BY <1>2, <1>4, TableViews, NewestIs
<1>7. ASSUME NEW q \in QIDs PROVE TableView(u)[q] = Newest(TableView(t), rows)[q]
  <2> DEFINE k == <<Node, q>>
  <2>1. k \in Key /\ TableView(u)[q] = u[k] /\ TableView(t)[q] = t[k]
    BY NodeIsOrigin DEF Key, TableView
  <2>2. \A m \in 1 .. n : RecKey(b[m]) = k <=> rows[m].qid = q
    BY <1>3
  <2> HIDE DEF k
  <2>3. CASE u[k] = t[k] /\ \A m \in 1 .. n : RecKey(b[m]) # k
    <3>1. Sent(rows, q, "all") = {}
      BY <2>2, <2>3 DEF Sent
    <3> QED  BY <1>2, <1>6, <2>1, <2>3, <3>1, NewestIs
  <2>4. ASSUME NEW m \in 1 .. n, RecKey(b[m]) = k, u[k] = b[m],
               \A l \in (m + 1) .. n : RecKey(b[l]) # k
        PROVE  TableView(u)[q] = Newest(TableView(t), rows)[q]
    <3>1. ASSUME NEW l \in Sent(rows, q, "all") PROVE l <= m
      <4>1. l \in 1 .. n /\ RecKey(b[l]) = k
        BY <2>2 DEF Sent
      <4> QED  BY <1>1, <2>4, <4>1
    <3>2. LastOf(Sent(rows, q, "all"), m)
      BY <2>2, <2>4, <3>1 DEF LastOf, Sent
    <3>3. Newest(TableView(t), rows)[q] = Home(rows[m])
      BY <1>2, <1>6, <3>2, NewestIs
    <3> QED  BY <1>2, <2>1, <2>4, <3>3
  <2> QED  BY <1>5, <2>1, <2>3, <2>4 DEF Upserted
<1> QED  BY <1>6, <1>7, ViewsEqual DEF u, b

\* The receiver lists what the view lists; a row it still lists after the view
\* folded it away has no line the view does not have.
Receives(s, x) ==
  \A q \in QIDs :
    /\ ~x[q].subsumed => \E r \in OfId(s, q) : r.lines = x[q].lines
    /\ \A r \in OfId(s, q) : r.lines \subseteq LinesAt(x, q)

LEMMA TakeReceives ==
  ASSUME NEW s, Finished(s, Node), NEW rows \in Rows, NEW x \in View,
         Receives(s, x), Leads(x, rows), NEW t, t = IngestSnapshots(s, Node, rows)
  PROVE  /\ Receives(t, Newest(x, rows))
         /\ \A q \in QIDs : \A r \in OfId(s, q) :
              \E e \in OfId(t, q) : r.lines \subseteq e.lines
<1> DEFINE b == FromOrigin(Node, rows)
           n == Len(rows)
           y == Newest(x, rows)
<1>1. /\ rows \in Seq(Record) /\ n \in Nat
      /\ \A m \in 1 .. n : rows[m] \in Record /\ b[m] = Home(rows[m])
  <2>1. /\ rows \in Seq(Record) /\ n \in Nat /\ DOMAIN rows = 1 .. n
        /\ \A m \in 1 .. n : rows[m] \in Record
    BY LenProperties, ElementOfSeq DEF Rows
  <2> QED  BY <2>1 DEF FromOrigin, Home
<1>2. \A m \in 1 .. n : /\ b[m].qid = rows[m].qid /\ b[m].subsumed = rows[m].subsumed
                        /\ b[m].lines = rows[m].lines
  BY <1>1, HomeRow
<1>3. y \in View /\ NoRow.subsumed
  BY <1>1, NewestIs DEF NoRow
<1>4. ASSUME NEW q \in QIDs
      PROVE  /\ ~y[q].subsumed => \E e \in OfId(t, q) : e.lines = y[q].lines
             /\ \A e \in OfId(t, q) : e.lines \subseteq LinesAt(y, q)
             /\ \A r \in OfId(s, q) : \E e \in OfId(t, q) : r.lines \subseteq e.lines
  <2> DEFINE S == Sent(rows, q, "listed")
  <2>1. /\ LinesAt(x, q) \subseteq LinesAt(y, q)
        /\ S = {} => LinesAt(y, q) = LinesAt(x, q)
        /\ \A m : LastOf(S, m) => rows[m].lines = LinesAt(y, q)
    BY DEF Leads
  <2>2. Taken(s, b, n, q, t)
    BY IngestSnapshotsRows, NodeIsOrigin DEF Rows
  <2>3. ~y[q].subsumed => LinesAt(y, q) = y[q].lines
    BY <1>3 DEF LinesAt
  <2>4. /\ ~x[q].subsumed => \E r \in OfId(s, q) : r.lines = x[q].lines
        /\ \A r \in OfId(s, q) : r.lines \subseteq LinesAt(x, q)
    BY DEF Receives
  <2> HIDE DEF b, n, y
  <2>5. CASE S = {}
    <3>1. \A m \in 1 .. n : b[m].qid = q => b[m].subsumed
      BY <1>2, <2>5 DEF Sent, n
    <3>2. OfId(t, q) = OfId(s, q)
      BY <2>2, <3>1 DEF Taken
    <3>3. ~y[q].subsumed => ~x[q].subsumed /\ LinesAt(x, q) = x[q].lines
      <4>1. CASE Sent(rows, q, "all") = {}
        <5>1. y[q] = x[q]
          BY <1>1, <4>1, NewestIs DEF y
        <5> QED  BY <1>3, <5>1 DEF LinesAt
      <4>2. CASE Sent(rows, q, "all") # {}
        <5>1. PICK m : LastOf(Sent(rows, q, "all"), m)
          BY <1>1, <4>2, LastSent
        <5>2. m \in 1 .. n /\ rows[m].qid = q /\ rows[m].subsumed
          BY <2>5, <5>1 DEF LastOf, Sent, n
        <5>3. y[q] = Home(rows[m])
          BY <1>1, <5>1, NewestIs DEF y
        <5> QED  BY <1>1, <5>2, <5>3, HomeRow
      <4> QED  BY <4>1, <4>2
    <3> HIDE DEF S
    <3> QED  BY <2>1, <2>3, <2>4, <2>5, <3>2, <3>3
  <2>6. CASE S # {}
    <3>1. PICK m : LastOf(S, m)
      BY <1>1, <2>6, LastSent
    <3>2. m \in 1 .. n /\ b[m].qid = q /\ ~b[m].subsumed
      BY <1>2, <3>1 DEF LastOf, Sent, n
    <3>3. ASSUME NEW l \in (m + 1) .. n, b[l].qid = q PROVE b[l].subsumed
      <4>1. l \in 1 .. n /\ ~(l <= m)
        BY <1>1, <3>2
      <4>2. l \notin S
        BY <3>1, <4>1 DEF LastOf
      <4> QED  BY <1>2, <3>3, <4>1, <4>2 DEF Sent, n
    <3>4. OfId(t, q) = {b[m]}
      BY <2>2, <3>2, <3>3 DEF Taken
    <3>5. b[m].lines = LinesAt(y, q)
      BY <1>2, <2>1, <3>1, <3>2
    <3> HIDE DEF S
    <3> QED  BY <2>1, <2>3, <2>4, <3>4, <3>5
  <2> QED  BY <2>5, <2>6
<1> QED  BY <1>4 DEF Receives

\* A start of the receiver lists what the table lists.
LEMMA RestartReceives ==
  ASSUME NEW t, CleanTable(t, Node), Whole(TableView(t)), NEW s \in LoadedFrom(t)
  PROVE  Receives(s, TableView(t))
<1> DEFINE x == TableView(t)
<1>1. \A q \in QIDs : <<Node, q>> \in Key /\ x[q] = t[<<Node, q>>]
  BY NodeIsOrigin DEF Key, TableView
<1>2. ASSUME NEW k \in Key, ~t[k].subsumed
      PROVE  /\ t[k] # NoRow /\ t[k].qid \in QIDs /\ k = <<Node, t[k].qid>>
             /\ x[t[k].qid] = t[k]
  <2>1. t[k] # NoRow
    BY <1>2 DEF NoRow
  <2>2. Clean(t[k]) /\ t[k].origin = Node /\ RecKey(t[k]) = k
    BY <2>1 DEF CleanTable
  <2> QED  BY <1>1, <2>1, <2>2 DEF Clean, Record, RecKey
<1>3. LegsFolded(t, Node)
  <2>1. ASSUME NEW h \in Key, NEW k \in Key, ~t[h].subsumed, ~t[k].subsumed,
               <<Node, t[h].dqid>> = k
        PROVE  FALSE
    <3>1. x[t[h].qid] = t[h] /\ x[t[k].qid] = t[k] /\ t[h].dqid = t[k].qid
          /\ t[h].qid \in QIDs /\ t[k].qid \in QIDs
      BY <1>2, <2>1
    <3> HIDE DEF x
    <3> QED  BY <2>1, <3>1 DEF Whole, x
  <2> QED  BY <2>1 DEF LegsFolded
<1>4. /\ \A k \in Key : ~t[k].subsumed => \E i \in 1 .. Len(s.recs) : s.recs[i] = t[k]
      /\ \A i \in 1 .. Len(s.recs) : \E k \in Key : ~t[k].subsumed /\ s.recs[i] = t[k]
  BY <1>3, LoadedAreListed, NodeIsOrigin
<1> HIDE DEF x
<1>5. ASSUME NEW q \in QIDs, ~x[q].subsumed PROVE \E r \in OfId(s, q) : r.lines = x[q].lines
  <2>1. <<Node, q>> \in Key /\ x[q] = t[<<Node, q>>]
    BY <1>1
  <2>2. x[q].qid = q
    BY <1>2, <1>5, <2>1
  <2>3. PICK i \in 1 .. Len(s.recs) : s.recs[i] = x[q]
    BY <1>4, <1>5, <2>1
  <2> QED  BY <2>2, <2>3 DEF OfId
<1>6. ASSUME NEW q \in QIDs, NEW r \in OfId(s, q) PROVE r.lines \subseteq LinesAt(x, q)
  <2>1. PICK i \in 1 .. Len(s.recs) : s.recs[i].qid = q /\ r = s.recs[i]
    BY DEF OfId
  <2>2. PICK k \in Key : ~t[k].subsumed /\ r = t[k]
    BY <1>4, <2>1
  <2>3. x[q] = r /\ x[q] # NoRow
    BY <1>2, <2>1, <2>2
  <2> QED  BY <2>3 DEF LinesAt
<1>7. Receives(s, x)
  BY <1>5, <1>6 DEF Receives
<1> QED  BY <1>7 DEF x

-----------------------------------------------------------------------------
(* The way from the table to the store: what it holds, then the batch, the *)
(* queue and the captured rows, in the order they will arrive.             *)

OnTheWay(db, b, q, c, recs) ==
  LET x == Newest(db, b)
      y == Newest(x, q)
      z == Newest(y, c)
  IN  Stage(db, b) /\ Stage(x, q) /\ Stage(y, c) /\ Whole(z) /\ ViewOf(z, recs)

\* Each place on the way has a view.
LEMMA WayViews ==
  ASSUME NEW db \in View, NEW b \in Seq(Record), NEW q \in Seq(Record),
         NEW c \in Seq(Record)
  PROVE  /\ Newest(db, b) \in View /\ Newest(Newest(db, b), q) \in View
         /\ Newest(Newest(Newest(db, b), q), c) \in View
<1>1. Newest(db, b) \in View
  BY NewestIs
<1>2. Newest(Newest(db, b), q) \in View
  BY <1>1, NewestIs
<1>3. Newest(Newest(Newest(db, b), q), c) \in View
  BY <1>2, NewestIs
<1> QED  BY <1>1, <1>2, <1>3

\* The store adds lines and captures the rows it wrote.
LEMMA WayCaptures ==
  ASSUME NEW db \in View, NEW b \in Seq(Record), NEW q \in Seq(Record), NEW c,
         NEW recs \in Seq(Record), NEW byD, WellFolded(recs, byD),
         NEW s, Sound(s), Linked(s), \A j \in 1 .. Len(s.recs) : Expected(s, j),
         NEW i, NEW more, Rewrites(recs, byD, s.recs, s.byD, i, more),
         Captures(c, recs, s.recs, i), OnTheWay(db, b, q, <<>>, recs)
  PROVE  OnTheWay(db, b, q, c, s.recs) /\ WellFolded(s.recs, s.byD)
<1> DEFINE x == Newest(db, b)
           y == Newest(x, q)
<1>1. x \in View /\ y \in View /\ Newest(y, <<>>) = y
  <2>1. <<>> \in Seq(Record) /\ x \in View /\ y \in View
    BY WayViews, NoneSent
  <2> HIDE DEF y
  <2> QED  BY <2>1, NewestOfNone
<1>2. Stage(db, b) /\ Stage(x, q) /\ Whole(y) /\ ViewOf(y, recs)
  BY <1>1 DEF OnTheWay
<1>3. WellFolded(s.recs, s.byD) /\ s.recs \in Seq(Record)
  BY RewritesWellFolded, Parts
<1>4. c \in Seq(Record)
  BY DEF Captures
<1> HIDE DEF x, y
<1>5. ViewOf(Newest(y, c), s.recs) /\ Leads(y, c) /\ Newest(y, c) \in View
  BY <1>1, <1>2, <1>3, <1>4, CapturedStage, NewestIs
<1>6. Whole(Newest(y, c))
  BY <1>3, <1>5, StoreIsWhole
<1>7. Stage(y, c)
  BY <1>2, <1>5 DEF Stage
<1> QED  BY <1>2, <1>3, <1>5, <1>6, <1>7 DEF OnTheWay, x, y

\* The captured rows join the queue.
LEMMA WayEnqueues ==
  ASSUME NEW db \in View, NEW b \in Seq(Record), NEW q \in Seq(Record),
         NEW c \in Seq(Record), NEW recs, OnTheWay(db, b, q, c, recs)
  PROVE  OnTheWay(db, b, q \o c, <<>>, recs)
<1> DEFINE x == Newest(db, b)
           z == Newest(Newest(x, q), c)
<1>1. x \in View /\ z \in View
  BY WayViews
<1>2. Stage(db, b) /\ Stage(x, q) /\ Stage(Newest(x, q), c) /\ Whole(z) /\ ViewOf(z, recs)
  BY DEF OnTheWay
<1> HIDE DEF x
<1>3. Newest(x, q \o c) = z /\ Stage(x, q \o c)
  BY <1>1, <1>2, NewestJoin, StageJoin
<1> HIDE DEF z
<1>4. Newest(z, <<>>) = z /\ Stage(z, <<>>)
  BY <1>1, <1>2, NewestOfNone, StageOfNone
<1> QED  BY <1>2, <1>3, <1>4 DEF OnTheWay, x

\* The queue becomes the batch.
LEMMA WayDrains ==
  ASSUME NEW db \in View, NEW q \in Seq(Record), NEW c, NEW recs,
         OnTheWay(db, <<>>, q, c, recs)
  PROVE  OnTheWay(db, q, <<>>, c, recs)
<1> DEFINE y == Newest(db, q)
<1>1. Newest(db, <<>>) = db
  BY NewestOfNone
<1>2. Stage(db, q) /\ Stage(y, c) /\ Whole(Newest(y, c)) /\ ViewOf(Newest(y, c), recs)
  BY <1>1 DEF OnTheWay
<1>3. y \in View
  BY NewestIs
<1> HIDE DEF y
<1>4. Newest(y, <<>>) = y /\ Stage(y, <<>>)
  BY <1>2, <1>3, NewestOfNone, StageOfNone DEF Stage
<1> QED  BY <1>2, <1>4 DEF OnTheWay, y

\* The table takes the batch over, which may be put back ahead of the queue.
LEMMA WayKeeps ==
  ASSUME NEW db \in View, NEW b \in Seq(Record), NEW q \in Seq(Record), NEW c, NEW recs,
         OnTheWay(db, b, q, c, recs)
  PROVE  /\ OnTheWay(Newest(db, b), <<>>, q, c, recs)
         /\ OnTheWay(Newest(db, b), <<>>, b \o q, c, recs)
<1> DEFINE x == Newest(db, b)
           y == Newest(x, q)
<1>1. x \in View
  BY NewestIs
<1>2. /\ Stage(db, b) /\ Stage(x, q) /\ Stage(y, c)
      /\ Whole(Newest(y, c)) /\ ViewOf(Newest(y, c), recs)
  BY DEF OnTheWay
<1>3. Newest(x, b) = x
  BY NewestAgain
<1>4. Whole(x)
  BY <1>2 DEF Stage
<1>5. Stage(x, b)
  BY <1>2, <1>4, StageAgain
<1> HIDE DEF x
<1>6. Newest(x, <<>>) = x /\ Stage(x, <<>>)
  BY <1>1, <1>4, NewestOfNone, StageOfNone
<1>7. Newest(x, b \o q) = y /\ Stage(x, b \o q)
  BY <1>1, <1>2, <1>3, <1>5, NewestJoin, StageJoin
<1> HIDE DEF y
<1>8. y = Newest(x, q)
  BY DEF y
<1>9. OnTheWay(x, <<>>, q, c, recs)
  BY <1>2, <1>6, <1>8 DEF OnTheWay
<1>10. OnTheWay(x, <<>>, b \o q, c, recs)
  BY <1>2, <1>6, <1>7 DEF OnTheWay
<1> QED  BY <1>9, <1>10 DEF x

\* The batch is put back and the table has not taken it over.
LEMMA WayRequeues ==
  ASSUME NEW db \in View, NEW b \in Seq(Record), NEW q \in Seq(Record), NEW c, NEW recs,
         OnTheWay(db, b, q, c, recs)
  PROVE  OnTheWay(db, <<>>, b \o q, c, recs)
<1> DEFINE y == Newest(Newest(db, b), q)
<1>1. /\ Stage(db, b) /\ Stage(Newest(db, b), q) /\ Stage(y, c)
      /\ Whole(Newest(y, c)) /\ ViewOf(Newest(y, c), recs)
  BY DEF OnTheWay
<1>2. Newest(db, b \o q) = y /\ Stage(db, b \o q)
  BY <1>1, NewestJoin, StageJoin
<1>3. Newest(db, <<>>) = db /\ Stage(db, <<>>)
  BY <1>1, NewestOfNone, StageOfNone DEF Stage
<1> HIDE DEF y
<1> QED  BY <1>1, <1>2, <1>3 DEF OnTheWay

-----------------------------------------------------------------------------
(* The invariant of a forwarder that lives on, with no verdicts: restarts  *)
(* of the receiver, lost answers and broken requests are what goes wrong.  *)

OnlyRestarts == Scored = {} /\ Faults \subseteq {"restart"}

Quiet ==
  /\ late = {} /\ captured.rspamd = <<>>
  /\ reading \/ phase = "parsing" => captured.mail = <<>>
  /\ pc \in {"sending", "taken", "broken"} \/ batch = <<>>

InDb == TableView(table)

\* What the receiver has taken in.
Accepted == IF pc = "taken" THEN Newest(InDb, batch) ELSE InDb

Conveyed ==
  /\ WellFolded(records, byDelivery)
  /\ OnTheWay(InDb, batch, queue, captured.mail, records)
  /\ Receives(receiver, Accepted)

WayInv == FInv /\ faults \in Nat /\ AllShown /\ Quiet /\ Conveyed

\* What is on the way is of its type.
LEMMA WayTypes ==
  ASSUME WayInv
  PROVE  /\ InDb \in View /\ CleanTable(table, Node) /\ Finished(receiver, Node)
         /\ batch \in Rows /\ queue \in Rows /\ captured.mail \in Rows
         /\ batch \in Seq(Record) /\ queue \in Seq(Record) /\ captured.mail \in Seq(Record)
         /\ DOMAIN captured = {"mail", "rspamd"}
<1>1. CleanTable(table, Node) /\ Finished(receiver, Node)
  BY DEF WayInv, FInv, Received
<1>2. InDb \in View
  BY <1>1, TableViews DEF InDb
<1>3. /\ batch \in Rows /\ queue \in Rows /\ captured.mail \in Rows
      /\ DOMAIN captured = {"mail", "rspamd"}
  BY DEF WayInv, FInv, UnderWay
<1> QED  BY <1>1, <1>2, <1>3 DEF Rows

\* The steps of the second goroutine and the other faults do not occur.
LEMMA NoVerdicts ==
  ASSUME OnlyRestarts, WayInv
  PROVE  /\ rspamdPending = {} /\ ~Prune /\ \A q \in QIDs : ~FeedVerdict(q)
         /\ ~Fault("crash") /\ ~Fault("late") /\ ~Fault("upsert")
<1>1. rspamdPending = {}
  BY DEF OnlyRestarts, WayInv, FInv, IInv, InputOK
<1>2. ~Prune
  BY <1>1 DEF Prune, PruneRspamdPending
<1>3. \A q \in QIDs : ~FeedVerdict(q)
  BY DEF FeedVerdict, OnlyRestarts
<1> QED  BY <1>1, <1>2, <1>3 DEF Fault, OnlyRestarts

\* A part of q goes to the store while nothing captured waits.
Adds(q) ==
  /\ FeedMail(q) /\ captured.mail = <<>>
  /\ UNCHANGED <<batch, pc, table, receiver>>
  /\ \/ captured'.mail = CapturedByMail(q) /\ queue' = queue
     \/ captured'.mail = <<>> /\ queue' = queue \o CapturedByMail(q)

\* Nothing moves on the way.
Rests ==
  /\ UNCHANGED <<records, byDelivery, fed, batch, queue, captured, table, receiver>>
  /\ pc' = "taken" <=> pc = "taken"

\* A group that is handed on is a part that goes to the store.
LEMMA FinalizeAdds ==
  ASSUME WayInv, NEW q \in QIDs, Finalize(q), captured.mail = <<>>,
         UNCHANGED <<queue, run, receiving>>
  PROVE  Adds(q)
<1>1. captured'.mail = CapturedByMail(q)
  BY WayTypes DEF Finalize
<1> QED  BY <1>1 DEF Adds, Finalize, run, receiving

\* What can happen, as the way sees it.
LEMMA WaySteps ==
  ASSUME OnlyRestarts, WayInv, [FNext]_fvars
  PROVE  \/ Rests
         \/ \E q \in QIDs : Adds(q)
         \/ Enqueue("mail") \/ Drain \/ TakeBatch \/ Answer \/ SendFails \/ ReceiverRestart
<1>1. CASE Write \/ StartTailing \/ ReadLine \/ Capture \/ SaveCheckpoint \/ UNCHANGED fvars
  BY <1>1 DEF Write, StartTailing, ReadLine, Capture, SaveCheckpoint, fvars, node, memory,
       index, input, run, receiving, Rests
<1>2. ASSUME NEW q \in QIDs, WriteVerdict(q) \/ ParseVerdict(q) \/ ReadVerdict(q) PROVE FALSE
  BY <1>2, NoVerdicts DEF WriteVerdict, ParseVerdict, ReadVerdict, OnlyRestarts
<1>3. ASSUME NEW q \in QIDs, ParseGroup(q) PROVE Adds(q)
  <2>1. captured.mail = <<>>
    BY <1>3 DEF ParseGroup, WayInv, Quiet
  <2> QED  BY <1>3, <2>1 DEF ParseGroup, Adds, run, receiving
<1>4. ASSUME NEW q \in QIDs, FlushStale(q) PROVE Adds(q)
  BY <1>4, FinalizeAdds DEF FlushStale, MailIdle
<1>5. CASE ProcessLine
  <2>1. CASE UNCHANGED <<memory, input, captured>>
    BY <1>5, <2>1 DEF ProcessLine, memory, index, input, run, receiving, Rests
  <2>2. CASE Finalize(Log[offset])
    <3>1. Log[offset] \in QIDs
      BY <1>5, ForwardAssumption, ElementOfSeq DEF WayInv, FInv, Offsets, ProcessLine
    <3>2. captured.mail = <<>>
      BY <1>5 DEF ProcessLine, WayInv, Quiet
    <3> QED  BY <1>5, <2>2, <3>1, <3>2, FinalizeAdds DEF ProcessLine
  <2> QED  BY <1>5, <2>1, <2>2 DEF ProcessLine
<1>6. CASE PruneVerdicts \/ Crash
  BY <1>6, NoVerdicts DEF PruneVerdicts, Crash
<1>7. ASSUME NEW w \in {"mail", "rspamd"}, Enqueue(w) PROVE Enqueue("mail")
  BY <1>7 DEF Enqueue, WayInv, Quiet
<1>8. ASSUME NEW h \in late PROVE FALSE
  BY <1>8 DEF WayInv, Quiet
<1> QED  BY <1>1, <1>2, <1>3, <1>4, <1>5, <1>6, <1>7, <1>8 DEF FNext

\* Faults are counted.
LEMMA FaultsStep ==
  ASSUME faults \in Nat, [FNext]_fvars
  PROVE  faults' \in Nat
<1>1. ASSUME NEW kind, Fault(kind) PROVE faults' \in Nat
  BY <1>1 DEF Fault
<1>2. CASE \/ Write \/ StartTailing \/ ReadLine \/ ProcessLine \/ PruneVerdicts
           \/ \E q \in QIDs : \/ WriteVerdict(q) \/ ParseGroup(q) \/ ParseVerdict(q)
                              \/ FlushStale(q) \/ ReadVerdict(q)
           \/ \E w \in {"mail", "rspamd"} : Enqueue(w)
  BY <1>2 DEF Write, StartTailing, ReadLine, ProcessLine, PruneVerdicts, WriteVerdict,
       ParseGroup, ParseVerdict, FlushStale, ReadVerdict, Enqueue
<1>3. CASE Capture \/ Drain \/ SaveCheckpoint \/ TakeBatch \/ UNCHANGED fvars
  BY <1>3 DEF Capture, Drain, SaveCheckpoint, TakeBatch, fvars
<1>4. CASE Answer \/ SendFails
  BY <1>1, <1>4 DEF Answer, SendFails, Abandon, Persist
<1>5. CASE \E h \in late : LateTake(h) \/ LatePersist(h)
  BY <1>1, <1>5 DEF LateTake, LatePersist, Persist
<1>6. CASE Crash \/ ReceiverRestart
  BY <1>1, <1>6 DEF Crash, ReceiverRestart
<1> QED  BY <1>2, <1>3, <1>4, <1>5, <1>6 DEF FNext

\* One goroutine captures rows, and hands them on before it captures more.
LEMMA QuietStep ==
  ASSUME OnlyRestarts, WayInv, [FNext]_fvars
  PROVE  Quiet'
<1>1. /\ late = {} /\ captured.rspamd = <<>>
      /\ reading \/ phase = "parsing" => captured.mail = <<>>
      /\ pc \in {"sending", "taken", "broken"} \/ batch = <<>>
      /\ DOMAIN captured = {"mail", "rspamd"}
      /\ reading => phase = "tailing"
  BY WayTypes DEF WayInv, Quiet, FInv, Offsets
<1> USE DEF Quiet
<1>2. CASE Write \/ StartTailing \/ ReadLine \/ UNCHANGED fvars
  BY <1>1, <1>2 DEF Write, StartTailing, ReadLine, MailIdle, fvars, node, watching, run,
       receiving
<1>3. ASSUME NEW q \in QIDs, WriteVerdict(q) \/ ParseVerdict(q) \/ ReadVerdict(q) PROVE FALSE
  BY <1>3, NoVerdicts DEF WriteVerdict, ParseVerdict, ReadVerdict, OnlyRestarts
<1>4. ASSUME NEW q \in QIDs, ParseGroup(q) PROVE Quiet'
  BY <1>1, <1>4 DEF ParseGroup, watching, run, receiving
<1>5. ASSUME NEW q, Finalize(q) PROVE captured'.rspamd = <<>>
  BY <1>1, <1>5 DEF Finalize
<1>6. ASSUME NEW q \in QIDs, FlushStale(q) PROVE Quiet'
  <2>1. captured'.rspamd = <<>>
    BY <1>5, <1>6 DEF FlushStale
  <2> QED  BY <1>1, <1>6, <2>1 DEF FlushStale, MailIdle, watching, run, receiving
<1>7. CASE ProcessLine
  <2>1. captured'.rspamd = <<>>
    BY <1>1, <1>5, <1>7 DEF ProcessLine
  <2> QED  BY <1>1, <1>7, <2>1 DEF ProcessLine, run, receiving
<1>8. CASE PruneVerdicts \/ Crash
  BY <1>8, NoVerdicts DEF PruneVerdicts, Crash
<1>9. ASSUME NEW w \in {"mail", "rspamd"}, Enqueue(w) PROVE Quiet'
  <2>1. w = "mail" /\ captured'.mail = <<>> /\ captured'.rspamd = <<>>
    BY <1>1, <1>9 DEF Enqueue
  <2> QED  BY <1>1, <1>9, <2>1 DEF Enqueue, watching, run, receiving
<1>10. CASE Capture \/ Drain \/ TakeBatch \/ Answer \/ SaveCheckpoint \/ ReceiverRestart
  <2>1. CASE Capture \/ SaveCheckpoint
    BY <1>1, <2>1 DEF Capture, SaveCheckpoint, node, watching, receiving
  <2>2. CASE Drain
    BY <1>1, <2>2 DEF Drain, node, watching, receiving
  <2>3. CASE TakeBatch \/ Answer \/ ReceiverRestart
    BY <1>1, <2>3 DEF TakeBatch, Answer, ReceiverRestart, node, watching
  <2> QED  BY <1>10, <2>1, <2>2, <2>3
<1>11. CASE SendFails
  <2>1. late' = late
    BY <1>11, NoVerdicts DEF SendFails, Abandon
  <2> QED  BY <1>1, <1>11, <2>1 DEF SendFails, node, watching
<1>12. ASSUME NEW h \in late PROVE FALSE
  BY <1>1, <1>12
<1> QED  BY <1>2, <1>3, <1>4, <1>6, <1>7, <1>8, <1>9, <1>10, <1>11, <1>12 DEF FNext

\* The parts of Conveyed.
LEMMA ConveyedMeans ==
  ASSUME Conveyed
  PROVE  /\ WellFolded(records, byDelivery)
         /\ OnTheWay(InDb, batch, queue, captured.mail, records)
         /\ Stage(InDb, batch) /\ Whole(InDb) /\ Leads(InDb, batch)
         /\ pc = "taken" => Receives(receiver, Newest(InDb, batch))
         /\ pc # "taken" => Receives(receiver, InDb)
BY DEF Conveyed, OnTheWay, Stage, Accepted

\* The parts again, as they stand after a step.
LEMMA ConveyedNext ==
  ASSUME WellFolded(records', byDelivery'),
         OnTheWay(TableView(table'), batch', queue', captured'.mail, records'),
         pc' = "taken" => Receives(receiver', Newest(TableView(table'), batch')),
         pc' # "taken" => Receives(receiver', TableView(table'))
  PROVE  Conveyed'
BY DEF Conveyed, Accepted, InDb

\* The steps that move nothing.
LEMMA RestsConveys == ASSUME Conveyed, Rests PROVE Conveyed'
<1>1. UNCHANGED <<records, byDelivery, batch, queue, captured, table, receiver>>
  BY DEF Rests
<1>2. pc' = "taken" <=> pc = "taken"
  BY DEF Rests
<1> QED  BY <1>1, <1>2, ConveyedMeans, ConveyedNext DEF InDb

\* A part goes to the store: the one step that makes the way longer.
LEMMA AddsConveys ==
  ASSUME WayInv, NEW q \in QIDs, Adds(q)
  PROVE  Conveyed'
<1> DEFINE s == [recs |-> records', byQ |-> byQueueID', byD |-> byDelivery']
           i == byQueueID'[<<Local, q>>]
           c == CapturedByMail(q)
           more == Handed(q)
<1>1. IInv /\ Links /\ FeedMail(q) /\ captured.mail = <<>>
  BY DEF WayInv, FInv, Adds
<1>2. /\ IInv' /\ Links'
      /\ Rewrites(records, byDelivery, records', byDelivery', i, more)
  BY <1>1, FeedMailRow
<1>3. Captures(c, records, records', i)
  BY <1>1, CapturedByMailRows
<1>4. Sound(s) /\ Linked(s) /\ \A j \in 1 .. Len(s.recs) : Expected(s, j)
  <2>1. Sound(s) /\ Linked(s) /\ \A j \in DOMAIN records' : Expected(s, j)
    BY <1>2 DEF IInv, Links, Stored
  <2>2. DOMAIN records' = 1 .. Len(records')
    BY <2>1, Parts
  <2> QED  BY <2>1, <2>2
<1>5. s.recs = records' /\ s.byD = byDelivery'
  OBVIOUS
<1>6. records \in Seq(Record)
  BY <1>1 DEF IInv, Sound, Stored, Store
<1> HIDE DEF s, i, c, more
<1>7. OnTheWay(InDb, batch, queue, <<>>, records) /\ WellFolded(records, byDelivery)
  BY <1>1, ConveyedMeans DEF WayInv
<1>8. /\ OnTheWay(InDb, batch, queue, c, records') /\ WellFolded(records', byDelivery')
      /\ c \in Seq(Record)
  <2>1. /\ Rewrites(records, byDelivery, s.recs, s.byD, i, more)
        /\ Captures(c, records, s.recs, i)
    BY <1>2, <1>3, <1>5
  <2>2. OnTheWay(InDb, batch, queue, c, s.recs) /\ WellFolded(s.recs, s.byD)
    BY <1>4, <1>6, <1>7, <2>1, WayTypes, WayCaptures
  <2> QED  BY <1>5, <2>1, <2>2 DEF Captures
<1>9. OnTheWay(InDb, batch, queue', captured'.mail, records')
  <2>1. CASE captured'.mail = c /\ queue' = queue
    BY <1>8, <2>1
  <2>2. CASE captured'.mail = <<>> /\ queue' = queue \o c
    BY <1>8, <2>2, WayTypes, WayEnqueues
  <2> QED  BY <2>1, <2>2 DEF Adds, c
<1>10. UNCHANGED <<batch, pc, table, receiver>>
  BY DEF Adds
<1> QED  BY <1>8, <1>9, <1>10, ConveyedMeans, ConveyedNext DEF InDb, WayInv

\* The rows the table takes over, unless that fails.
LEMMA PersistIsNewest ==
  ASSUME OnlyRestarts, WayInv, Persist(batch)
  PROVE  TableView(table') = Newest(InDb, batch)
<1>1. table' = FoldLeft(Upsert, table, FromOrigin(Node, batch))
  BY NoVerdicts DEF Persist
<1> QED  BY <1>1, WayTypes, UpsertIsNewest DEF InDb

\* The Run loop, the handler and a restart of the receiver.
LEMMA RunConveys ==
  ASSUME OnlyRestarts, WayInv, Drain \/ TakeBatch \/ Answer \/ SendFails
  PROVE  Conveyed'
<1>1. /\ WellFolded(records, byDelivery)
      /\ OnTheWay(InDb, batch, queue, captured.mail, records)
      /\ Stage(InDb, batch) /\ Leads(InDb, batch)
      /\ pc = "taken" => Receives(receiver, Newest(InDb, batch))
      /\ pc # "taken" => Receives(receiver, InDb)
  BY ConveyedMeans DEF WayInv
<1>2. UNCHANGED <<records, byDelivery, captured>>
  BY DEF Drain, TakeBatch, Answer, SendFails, node, memory, index
<1>3. WellFolded(records', byDelivery')
  BY <1>1, <1>2
<1>4. CASE Drain
  <2>1. /\ batch = <<>> /\ pc # "taken" /\ pc' # "taken"
        /\ batch' = queue /\ queue' = <<>> /\ UNCHANGED <<table, receiver>>
    BY <1>4 DEF Drain, receiving, WayInv, Quiet
  <2>2. OnTheWay(InDb, batch', queue', captured'.mail, records')
    BY <1>1, <1>2, <2>1, WayTypes, WayDrains
  <2> QED  BY <1>1, <1>3, <2>1, <2>2, ConveyedNext DEF InDb
<1>5. CASE TakeBatch
  <2>1. /\ pc # "taken" /\ pc' = "taken" /\ UNCHANGED <<batch, queue, table>>
        /\ receiver' = IngestSnapshots(receiver, Node, batch)
    BY <1>5 DEF TakeBatch, Take
  <2>2. Receives(receiver', Newest(InDb, batch))
    BY <1>1, <2>1, WayTypes, TakeReceives
  <2> QED  BY <1>1, <1>2, <1>3, <2>1, <2>2, ConveyedNext DEF InDb
<1>6. CASE Answer
  <2>1. /\ pc = "taken" /\ pc' # "taken" /\ Persist(batch) /\ batch' = <<>>
        /\ UNCHANGED <<queue, receiver>>
    BY <1>6 DEF Answer
  <2>2. TableView(table') = Newest(InDb, batch)
    BY <2>1, PersistIsNewest
  <2>3. OnTheWay(TableView(table'), batch', queue', captured'.mail, records')
    BY <1>1, <1>2, <2>1, <2>2, WayTypes, WayKeeps
  <2> QED  BY <1>1, <1>3, <2>1, <2>2, <2>3, ConveyedNext
<1>7. CASE SendFails
  <2>1. /\ pc' # "taken" /\ Abandon /\ batch' = <<>> /\ queue' = batch \o queue
        /\ UNCHANGED receiver
    BY <1>7 DEF SendFails, Requeue
  <2>2. CASE pc \in {"sending", "broken"} /\ UNCHANGED table
    <3>1. OnTheWay(InDb, batch', queue', captured'.mail, records')
      BY <1>1, <1>2, <2>1, WayTypes, WayRequeues
    <3> QED  BY <1>1, <1>3, <2>1, <2>2, <3>1, ConveyedNext DEF InDb
  <2>3. CASE pc = "taken" /\ Persist(batch)
    <3>1. TableView(table') = Newest(InDb, batch)
      BY <2>3, PersistIsNewest
    <3>2. OnTheWay(TableView(table'), batch', queue', captured'.mail, records')
      BY <1>1, <1>2, <2>1, <3>1, WayTypes, WayKeeps
    <3> QED  BY <1>1, <1>3, <2>1, <2>3, <3>1, <3>2, ConveyedNext
  <2> QED  BY <2>1, <2>2, <2>3, NoVerdicts DEF Abandon
<1> QED  BY <1>4, <1>5, <1>6, <1>7

\* Every step keeps what is conveyed.
LEMMA ConveyedStep ==
  ASSUME OnlyRestarts, WayInv, [FNext]_fvars
  PROVE  Conveyed'
<1>1. CASE Rests
  BY <1>1, RestsConveys DEF WayInv
<1>2. CASE \E q \in QIDs : Adds(q)
  BY <1>2, AddsConveys
<1>3. CASE Enqueue("mail")
  <2>1. /\ queue' = queue \o captured.mail /\ captured'.mail = <<>>
        /\ UNCHANGED <<records, byDelivery, batch, pc, table, receiver>>
    BY <1>3, WayTypes DEF Enqueue, memory, index, run, receiving
  <2>2. OnTheWay(InDb, batch', queue', captured'.mail, records')
    BY <2>1, WayTypes, WayEnqueues, ConveyedMeans DEF WayInv
  <2> QED  BY <2>1, <2>2, ConveyedMeans, ConveyedNext DEF WayInv, InDb
<1>4. CASE Drain \/ TakeBatch \/ Answer \/ SendFails
  BY <1>4, RunConveys
<1>5. CASE ReceiverRestart
  <2>1. /\ receiver' \in LoadedFrom(table) /\ pc' # "taken"
        /\ UNCHANGED <<records, byDelivery, captured, batch, queue, table>>
    BY <1>5 DEF ReceiverRestart, node, memory, index
  <2>2. Receives(receiver', InDb)
    BY <2>1, WayTypes, RestartReceives, ConveyedMeans DEF WayInv, InDb
  <2> QED  BY <2>1, <2>2, ConveyedMeans, ConveyedNext DEF WayInv, InDb
<1> QED  BY <1>1, <1>2, <1>3, <1>4, <1>5, WaySteps

\* Nothing is on the way at the start.
LEMMA WayInit == FInit => WayInv
<1> SUFFICES ASSUME FInit PROVE WayInv
  OBVIOUS
<1>1. FInv
  BY FInvInit
<1>2. AllShown
  BY DEF FInit, Init, AllShown
<1>3. Quiet
  BY DEF FInit, Quiet, Nothing
<1>4. Conveyed
  <2> DEFINE none == [q \in QIDs |-> NoRow]
  <2>1. /\ records = <<>> /\ batch = <<>> /\ queue = <<>> /\ captured.mail = <<>>
        /\ pc = "waiting" /\ receiver = EmptyStore /\ table = EmptyTable
    BY DEF FInit, Init, Nothing
  <2>2. InDb = none
    <3>1. \A q \in QIDs : <<Node, q>> \in Key
      BY NodeIsOrigin DEF Key
    <3> QED  BY <2>1, <3>1 DEF InDb, TableView, EmptyTable
  <2>3. none \in View /\ \A q \in QIDs : none[q] = NoRow
    BY DEF View
  <2> HIDE DEF none
  <2>4. Len(<<>>) = 0 /\ 1 .. 0 = {}
    BY EmptySeq
  <2>5. WellFolded(<<>>, byDelivery)
    BY <2>4 DEF WellFolded
  <2>6. Whole(none)
    BY <2>3 DEF Whole, LinesAt, NoRow
  <2>7. ViewOf(none, <<>>)
    BY <2>3, <2>4 DEF ViewOf
  <2>8. Newest(none, <<>>) = none /\ Stage(none, <<>>)
    BY <2>3, <2>6, NewestOfNone, StageOfNone
  <2>9. OnTheWay(none, <<>>, <<>>, <<>>, <<>>)
    BY <2>6, <2>7, <2>8 DEF OnTheWay
  <2>10. Receives(EmptyStore, none)
    <3>1. \A q \in QIDs : OfId(EmptyStore, q) = {} /\ none[q].subsumed
      BY <2>3, <2>4 DEF OfId, EmptyStore, NoRow
    <3> QED  BY <3>1 DEF Receives
  <2> QED  BY <2>1, <2>2, <2>5, <2>9, <2>10 DEF Conveyed, Accepted
<1>5. faults \in Nat
  BY DEF FInit
<1> QED  BY <1>1, <1>2, <1>3, <1>4, <1>5 DEF WayInv

\* The invariant is kept
LEMMA WayStep ==
  ASSUME OnlyRestarts
  PROVE  WayInv /\ [FNext]_fvars => WayInv'
<1> SUFFICES ASSUME WayInv, [FNext]_fvars PROVE WayInv'
  OBVIOUS
<1>1. FInv'
  BY FInvStep DEF WayInv
<1>2. AllShown'
  <2>1. Unpurged
    BY StoreSteps, NoVerdicts DEF WayInv, FInv, Crash
  <2> QED  BY <2>1, AllShownStep DEF WayInv, FInv
<1> QED  BY <1>1, <1>2, FaultsStep, QuietStep, ConveyedStep DEF WayInv

\* and holds.
LEMMA AlwaysOnTheWay ==
  ASSUME OnlyRestarts
  PROVE  FSpec => []WayInv
BY WayInit, WayStep, PTL DEF FSpec

\* A line a batch leaves listed was listed before or is in the batch.
LEMMA ListedOrSent ==
  ASSUME NEW x \in View, NEW rows \in Seq(Record), NEW p \in QIDs,
         NEW y, y = Newest(x, rows), ~y[p].subsumed, NEW l \in y[p].lines
  PROVE  \/ \E r \in Range(rows) : l \in r.lines
         \/ ~x[p].subsumed /\ l \in x[p].lines
<1>1. CASE Sent(rows, p, "all") = {}
  BY <1>1, NewestIs
<1>2. CASE Sent(rows, p, "all") # {}
  <2>1. PICK m : LastOf(Sent(rows, p, "all"), m)
    BY <1>2, LastSent
  <2>2. m \in 1 .. Len(rows) /\ rows[m] \in Record /\ y[p] = Home(rows[m])
    BY <2>1, NewestIs
  <2>3. l \in rows[m].lines
    BY <2>2, HomeRow
  <2>4. DOMAIN rows = 1 .. Len(rows)
    BY LenProperties
  <2> QED  BY <2>2, <2>3, <2>4 DEF Range
<1> QED  BY <1>1, <1>2

\* What a view lists the receiver shows.
LEMMA ReceivedIsShown ==
  ASSUME Finished(receiver, Node), NEW x, Receives(receiver, x),
         NEW p \in QIDs, ~x[p].subsumed
  PROVE  x[p].lines \subseteq LinesIn(Range(receiver.recs))
<1>1. PICK r \in OfId(receiver, p) : r.lines = x[p].lines
  BY DEF Receives
<1>2. PICK i \in 1 .. Len(receiver.recs) : r = receiver.recs[i]
  BY DEF OfId
<1>3. ~r.subsumed
  BY <1>2 DEF Finished, RowFinished
<1>4. r \in Range(receiver.recs)
  BY <1>2, Parts DEF Finished, Range
<1> QED  BY <1>1, <1>3, <1>4 DEF LinesIn

\* What the table lists the receiver shows as well.
LEMMA ListedInTableIsShown ==
  ASSUME WayInv, NEW p \in QIDs, ~InDb[p].subsumed
  PROVE  /\ InDb[p].lines \subseteq LinesIn(Range(receiver.recs))
         /\ InDb[p].lines \subseteq LinesIn(InTable)
<1>1. InDb[p].lines \subseteq LinesIn(InTable)
  <2>1. <<Node, p>> \in Key /\ InDb[p] = table[<<Node, p>>]
    BY NodeIsOrigin DEF Key, InDb, TableView
  <2>2. InDb[p] # NoRow
    BY DEF NoRow
  <2> QED  BY <2>1, <2>2 DEF LinesIn, InTable
<1>2. CASE pc # "taken"
  BY <1>1, <1>2, WayTypes, ConveyedMeans, ReceivedIsShown DEF WayInv
<1>3. CASE pc = "taken"
  <2> DEFINE x == Newest(InDb, batch)
  <2>1. Receives(receiver, x) /\ Whole(x) /\ Leads(InDb, batch)
    BY <1>3, ConveyedMeans DEF WayInv, Conveyed, OnTheWay, Stage
  <2>2. LinesAt(InDb, p) = InDb[p].lines /\ LinesAt(InDb, p) \subseteq LinesAt(x, p)
    BY <2>1 DEF LinesAt, Leads, NoRow
  <2> HIDE DEF x
  <2>3. ASSUME NEW l \in InDb[p].lines PROVE l \in LinesIn(Range(receiver.recs))
    <3>1. PICK h \in QIDs : ~x[h].subsumed /\ l \in x[h].lines
      BY <2>1, <2>2 DEF Whole
    <3> QED  BY <2>1, <3>1, WayTypes, ReceivedIsShown
  <2> QED  BY <1>1, <2>3
<1> QED  BY <1>2, <1>3

\* No hand-over loses a line: from the watcher to the queue, to the batch, to
\* the request, to the receiver and its database, with restarts of the
\* receiver, lost answers and requests that break off, for any log.
THEOREM NothingLostOnTheWay ==
  ASSUME Scored = {}, Faults \subseteq {"restart"}
  PROVE  FSpec => []Conserved
<1>1. ASSUME WayInv PROVE Conserved
  <2> DEFINE Carried ==
               UNION {r.lines : r \in UNION {Range(x) : x \in {queue, batch, captured.mail,
                                                               captured.rspamd}}}
             Arrived == LinesIn(Range(receiver.recs)) \cap LinesIn(InTable)
             x == Newest(InDb, batch)
             y == Newest(x, queue)
             z == Newest(y, captured.mail)
  <2>1. \A rows \in {queue, batch, captured.mail} :
          \A r \in Range(rows) : \A l \in r.lines : l \in Carried
    OBVIOUS
  <2>2. x \in View /\ y \in View
    BY <1>1, WayTypes, WayViews
  <2>3. ViewOf(z, records)
    BY <1>1 DEF WayInv, Conveyed, OnTheWay
  <2> HIDE DEF Carried, x, y, z
  <2>4. ASSUME NEW q \in QIDs, NEW n \in 1 .. fed[q]
        PROVE  [q |-> q, n |-> n] \in Arrived \cup Carried
    <3> DEFINE l == [q |-> q, n |-> n]
    <3>1. l \in ShownIn(records)
      BY <1>1 DEF WayInv, AllShown
    <3> HIDE DEF l
    <3>2. PICK j \in 1 .. Len(records) : ~records[j].subsumed /\ l \in records[j].lines
      BY <3>1 DEF ShownIn
    <3> DEFINE p == records[j].qid
    <3>3. records[j] \in Record /\ p \in QIDs
      BY <1>1, StoredParts DEF WayInv, FInv, IInv
    <3>4. z[p] = Home(records[j])
      BY <2>3 DEF ViewOf
    <3>5. ~z[p].subsumed /\ l \in z[p].lines
      BY <3>2, <3>3, <3>4, HomeRow
    <3> HIDE DEF p
    <3>6. l \in Carried \/ (~y[p].subsumed /\ l \in y[p].lines)
      BY <1>1, <2>1, <2>2, <3>3, <3>5, WayTypes, ListedOrSent DEF z
    <3>7. l \in Carried \/ (~x[p].subsumed /\ l \in x[p].lines)
      BY <1>1, <2>1, <2>2, <3>3, <3>6, WayTypes, ListedOrSent DEF y
    <3>8. l \in Carried \/ (~InDb[p].subsumed /\ l \in InDb[p].lines)
      BY <1>1, <2>1, <3>3, <3>7, WayTypes, ListedOrSent DEF x
    <3>9. l \in Carried \/ l \in Arrived
      BY <1>1, <3>3, <3>8, ListedInTableIsShown
    <3> QED  BY <3>9 DEF l
  <2> QED  BY <2>4 DEF Conserved, Carried
<1> QED  BY <1>1, AlwaysOnTheWay, PTL DEF OnlyRestarts

\* A row the receiver lists never comes to show less, whatever arrives, late
\* in its order or again, until a restart.
THEOREM SnapshotsOnlyGrow ==
  ASSUME Scored = {}, Faults \subseteq {"restart"}
  PROVE  FSpec => RowsOnlyGrow
<1> DEFINE Grown == \A r \in Listed(receiver) : \E s \in Listed(receiver') :
                      RecKey(s) = RecKey(r) /\ r.lines \subseteq s.lines
<1>1. ASSUME WayInv, WayInv', [FNext]_fvars, UNCHANGED faults PROVE Grown
  <2>1. CASE TakeBatch
    <3> DEFINE t == receiver'
    <3>1. t = IngestSnapshots(receiver, Node, batch) /\ Receives(receiver, InDb)
      BY <1>1, <2>1, ConveyedMeans DEF TakeBatch, Take, WayInv
    <3>2. Finished(receiver, Node) /\ Finished(t, Node)
      BY <1>1 DEF WayInv, FInv, Received
    <3> HIDE DEF t
    <3>3. \A q \in QIDs : \A r \in OfId(receiver, q) :
            \E e \in OfId(t, q) : r.lines \subseteq e.lines
      BY <1>1, <3>1, WayTypes, ConveyedMeans, TakeReceives DEF WayInv
    <3>4. ASSUME NEW r \in Listed(receiver)
          PROVE  \E s \in Listed(t) : RecKey(s) = RecKey(r) /\ r.lines \subseteq s.lines
      <4>1. PICK i \in 1 .. Len(receiver.recs) : r = receiver.recs[i]
        BY <3>2, Parts DEF Finished, Listed, Range
      <4>2. r.qid \in QIDs /\ r.origin = Node /\ r \in OfId(receiver, r.qid)
        BY <3>2, <4>1 DEF Finished, RowFinished, Clean, Record, OfId
      <4>3. PICK e \in OfId(t, r.qid) : r.lines \subseteq e.lines
        BY <3>3, <4>2
      <4>4. PICK j \in 1 .. Len(t.recs) : e = t.recs[j] /\ e.qid = r.qid
        BY DEF OfId
      <4>5. e \in Listed(t) /\ e.origin = Node
        BY <3>2, <4>4, Parts DEF Finished, RowFinished, Listed, Range
      <4> QED  BY <4>2, <4>3, <4>4, <4>5 DEF RecKey
    <3> QED  BY <3>4 DEF t
  <2>2. CASE receiver' = receiver
    BY <2>2
  <2>3. ~ReceiverRestart
    <3>1. faults \in Nat
      BY <1>1 DEF WayInv
    <3> QED  BY <1>1, <3>1 DEF ReceiverRestart, Fault
  <2>4. TakeBatch \/ receiver' = receiver
    BY <1>1, <2>3, WaySteps DEF OnlyRestarts, Rests, Adds, Enqueue, Drain, Answer, SendFails,
         receiving
  <2> QED  BY <2>1, <2>2, <2>4
<1>2. WayInv /\ WayInv' /\ [FNext]_fvars => [UNCHANGED faults => Grown]_fvars
  BY <1>1
<1>3. FSpec => []WayInv
  BY AlwaysOnTheWay DEF OnlyRestarts
<1> QED  BY <1>2, <1>3, PTL DEF FSpec, RowsOnlyGrow

-----------------------------------------------------------------------------
(* What is on the way was logged.                                          *)

\* A line of q adds one to the lines of q, any other none.
LEMMA LinesOfGrows ==
  ASSUME NEW q \in QIDs, NEW n \in Nat
  PROVE  /\ LinesOf(q, n + 1) = IF Log[n + 1] = q THEN LinesOf(q, n) + 1 ELSE LinesOf(q, n)
         /\ \A m \in 0 .. n : LinesOf(q, m) <= LinesOf(q, n)
         /\ LinesOf(q, 0) = 0
<1> DEFINE S(m) == {i \in 1 .. m : Log[i] = q}
<1>1. ASSUME NEW m \in Nat PROVE IsFiniteSet(S(m)) /\ Cardinality(S(m)) \in Nat
  <2>1. IsFiniteSet(1 .. m)
    BY FS_Interval
  <2> QED  BY <2>1, FS_Subset, FS_CardinalityType
<1>2. ASSUME NEW m \in 0 .. n PROVE Cardinality(S(m)) <= Cardinality(S(n))
  <2>1. S(m) \subseteq S(n)
    OBVIOUS
  <2> QED  BY <1>1, <2>1, FS_Subset
<1>3. S(0) = {}
  OBVIOUS
<1>4. S(n + 1) = IF Log[n + 1] = q THEN S(n) \cup {n + 1} ELSE S(n)
  <2>1. 1 .. (n + 1) = (1 .. n) \cup {n + 1}
    OBVIOUS
  <2> QED  BY <2>1
<1>5. n + 1 \notin S(n) /\ IsFiniteSet(S(n)) /\ Cardinality(S(n)) \in Nat
  BY <1>1
<1> HIDE DEF S
<1>6. Cardinality(S(n) \cup {n + 1}) = Cardinality(S(n)) + 1
  BY <1>5, FS_AddElement
<1>7. Cardinality({}) = 0
  BY FS_EmptySet
<1>8. \A m : LinesOf(q, m) = Cardinality(S(m))
  BY DEF LinesOf, S
<1> QED  BY <1>2, <1>3, <1>4, <1>6, <1>7, <1>8

\* The m-th line of q is a line of the log.
LEMMA LineIsThere ==
  ASSUME NEW q \in QIDs, NEW n \in Nat, NEW m \in 1 .. LinesOf(q, n)
  PROVE  \E i \in 1 .. n : Log[i] = q /\ LinesOf(q, i) = m
<1> DEFINE There(k) == \A l \in 1 .. LinesOf(q, k) :
                         \E i \in 1 .. k : Log[i] = q /\ LinesOf(q, i) = l
           T == {k \in Nat : There(k)}
<1>1. 0 \in T
  BY LinesOfGrows
<1>2. ASSUME NEW k \in Nat, k \in T PROVE k + 1 \in T
  <2>1. /\ LinesOf(q, k + 1) = IF Log[k + 1] = q THEN LinesOf(q, k) + 1 ELSE LinesOf(q, k)
        /\ LinesOf(q, k) \in Nat
    BY LinesOfGrows, LinesOfType
  <2>2. ASSUME NEW l \in 1 .. LinesOf(q, k + 1)
        PROVE  \E i \in 1 .. (k + 1) : Log[i] = q /\ LinesOf(q, i) = l
    <3>1. CASE l \in 1 .. LinesOf(q, k)
      <4>1. PICK i \in 1 .. k : Log[i] = q /\ LinesOf(q, i) = l
        BY <1>2, <3>1
      <4>2. i \in 1 .. (k + 1)
        OBVIOUS
      <4> QED  BY <4>1, <4>2
    <3>2. CASE l \notin 1 .. LinesOf(q, k)
      <4>1. Log[k + 1] = q /\ l = LinesOf(q, k + 1)
        BY <2>1, <3>2
      <4>2. k + 1 \in 1 .. (k + 1)
        OBVIOUS
      <4> QED  BY <4>1, <4>2
    <3> QED  BY <3>1, <3>2
  <2> QED  BY <2>2
<1> HIDE DEF T
<1>3. n \in T
  BY <1>1, <1>2, NatSetInduction
<1> QED  BY <1>3 DEF T

\* The rows of the store have lines of the log only.
FromLog ==
  /\ \A j \in 1 .. Len(records) : \A l \in records[j].lines : l.n \in 1 .. fed[l.q]
  /\ \A q \in QIDs : fed[q] <= LinesOf(q, written)
  /\ offset <= written

LineAt(i) == [q |-> Log[i], n |-> LinesOf(Log[i], i)]

LEMMA StoredIsLogged ==
  ASSUME WayInv, FromLog, NEW j \in 1 .. Len(records), NEW l \in records[j].lines
  PROVE  \E i \in 1 .. written : l = LineAt(i)
<1>1. records[j] \in Record /\ l.q \in QIDs
  BY StoredParts DEF WayInv, FInv, IInv
<1>2. l \in Line /\ l = [q |-> l.q, n |-> l.n]
  BY <1>1 DEF Record, Line
<1>3. written \in Nat /\ fed[l.q] \in Nat /\ LinesOf(l.q, written) \in Nat
  BY <1>1, ForwardAssumption, LenProperties, LinesOfType
  DEF WayInv, FInv, IInv, InputOK, Offsets
<1>4. l.n \in 1 .. LinesOf(l.q, written)
  BY <1>1, <1>3 DEF FromLog
<1>5. PICK i \in 1 .. written : Log[i] = l.q /\ LinesOf(l.q, i) = l.n
  BY <1>1, <1>3, <1>4, LineIsThere
<1> QED  BY <1>2, <1>5 DEF LineAt

\* The lines of a part were logged, in the order they are numbered.
LEMMA AddsFromLog ==
  ASSUME OnlyRestarts, WayInv, FromLog, NEW q \in QIDs, FeedMail(q),
         fed'[q] <= LinesOf(q, written), UNCHANGED <<written, offset>>
  PROVE  FromLog'
<1> DEFINE i == byQueueID'[<<Local, q>>]
           more == Handed(q)
<1>1. IInv /\ Links /\ fed \in [QIDs -> Nat] /\ rspamdPending = {}
  BY NoVerdicts DEF WayInv, FInv, IInv, InputOK
<1>2. Rewrites(records, byDelivery, records', byDelivery', i, more)
  BY <1>1, FeedMailRow
<1>3. PICK b \in (fed[q] + 1) .. Len(Stamp[q]) : fed' = [fed EXCEPT ![q] = b]
  BY DEF FeedMail
<1>4. /\ b \in Nat /\ fed[q] < b /\ fed'[q] = b
      /\ \A p \in QIDs : fed'[p] \in Nat /\ fed[p] <= fed'[p] /\ (p # q => fed'[p] = fed[p])
  <2>1. Len(Stamp[q]) \in Nat
    BY LogAssumption, LenProperties
  <2> QED  BY <1>1, <1>3, <2>1
<1>5. \A l \in more : l.q = q /\ l.n \in 1 .. fed'[q]
  <2>1. ASSUME NEW l \in more PROVE \E n \in (fed[q] + 1) .. fed'[q] : l = [q |-> q, n |-> n]
    BY <1>1, <2>1 DEF Handed
  <2>2. fed[q] \in Nat
    BY <1>1
  <2> QED  BY <1>4, <2>1, <2>2
<1> HIDE DEF i, more
<1>6. \A j \in 1 .. Len(records) : \A l \in records[j].lines :
        l.q \in QIDs /\ l.n \in 1 .. fed[l.q]
  BY <1>1, StoredParts DEF FromLog, IInv
<1>7. \A j \in 1 .. Len(records) : \A l \in records[j].lines :
        l.n \in 1 .. fed'[l.q]
  <2>1. ASSUME NEW j \in 1 .. Len(records), NEW l \in records[j].lines
        PROVE  l.n \in 1 .. fed'[l.q]
    <3>1. l.q \in QIDs /\ l.n \in 1 .. fed[l.q]
      BY <1>6
    <3>2. fed[l.q] \in Nat /\ fed'[l.q] \in Nat /\ fed[l.q] <= fed'[l.q]
      BY <1>1, <1>4, <3>1
    <3> QED  BY <3>1, <3>2
  <2> QED  BY <2>1
<1>8. ASSUME NEW j \in 1 .. Len(records'), NEW l \in records'[j].lines
      PROVE  l.n \in 1 .. fed'[l.q]
  <2>1. CASE j = i
    <3>1. l \in more \/ \E k \in 1 .. Len(records) : l \in records[k].lines
      BY <1>2, <2>1 DEF Rewrites
    <3> QED  BY <1>5, <1>7, <3>1
  <2>2. CASE j # i
    <3>1. j \in 1 .. Len(records) /\ (~records'[j].subsumed => records'[j] = records[j])
      BY <1>2, <2>2 DEF Rewrites
    <3>2. records'[j].lines = records[j].lines
      BY <1>2, <3>1 DEF Rewrites
    <3> QED  BY <1>7, <3>1, <3>2
  <2> QED  BY <2>1, <2>2
<1>9. \A p \in QIDs : fed'[p] <= LinesOf(p, written')
  BY <1>4 DEF FromLog
<1> QED  BY <1>8, <1>9 DEF FromLog

\* The store has what was logged, no more.
LEMMA FromLogStep ==
  ASSUME OnlyRestarts, WayInv, FromLog, [FNext]_fvars
  PROVE  FromLog'
<1>1. written \in 0 .. Len(Log) /\ offset \in Nat /\ Len(Log) \in Nat /\ written \in Nat
  BY ForwardAssumption, LenProperties DEF WayInv, FInv, Offsets
<1>2. ASSUME UNCHANGED <<records, fed, written>>, offset' <= written PROVE FromLog'
  BY <1>2 DEF FromLog
<1>3. CASE Write
  <2>1. written' = written + 1 /\ UNCHANGED <<records, fed, offset>>
    BY <1>3 DEF Write, memory, input, watching
  <2>2. ASSUME NEW q \in QIDs PROVE fed[q] <= LinesOf(q, written')
    <3>1. LinesOf(q, written) <= LinesOf(q, written')
      <4>1. written \in 0 .. written' /\ written' \in Nat
        BY <1>1, <2>1
      <4> QED  BY <4>1, LinesOfGrows
    <3>2. /\ fed[q] \in Nat /\ LinesOf(q, written) \in Nat /\ LinesOf(q, written') \in Nat
          /\ fed[q] <= LinesOf(q, written)
      <4>1. fed[q] \in Nat /\ fed[q] <= LinesOf(q, written)
        BY DEF FromLog, WayInv, FInv, IInv, InputOK
      <4>2. written' \in Nat
        BY <1>1, <2>1
      <4> QED  BY <1>1, <4>1, <4>2, LinesOfType
    <3> QED  BY <3>1, <3>2
  <2>3. offset <= written'
    BY <1>1, <2>1 DEF FromLog
  <2> QED  BY <2>1, <2>2, <2>3 DEF FromLog
<1>4. CASE StartTailing \/ ReadLine
  BY <1>1, <1>2, <1>4 DEF StartTailing, ReadLine, memory, input, logs
<1>5. ASSUME NEW q \in QIDs, WriteVerdict(q) \/ ParseVerdict(q) \/ ReadVerdict(q) PROVE FALSE
  BY <1>5, NoVerdicts DEF WriteVerdict, ParseVerdict, ReadVerdict, OnlyRestarts
<1>6. ASSUME NEW q \in QIDs, ParseGroup(q) PROVE FromLog'
  <2>1. LinesOf(q, written) \in Nat
    BY <1>1, LinesOfType
  <2> QED  BY <1>6, <2>1, AddsFromLog DEF ParseGroup, logs, watching
<1>7. ASSUME NEW q \in QIDs, Finalize(q), UNCHANGED <<written, offset>> PROVE FromLog'
  <2>1. LinesOf(q, offset) <= LinesOf(q, written)
    <3>1. offset \in 0 .. written
      BY <1>1 DEF FromLog
    <3> QED  BY <1>1, <3>1, LinesOfGrows
  <2> QED  BY <1>7, <2>1, AddsFromLog DEF Finalize
<1>8. ASSUME NEW q \in QIDs, FlushStale(q) PROVE FromLog'
  BY <1>7, <1>8 DEF FlushStale, logs, watching
<1>9. CASE ProcessLine
  <2>1. CASE UNCHANGED <<memory, input, captured>>
    BY <1>2, <1>9, <2>1 DEF ProcessLine, memory, input, logs, FromLog
  <2>2. CASE Finalize(Log[offset])
    <3>1. Log[offset] \in QIDs
      BY <1>9, ForwardAssumption, ElementOfSeq DEF WayInv, FInv, Offsets, ProcessLine
    <3> QED  BY <1>7, <1>9, <2>2, <3>1 DEF ProcessLine, logs
  <2> QED  BY <1>9, <2>1, <2>2 DEF ProcessLine
<1>10. CASE PruneVerdicts \/ Crash
  BY <1>10, NoVerdicts DEF PruneVerdicts, Crash
<1>11. CASE \E w \in {"mail", "rspamd"} : Enqueue(w)
  BY <1>2, <1>11 DEF Enqueue, memory, input, logs, watching, FromLog
<1>12. CASE \/ Capture \/ Drain \/ TakeBatch \/ Answer \/ SendFails \/ SaveCheckpoint
            \/ ReceiverRestart \/ UNCHANGED fvars
  BY <1>2, <1>12 DEF Capture, Drain, TakeBatch, Answer, SendFails, SaveCheckpoint,
       ReceiverRestart, fvars, node, memory, input, logs, watching, FromLog
<1>13. ASSUME NEW h \in late PROVE FALSE
  BY <1>13 DEF WayInv, Quiet
<1> QED  BY <1>3, <1>4, <1>5, <1>6, <1>8, <1>9, <1>10, <1>11, <1>12, <1>13 DEF FNext

LEMMA FromLogInit == FInit => FromLog
<1> SUFFICES ASSUME FInit PROVE FromLog
  OBVIOUS
<1>1. Len(<<>>) = 0 /\ records = <<>> /\ fed = [q \in QIDs |-> 0] /\ offset = 0
  BY EmptySeq DEF FInit, Init
<1>2. written \in Nat
  BY ForwardAssumption, LenProperties DEF FInit
<1>3. \A q \in QIDs : fed[q] <= LinesOf(q, written)
  BY <1>1, <1>2, LinesOfType
<1> QED  BY <1>1, <1>2, <1>3 DEF FromLog

-----------------------------------------------------------------------------
(* The way implements PlvDelivery: each step is one of its steps or a      *)
(* stutter.  What is shown is what the accepted rows list, what is kept is *)
(* what the table lists.                                                   *)

ListedLines(x) == UNION {x[p].lines : p \in {h \in QIDs : ~x[h].subsumed}}

Logged == {LineAt(i) : i \in 1 .. written}
Shown  == LinesIn(Range(receiver.recs))
Kept   == LinesIn(InTable)

\* A batch takes no line off what a view lists.
LEMMA ListedGrow ==
  ASSUME NEW x \in View, NEW rows, Leads(x, rows), NEW y, y = Newest(x, rows), Whole(y)
  PROVE  ListedLines(x) \subseteq ListedLines(y)
<1>1. ASSUME NEW p \in QIDs, ~x[p].subsumed, NEW l \in x[p].lines
      PROVE  l \in ListedLines(y)
  <2>1. l \in LinesAt(x, p)
    BY <1>1 DEF LinesAt, NoRow
  <2>2. l \in LinesAt(y, p)
    BY <2>1 DEF Leads
  <2>3. PICK h \in QIDs : ~y[h].subsumed /\ l \in y[h].lines
    BY <2>2 DEF Whole
  <2> QED  BY <2>3 DEF ListedLines
<1> QED  BY <1>1 DEF ListedLines

\* The receiver shows what the rows it received list.
LEMMA ReceivedShows ==
  ASSUME NEW s, Finished(s, Node), NEW x, Whole(x), Receives(s, x)
  PROVE  LinesIn(Range(s.recs)) = ListedLines(x)
<1>1. DOMAIN s.recs = 1 .. Len(s.recs)
  BY Parts DEF Finished
<1>2. ASSUME NEW l \in LinesIn(Range(s.recs)) PROVE l \in ListedLines(x)
  <2>1. PICK i \in 1 .. Len(s.recs) : l \in s.recs[i].lines
    BY <1>1 DEF LinesIn, Range
  <2> DEFINE q == s.recs[i].qid
  <2>2. q \in QIDs /\ s.recs[i] \in OfId(s, q)
    BY Parts DEF Finished, OfId
  <2>3. l \in LinesAt(x, q)
    BY <2>1, <2>2 DEF Receives
  <2>4. PICK p \in QIDs : ~x[p].subsumed /\ l \in x[p].lines
    BY <2>2, <2>3 DEF Whole
  <2> QED  BY <2>4 DEF ListedLines
<1>3. ASSUME NEW l \in ListedLines(x) PROVE l \in LinesIn(Range(s.recs))
  <2>1. PICK q \in QIDs : ~x[q].subsumed /\ l \in x[q].lines
    BY DEF ListedLines
  <2>2. PICK r \in OfId(s, q) : r.lines = x[q].lines
    BY <2>1 DEF Receives
  <2>3. PICK i \in 1 .. Len(s.recs) : r = s.recs[i]
    BY DEF OfId
  <2>4. ~r.subsumed /\ r \in Range(s.recs)
    BY <1>1, <2>3 DEF Finished, RowFinished, Range
  <2> QED  BY <2>1, <2>2, <2>4 DEF LinesIn
<1> QED  BY <1>2, <1>3

\* The database keeps what its view lists.
LEMMA TableShows ==
  ASSUME NEW t, CleanTable(t, Node)
  PROVE  LinesIn({t[k] : k \in Key} \ {NoRow}) = ListedLines(TableView(t))
<1> DEFINE x == TableView(t)
           T == {t[k] : k \in Key} \ {NoRow}
<1>1. \A q \in QIDs : <<Node, q>> \in Key /\ x[q] = t[<<Node, q>>]
  BY NodeIsOrigin DEF Key, TableView
<1> HIDE DEF x
<1>2. ASSUME NEW l \in LinesIn(T) PROVE l \in ListedLines(x)
  <2>1. PICK k \in Key : t[k] # NoRow /\ ~t[k].subsumed /\ l \in t[k].lines
    BY DEF LinesIn
  <2>2. Clean(t[k]) /\ t[k].origin = Node /\ RecKey(t[k]) = k
    BY <2>1 DEF CleanTable
  <2>3. t[k].qid \in QIDs /\ k = <<Node, t[k].qid>>
    BY <2>2 DEF Clean, Record, RecKey
  <2> QED  BY <1>1, <2>1, <2>3 DEF ListedLines
<1>3. ASSUME NEW l \in ListedLines(x) PROVE l \in LinesIn(T)
  <2>1. PICK q \in QIDs : ~x[q].subsumed /\ l \in x[q].lines
    BY DEF ListedLines
  <2>2. x[q] # NoRow
    BY <2>1 DEF NoRow
  <2>3. x[q] \in T
    BY <1>1, <2>2
  <2> QED  BY <2>1, <2>3 DEF LinesIn
<1> QED  BY <1>2, <1>3 DEF x

\* What all the views in a row list was logged.
LEMMA WayIsLogged ==
  ASSUME WayInv, FromLog
  PROVE  /\ ListedLines(InDb) \subseteq ListedLines(Newest(InDb, batch))
         /\ ListedLines(Newest(InDb, batch)) \subseteq Logged
<1> DEFINE x == Newest(InDb, batch)
           y == Newest(x, queue)
           z == Newest(y, captured.mail)
<1>1. /\ Leads(InDb, batch) /\ Whole(x) /\ Leads(x, queue) /\ Whole(y)
      /\ Leads(y, captured.mail) /\ Whole(z) /\ ViewOf(z, records)
  BY DEF WayInv, Conveyed, OnTheWay, Stage
<1>2. InDb \in View /\ x \in View /\ y \in View
  BY WayTypes, WayViews
<1> HIDE DEF x, y, z
<1>3. /\ ListedLines(InDb) \subseteq ListedLines(x)
      /\ ListedLines(x) \subseteq ListedLines(y)
      /\ ListedLines(y) \subseteq ListedLines(z)
  BY <1>1, <1>2, ListedGrow DEF x, y, z
<1>4. ASSUME NEW l \in ListedLines(z) PROVE l \in Logged
  <2>1. PICK q \in QIDs : ~z[q].subsumed /\ l \in z[q].lines
    BY DEF ListedLines
  <2>2. z[q] # NoRow
    BY <2>1 DEF NoRow
  <2>3. PICK j \in 1 .. Len(records) : records[j].qid = q
    BY <1>1, <2>2 DEF ViewOf
  <2>4. z[q] = Home(records[j]) /\ records[j] \in Record
    BY <1>1, <2>3, StoredParts DEF ViewOf, WayInv, FInv, IInv
  <2>5. l \in records[j].lines
    BY <2>1, <2>4, HomeRow
  <2> QED  BY <2>5, StoredIsLogged DEF Logged
<1> QED  BY <1>3, <1>4 DEF x

Shows == Shown = ListedLines(Accepted) /\ Kept = ListedLines(InDb)

\* What PlvDelivery sees of the way.
LEMMA WayShows == WayInv => Shows
<1> SUFFICES ASSUME WayInv PROVE Shows
  OBVIOUS
<1>1. Whole(Accepted) /\ Receives(receiver, Accepted)
  BY DEF WayInv, Conveyed, OnTheWay, Stage, Accepted
<1>2. Shown = ListedLines(Accepted)
  BY <1>1, WayTypes, ReceivedShows DEF Shown
<1>3. Kept = ListedLines(InDb)
  BY WayTypes, TableShows DEF Kept, InTable, InDb
<1> QED  BY <1>2, <1>3 DEF Shows

\* The steps of PlvDelivery, with what its variables stand for.
LogsALine == /\ \E i \in DOMAIN Log : Logged' = Logged \cup {LineAt(i)}
             /\ UNCHANGED <<Shown, Kept>>
ShowsMore == /\ Shown \subseteq Shown' /\ Shown' \subseteq Logged
             /\ UNCHANGED <<Logged, Kept>>
KeepsMore == /\ Kept \subseteq Kept' /\ Kept' \subseteq Shown
             /\ UNCHANGED <<Logged, Shown>>
FallsBack == Shown' = Kept /\ UNCHANGED <<Logged, Kept>>

LEMMA DeliverySteps ==
  ASSUME LogsALine \/ ShowsMore \/ KeepsMore \/ FallsBack \/ UNCHANGED <<Logged, Shown, Kept>>
  PROVE  [Delivery!Next]_(Delivery!vars)
<1>1. CASE UNCHANGED <<Logged, Shown, Kept>>
  BY <1>1 DEF Delivery!vars, Logged, Shown, Kept, LineAt
<1>2. CASE LogsALine
  <2>1. PICK i \in DOMAIN Log : Logged' = Logged \cup {LineAt(i)}
    BY <1>2 DEF LogsALine
  <2>2. CASE LineAt(i) \in Logged
    <3>1. Logged' = Logged
      BY <2>1, <2>2
    <3> QED  BY <1>1, <1>2, <3>1 DEF LogsALine
  <2>3. CASE LineAt(i) \notin Logged
    <3>1. Delivery!LogLines
      BY <1>2, <2>1, <2>3 DEF LogsALine, Delivery!LogLines, Logged, Shown, Kept, LineAt
    <3> QED  BY <3>1 DEF Delivery!Next
  <2> QED  BY <2>2, <2>3
<1>3. CASE ShowsMore
  <2>1. Shown' = Shown \cup (Shown' \ Shown) /\ Shown' \ Shown \in SUBSET (Logged \ Shown)
    BY <1>3 DEF ShowsMore
  <2>2. Delivery!Show
    BY <1>3, <2>1 DEF ShowsMore, Delivery!Show, Logged, Shown, Kept, LineAt
  <2> QED  BY <2>2 DEF Delivery!Next
<1>4. CASE KeepsMore
  <2>1. Kept' = Kept \cup (Kept' \ Kept) /\ Kept' \ Kept \in SUBSET (Shown \ Kept)
    BY <1>4 DEF KeepsMore
  <2>2. Delivery!Keep
    BY <1>4, <2>1 DEF KeepsMore, Delivery!Keep, Logged, Shown, Kept, LineAt
  <2> QED  BY <2>2 DEF Delivery!Next
<1>5. CASE FallsBack
  BY <1>5 DEF FallsBack, Delivery!Next, Delivery!Restart, Logged, Shown, Kept, LineAt
<1> QED  BY <1>1, <1>2, <1>3, <1>4, <1>5

\* One step of the way is one of PlvDelivery, or none.
LEMMA WayDelivers ==
  ASSUME OnlyRestarts, WayInv, FromLog, Shows, Shows', [FNext]_fvars
  PROVE  [Delivery!Next]_(Delivery!vars)
<1> DEFINE x == Newest(InDb, batch)
<1>1. /\ ListedLines(InDb) \subseteq ListedLines(x) /\ ListedLines(x) \subseteq Logged
  BY WayIsLogged
<1>2. /\ Shown = (IF pc = "taken" THEN ListedLines(x) ELSE ListedLines(InDb))
      /\ Kept = ListedLines(InDb)
  BY DEF Shows, Accepted
<1>3. /\ UNCHANGED written => UNCHANGED Logged
      /\ UNCHANGED receiver => UNCHANGED Shown
      /\ UNCHANGED table => UNCHANGED Kept
  BY DEF Logged, Shown, Kept, InTable
<1> HIDE DEF x
<1>4. CASE Write
  <2>1. /\ written \in Nat /\ written' = written + 1 /\ written + 1 \in DOMAIN Log
        /\ UNCHANGED <<receiver, table>>
    <3>1. DOMAIN Log = 1 .. Len(Log) /\ Len(Log) \in Nat /\ written \in 0 .. Len(Log)
      BY ForwardAssumption, LenProperties DEF WayInv, FInv, Offsets
    <3> QED  BY <1>4, <3>1 DEF Write, receiving
  <2>2. Logged' = Logged \cup {LineAt(written + 1)}
    <3>1. 1 .. (written + 1) = (1 .. written) \cup {written + 1}
      BY <2>1
    <3>2. \A i : LineAt(i)' = LineAt(i)
      BY DEF LineAt
    <3> QED  BY <2>1, <3>1, <3>2 DEF Logged
  <2> QED  BY <1>3, <2>1, <2>2, DeliverySteps DEF LogsALine
<1>5. UNCHANGED written \/ Write
  BY DEF FNext, fvars, node, logs, StartTailing, ReadLine, ProcessLine, PruneVerdicts,
     WriteVerdict, ParseGroup, ParseVerdict, FlushStale, ReadVerdict, Enqueue, Capture,
     Drain, TakeBatch, Answer, SendFails, SaveCheckpoint, LateTake, LatePersist, Crash,
     ReceiverRestart
<1>6. CASE UNCHANGED <<written, receiver, table>>
  BY <1>3, <1>6, DeliverySteps
<1>7. CASE TakeBatch /\ UNCHANGED written
  <2>1. pc = "sending" /\ pc' = "taken" /\ UNCHANGED <<batch, table>>
    BY <1>7 DEF TakeBatch
  <2>2. Shown' = ListedLines(x)
    BY <2>1 DEF Shows, Accepted, InDb, x
  <2> QED  BY <1>1, <1>2, <1>3, <1>7, <2>1, <2>2, DeliverySteps DEF ShowsMore
<1>8. ASSUME pc = "taken", Persist(batch), UNCHANGED <<written, receiver>>
      PROVE  [Delivery!Next]_(Delivery!vars)
  <2>1. Kept' = ListedLines(x)
    BY <1>8, PersistIsNewest DEF Shows, InDb, x
  <2> QED  BY <1>1, <1>2, <1>3, <1>8, <2>1, DeliverySteps DEF KeepsMore
<1>9. CASE (Answer \/ SendFails) /\ UNCHANGED written
  <2>1. UNCHANGED receiver /\ \/ UNCHANGED table
                              \/ pc = "taken" /\ Persist(batch)
    BY <1>9 DEF Answer, SendFails, Abandon
  <2> QED  BY <1>6, <1>8, <1>9, <2>1
<1>10. CASE ReceiverRestart /\ UNCHANGED written
  <2>1. pc' # "taken" /\ UNCHANGED table
    BY <1>10 DEF ReceiverRestart
  <2>2. Shown' = ListedLines(InDb)
    BY <2>1 DEF Shows, Accepted, InDb
  <2> QED  BY <1>2, <1>3, <1>10, <2>1, <2>2, DeliverySteps DEF FallsBack
<1>11. \/ UNCHANGED <<receiver, table>>
       \/ TakeBatch \/ Answer \/ SendFails \/ ReceiverRestart
  BY WaySteps DEF Rests, Adds, Enqueue, Drain, receiving
<1> QED  BY <1>4, <1>5, <1>6, <1>7, <1>9, <1>10, <1>11

\* The way implements the safety of what PlvDelivery promises: the receiver
\* shows only what was logged, its database keeps only what was shown, neither
\* forgets, and a restart shows exactly what was kept.
THEOREM WayImplementsDelivery ==
  ASSUME Scored = {}, Faults \subseteq {"restart"}
  PROVE  FSpec => Delivery!Safety
<1>1. ASSUME FInit PROVE Delivery!Init
  <2>1. /\ receiver.recs = <<>> /\ table = EmptyTable /\ written \in 0 .. Len(Log)
    BY <1>1 DEF FInit, EmptyStore
  <2>2. DOMAIN Log = 1 .. Len(Log) /\ Len(Log) \in Nat /\ Len(<<>>) = 0
    BY ForwardAssumption, LenProperties, EmptySeq
  <2>3. InTable = {}
    BY <2>1 DEF InTable, EmptyTable
  <2>4. Range(receiver.recs) = {}
    BY <2>1 DEF Range
  <2>5. LinesIn(Range(receiver.recs)) = {} /\ LinesIn(InTable) = {}
    BY <2>3, <2>4 DEF LinesIn
  <2>6. 1 .. written \subseteq DOMAIN Log
    BY <2>1, <2>2
  <2> QED  BY <2>5, <2>6 DEF Delivery!Init
<1>2. FInit => WayInv /\ FromLog
  BY WayInit, FromLogInit
<1>3. WayInv /\ FromLog /\ [FNext]_fvars => WayInv' /\ FromLog'
  BY WayStep, FromLogStep DEF OnlyRestarts
<1>4. FSpec => [](WayInv /\ FromLog)
  BY <1>2, <1>3, PTL DEF FSpec
<1>5. WayInv /\ FromLog /\ Shows /\ Shows' /\ [FNext]_fvars
        => [Delivery!Next]_(Delivery!vars)
  BY WayDelivers DEF OnlyRestarts
<1> QED  BY <1>1, <1>4, <1>5, WayShows, PTL DEF FSpec, Delivery!Safety
=============================================================================
