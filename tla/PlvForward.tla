----------------------------- MODULE PlvForward ------------------------------
(***************************************************************************)
(* A forwarder and its receiver.  Goroutines of the forwarder: the mail    *)
(* watcher and the rspamd watcher, which change the store and, after they  *)
(* released its lock, enqueue the rows they changed; and Forwarder.Run,    *)
(* which captures the watchers' offsets, drains the queue, posts the batch *)
(* and saves the captured offsets once the receiver acknowledged it.       *)
(* handleIngest changes the receiver's Store under its lock, upserts the   *)
(* batch after it released it, and answers; it can outlive its request.    *)
(* A receiver that restarts has what its database kept.                    *)
(*                                                                         *)
(* Offsets count lines.  The log is not rotated here and is quiet while    *)
(* it is parsed at boot: PlvTail is about what happens otherwise.          *)
(***************************************************************************)
EXTENDS PlvMirror

CONSTANTS
  Log,        \* mail.log: the queue id of each of its lines
  Node,       \* the forwarder's certificate name
  Faults,     \* what may go wrong: the forwarder crashes, the receiver restarts,
              \* a handler outlives its request, an upsert of the receiver fails
  MaxFaults   \* bound on how often

LinesOf(q, n) == Cardinality({i \in 1 .. n : Log[i] = q})

ASSUME ForwardAssumption ==
  /\ Log \in Seq(QIDs)
  /\ \A q \in QIDs : LinesOf(q, Len(Log)) = Len(Stamp[q])
  /\ Node \in Origins \ {Local}
  /\ Faults \subseteq {"crash", "restart", "late", "upsert"}
  /\ MaxFaults \in Nat

VARIABLES
  written,    \* the lines Postfix has written to mail.log
  scoredLog,  \* the queue ids rspamd.log has a verdict for
  phase,      \* "parsing" the logs at boot, then "tailing" them
  offset,     \* Watcher.offset
  reading,    \* the line below offset is not processed yet
  captured,   \* captured[w]: the rows goroutine w has yet to enqueue
  queue,      \* Forwarder.queue
  batch,      \* the batch Run drained
  cp,         \* the offsets Run captured
  pc,         \* where Run is
  saved,      \* forward-state.json
  receiver,   \* the receiver's Store
  table,      \* the receiver's mail_records
  late,       \* the requests Run gave up that are still in handleIngest
  faults

memory   == <<records, index, rspamdPending, cutoff>>
logs     == <<written, scoredLog>>
watching == <<phase, offset, reading>>
run      == <<batch, cp, pc, saved>>
receiving == <<receiver, table, late>>
node     == <<memory, input, logs, watching, captured>>
fvars    == <<node, queue, run, receiving, faults>>

Fault(kind) == kind \in Faults /\ faults < MaxFaults /\ faults' = faults + 1

Nothing == [w \in {"mail", "rspamd"} |-> <<>>]
Start   == [mail |-> 0, rspamd |-> {}]
-----------------------------------------------------------------------------
(* The node's logs.                                                        *)

Write ==
  /\ phase = "tailing"
  /\ written < Len(Log)
  /\ written' = written + 1
  /\ UNCHANGED <<memory, input, scoredLog, watching, captured, queue, run, receiving, faults>>

WriteVerdict(q) ==
  /\ phase = "tailing"
  /\ q \in Scored \ scoredLog
  /\ scoredLog' = scoredLog \cup {q}
  /\ UNCHANGED <<memory, input, written, watching, captured, queue, run, receiving, faults>>

-----------------------------------------------------------------------------
(* bringUpParsing: everything in mail.log, then everything in rspamd.log.  *)

First(q) == CHOOSE i \in DOMAIN Log : Log[i] = q /\ LinesOf(q, i) = 1
Unparsed == {q \in QIDs : fed[q] < LinesOf(q, written)}

ParseGroup(q) ==
  /\ phase = "parsing"
  /\ q \in Unparsed
  /\ \A p \in Unparsed : First(q) <= First(p)
  /\ FeedMail(q)
  /\ fed'[q] = LinesOf(q, written)
  /\ queue' = queue \o CapturedByMail(q)
  /\ UNCHANGED <<logs, watching, captured, run, receiving, faults>>

ParseVerdict(q) ==
  /\ phase = "parsing"
  /\ Unparsed = {}
  /\ q \in scoredLog
  /\ FeedVerdict(q)
  /\ queue' = queue \o CapturedByVerdict(q)
  /\ UNCHANGED <<logs, watching, captured, run, receiving, faults>>

StartTailing ==
  /\ phase = "parsing"
  /\ Unparsed = {} /\ scoredLog \subseteq told
  /\ phase' = "tailing"
  /\ offset' = written
  /\ UNCHANGED <<memory, input, logs, reading, captured, queue, run, receiving, faults>>

-----------------------------------------------------------------------------
(* The watchers.  Watcher.pending holds the lines of q after the fed[q]th. *)

MailIdle == phase = "tailing" /\ ~reading /\ captured.mail = <<>>
Pending(q) == LinesOf(q, offset) - fed[q]

\* tick moves the offset past the line before it processes the line.
ReadLine ==
  /\ MailIdle
  /\ offset < written
  /\ offset' = offset + 1
  /\ reading' = TRUE
  /\ UNCHANGED <<memory, input, logs, phase, captured, queue, run, receiving, faults>>

\* finalize: all pending lines of q go to the store.
Finalize(q) ==
  /\ FeedMail(q)
  /\ fed'[q] = LinesOf(q, offset)
  /\ captured' = [captured EXCEPT !.mail = CapturedByMail(q)]

\* The last line of a message is its ": removed".
ProcessLine ==
  /\ reading
  /\ reading' = FALSE
  /\ LET q == Log[offset]
     IN  IF LinesOf(q, offset) = Len(Stamp[q])
         THEN Finalize(q)
         ELSE UNCHANGED <<memory, input, captured>>
  /\ UNCHANGED <<logs, phase, offset, queue, run, receiving, faults>>

BadStale(q) == Pending(q) > 1  \* a lone line is never flushed

\* Which messages are five minutes old is left open.
Stale(q) == Pending(q) > 0

FlushStale(q) ==
  /\ MailIdle
  /\ Stale(q)
  /\ Finalize(q)
  /\ UNCHANGED <<logs, watching, queue, run, receiving, faults>>

ReadVerdict(q) ==
  /\ phase = "tailing"
  /\ captured.rspamd = <<>>
  /\ q \in scoredLog
  /\ FeedVerdict(q)
  /\ captured' = [captured EXCEPT !.rspamd = CapturedByVerdict(q)]
  /\ UNCHANGED <<logs, watching, queue, run, receiving, faults>>

PruneVerdicts ==
  /\ phase = "tailing"
  /\ captured.rspamd = <<>>
  /\ Prune
  /\ UNCHANGED <<logs, watching, captured, queue, run, receiving, faults>>

Enqueue(w) ==
  /\ captured[w] # <<>>
  /\ queue' = queue \o captured[w]
  /\ captured' = [captured EXCEPT ![w] = <<>>]
  /\ UNCHANGED <<memory, input, logs, watching, run, receiving, faults>>

-----------------------------------------------------------------------------
(* Forwarder.Run.                                                          *)

Capture ==
  /\ pc = "waiting" /\ phase = "tailing"
  /\ cp' = [mail |-> offset, rspamd |-> told]
  /\ pc' = "draining"
  /\ UNCHANGED <<node, queue, batch, saved, receiving, faults>>

\* A heartbeat sends a batch with no records: nothing here changes by it.
Drain ==
  /\ pc = "draining"
  /\ batch' = queue
  /\ queue' = <<>>
  /\ pc' = IF queue = <<>> THEN "waiting" ELSE "sending"
  /\ UNCHANGED <<node, cp, saved, receiving, faults>>

BadRequeueNone(b) == queue       \* the batch is forgotten
Requeue(b) == b \o queue

SaveCheckpoint ==
  /\ pc = "acked"
  /\ saved' = cp
  /\ pc' = "waiting"
  /\ UNCHANGED <<node, queue, batch, cp, receiving, faults>>

-----------------------------------------------------------------------------
(* handleIngest, for the request Run waits for and for one it gave up.     *)

Take(rows) == receiver' = IngestSnapshots(receiver, Node, rows)

\* A failed upsert is logged; the answer is the same.
Persist(rows) ==
  \/ /\ table' = FoldLeft(Upsert, table, FromOrigin(Node, rows))
     /\ UNCHANGED faults
  \/ Fault("upsert") /\ UNCHANGED table

TakeBatch ==
  /\ pc = "sending"
  /\ Take(batch)
  /\ pc' = "taken"
  /\ UNCHANGED <<node, queue, batch, cp, saved, table, late, faults>>

\* The answer reaches Run.
Answer ==
  /\ pc = "taken"
  /\ Persist(batch)
  /\ batch' = <<>>
  /\ pc' = "acked"
  /\ UNCHANGED <<node, queue, cp, saved, receiver, late>>

\* Nobody waits for the handler of Run's request any more: the request broke
\* off before it came to one, or the answer is lost, or the handler goes on.
Abandon ==
  \/ pc \in {"sending", "broken"} /\ UNCHANGED <<table, late, faults>>
  \/ pc = "taken" /\ Persist(batch) /\ UNCHANGED late
  \/ /\ pc \in {"sending", "taken"}
     /\ Fault("late")
     /\ late' = late \cup {[stage |-> pc, rows |-> batch]}
     /\ UNCHANGED table

\* No answer or an error: Run puts the rows back, ahead of newer ones.
SendFails ==
  /\ Abandon
  /\ queue' = Requeue(batch)
  /\ batch' = <<>>
  /\ pc' = "waiting"
  /\ UNCHANGED <<node, cp, saved, receiver>>

LateTake(h) ==
  /\ h.stage = "sending"
  /\ Take(h.rows)
  /\ late' = (late \ {h}) \cup {[h EXCEPT !.stage = "taken"]}
  /\ UNCHANGED <<node, queue, run, table, faults>>

LatePersist(h) ==
  /\ h.stage = "taken"
  /\ Persist(h.rows)
  /\ late' = late \ {h}
  /\ UNCHANGED <<node, queue, run, receiver>>

\* The receiver ends, its handlers with it, and loads the table.
ReceiverRestart ==
  /\ Fault("restart")
  /\ receiver' \in LoadedFrom(table)
  /\ late' = {}
  /\ pc' = IF pc = "taken" THEN "broken" ELSE pc
  /\ UNCHANGED <<node, queue, batch, cp, saved, table>>

-----------------------------------------------------------------------------
\* The forwarder ends at any point and comes up again.  A saved offset makes
\* it skip what is below; without one it parses the log from its start.  A
\* request under way is dropped, or its handler goes on.
Crash ==
  /\ Fault("crash")
  /\ \/ UNCHANGED late
     \/ /\ pc \in {"sending", "taken"}
        /\ late' = late \cup {[stage |-> pc, rows |-> batch]}
  /\ records' = <<>>
  /\ byQueueID' = [k \in Key |-> 0]
  /\ byDelivery' = [k \in Key |-> 0]
  /\ rspamdPending' = {}
  /\ LET from == IF saved.mail > 0 THEN saved ELSE Start
     IN  /\ phase' = IF saved.mail > 0 THEN "tailing" ELSE "parsing"
         /\ offset' = from.mail
         /\ fed' = [q \in QIDs |-> LinesOf(q, from.mail)]
         /\ told' = from.rspamd
  /\ reading' = FALSE
  /\ captured' = Nothing
  /\ queue' = <<>>
  /\ batch' = <<>>
  /\ pc' = "waiting"
  /\ UNCHANGED <<logs, cp, saved, cutoff, receiver, table>>

FInit ==
  /\ Init
  /\ written \in 0 .. Len(Log)
  /\ scoredLog = {}
  /\ phase = "parsing"
  /\ offset = 0
  /\ reading = FALSE
  /\ captured = Nothing
  /\ queue = <<>>
  /\ batch = <<>>
  /\ cp = Start
  /\ pc = "waiting"
  /\ saved = Start
  /\ receiver = EmptyStore
  /\ table = EmptyTable
  /\ late = {}
  /\ faults = 0

FNext ==
  \/ Write
  \/ \E q \in QIDs : \/ WriteVerdict(q) \/ ParseGroup(q) \/ ParseVerdict(q)
                     \/ FlushStale(q) \/ ReadVerdict(q)
  \/ StartTailing \/ ReadLine \/ ProcessLine \/ PruneVerdicts
  \/ \E w \in {"mail", "rspamd"} : Enqueue(w)
  \/ Capture \/ Drain \/ TakeBatch \/ Answer \/ SendFails \/ SaveCheckpoint
  \/ \E h \in late : LateTake(h) \/ LatePersist(h)
  \/ Crash \/ ReceiverRestart

FSpec == FInit /\ [][FNext]_fvars

MailGoroutine ==
  \/ \E q \in QIDs : ParseGroup(q) \/ ParseVerdict(q) \/ FlushStale(q)
  \/ StartTailing \/ ReadLine \/ ProcessLine \/ Enqueue("mail")
RunGoroutine == Capture \/ Drain \/ SaveCheckpoint \/ SendFails

\* Each goroutine keeps running (the tickers keep ticking, a message that is
\* left open grows stale), a request comes to an end, and a receiver that is
\* tried again and again answers in time.
Fairness ==
  /\ WF_fvars(MailGoroutine)
  /\ WF_fvars(RunGoroutine)
  /\ []<>(pc = "sending") => []<>(pc = "acked")

LiveSpec == FSpec /\ Fairness
-----------------------------------------------------------------------------
(* Properties.                                                             *)

Listed(s) == {r \in Range(s.recs) : ~r.subsumed}
LinesIn(rows)  == UNION {r.lines : r \in {x \in rows : ~x.subsumed}}
InTable        == {table[k] : k \in Key} \ {NoRow}

\* The way from log to receiver, as PlvDelivery sees it.
Delivery == INSTANCE PlvDelivery WITH
  Lines  <- {[q |-> Log[i], n |-> LinesOf(Log[i], i)] : i \in DOMAIN Log},
  logged <- {[q |-> Log[i], n |-> LinesOf(Log[i], i)] : i \in 1 .. written},
  shown  <- LinesIn(Range(receiver.recs)),
  kept   <- LinesIn(InTable)

\* What is logged is shown in the end and stays shown, through lost
\* acknowledgements, refused batches, messages that never finish and restarts
\* of the receiver, which bring back exactly what its database kept.
Delivers == Delivery!Spec

\* A line that went into the store is with the receiver, where a restart finds
\* it again, or on its way: the hand-overs from store to queue to batch to
\* request to database lose nothing.
Conserved ==
  \A q \in QIDs : \A n \in 1 .. fed[q] :
    [q |-> q, n |-> n] \in (LinesIn(Range(receiver.recs)) \cap LinesIn(InTable)) \cup
      UNION {r.lines : r \in UNION {Range(x) : x \in {queue, batch, captured.mail, captured.rspamd}}}

\* "Replace with the latest snapshot": a row at the receiver never goes back
\* to one that shows less of the message.
RowsOnlyGrow ==
  [][UNCHANGED faults =>
       \A r \in Listed(receiver) : \E s \in Listed(receiver') :
         RecKey(s) = RecKey(r) /\ r.lines \subseteq s.lines]_fvars

\* "The receiver dedupes by (origin, queue-id)": every row it lists is the one
\* its own queue id leads to, whatever is sent again after failures and
\* crashes of the forwarder, handled late, or loaded from a table that missed
\* some of it.
ReceiverDedupes ==
  \A i \in DOMAIN receiver.recs :
    receiver.byQ[RecKey(receiver.recs[i])] = i

\* The receiver mixes no messages up, in the rows or behind an onward id:
\* an id leads to a row of that message or of the one it was re-injected for.
ReceiverKeepsApart ==
  /\ \A r \in Range(receiver.recs) : \A l \in r.lines : l.q \in {r.qid, Leg[r.qid]}
  /\ \A q \in QIDs : LET i == receiver.byQ[<<Node, q>>]
                     IN  i # 0 => q \in {receiver.recs[i].qid, Leg[receiver.recs[i].qid]}

\* "A conservative lower bound: every record with offset <= cp is in this
\* batch" - or was in an earlier one: a message that is finished below the
\* captured offset is not lost with the process.
CheckpointIsLowerBound ==
  pc = "sending" =>
    \A q \in QIDs : LinesOf(q, cp.mail) = Len(Stamp[q]) =>
      \A n \in DOMAIN Stamp[q] :
        [q |-> q, n |-> n] \in LinesIn(Range(batch)) \cup LinesIn(Range(receiver.recs))

\* "Records merged into another item are never returned as their own row",
\* at the receiver.
NoLegListed ==
  \A r, s \in Listed(receiver) : s.dqid # NoQid => RecKey(r) # OnwardKey(s)
=============================================================================
