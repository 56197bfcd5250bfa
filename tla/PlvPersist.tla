----------------------------- MODULE PlvPersist -----------------------------
(***************************************************************************)
(* A standalone instance with a database.  The store captures the rows it  *)
(* changed under its lock and each goroutine upserts its own after it has  *)
(* released the lock, so two upserts of one row can commit in either       *)
(* order; a failed upsert is logged and forgotten.  A restart loads the    *)
(* table and parses the logs again from their start.                       *)
(*                                                                         *)
(***************************************************************************)
EXTENDS PlvMirror

CONSTANTS
  MaxFailures,  \* bound on failed upserts
  MaxRestarts   \* bound on crashes

ASSUME BoundAssumption == MaxFailures \in Nat /\ MaxRestarts \in Nat

VARIABLES
  db,         \* the mail_records table
  inFlight,   \* inFlight[w]: the rows worker w captured and has not upserted
  deleting,   \* the cutoff of a purge that has yet to reach the table, or 0
  failures,
  restarts

Worker == {"mail", "rspamd"}
memory == <<records, index, rspamdPending, input, cutoff>>
pvars  == <<memory, db, inFlight, deleting, failures, restarts>>

InTable(k) == db[k] # NoRow

\* Each worker is one goroutine: it adds, then flushes what it captured.
AddMail(q) ==
  /\ inFlight.mail = <<>>
  /\ FeedMail(q)
  /\ inFlight' = [inFlight EXCEPT !.mail = CapturedByMail(q)]
  /\ UNCHANGED <<db, deleting, failures, restarts>>

AddVerdict(q) ==
  /\ inFlight.rspamd = <<>>
  /\ FeedVerdict(q)
  /\ inFlight' = [inFlight EXCEPT !.rspamd = CapturedByVerdict(q)]
  /\ UNCHANGED <<db, deleting, failures, restarts>>

PruneVerdicts ==
  /\ inFlight.rspamd = <<>>
  /\ Prune
  /\ UNCHANGED <<db, inFlight, deleting, failures, restarts>>

\* One transaction for the rows of one flush.
UpsertRecords(w) ==
  /\ inFlight[w] # <<>>
  /\ db' = FoldLeft(Upsert, db, inFlight[w])
  /\ inFlight' = [inFlight EXCEPT ![w] = <<>>]
  /\ UNCHANGED <<memory, deleting, failures, restarts>>

UpsertFails(w) ==
  /\ inFlight[w] # <<>>
  /\ failures < MaxFailures
  /\ inFlight' = [inFlight EXCEPT ![w] = <<>>]
  /\ failures' = failures + 1
  /\ UNCHANGED <<memory, db, deleting, restarts>>

\* The retention goroutine purges the memory, then the table.
PurgeMemory ==
  /\ deleting = 0
  /\ Purge
  /\ deleting' = cutoff'
  /\ UNCHANGED <<db, inFlight, failures, restarts>>

BadExpiredRows(c) == {k \in Key : InTable(k) /\ db[k].ts < c}  \* NULLs go too

\* A row without a timestamp is NULL there and never older than anything.
ExpiredRows(c) == {k \in Key : InTable(k) /\ Expired(db[k], c)}

DeleteOlderThan ==
  /\ deleting # 0
  /\ db' = [k \in Key |-> IF k \in ExpiredRows(deleting) THEN NoRow ELSE db[k]]
  /\ deleting' = 0
  /\ UNCHANGED <<memory, inFlight, failures, restarts>>

\* The process ends at any point and comes up again.  It has the table and
\* the logs; what the memory and the flushes under way held is gone.
Restart ==
  /\ restarts < MaxRestarts
  /\ restarts' = restarts + 1
  /\ \E s \in LoadedFrom(db) :
       /\ records' = s.recs
       /\ byQueueID' = s.byQ
       /\ byDelivery' = s.byD
  /\ rspamdPending' = {}
  /\ fed' = [q \in QIDs |-> 0]
  /\ told' = {}
  /\ inFlight' = [w \in Worker |-> <<>>]
  /\ deleting' = 0
  /\ UNCHANGED <<db, cutoff, failures>>

PInit ==
  /\ Init
  /\ db = EmptyTable
  /\ inFlight = [w \in Worker |-> <<>>]
  /\ deleting = 0
  /\ failures = 0
  /\ restarts = 0

PNext ==
  \/ \E q \in QIDs : AddMail(q) \/ AddVerdict(q)
  \/ PruneVerdicts
  \/ \E w \in Worker : UpsertRecords(w) \/ UpsertFails(w)
  \/ PurgeMemory
  \/ DeleteOlderThan
  \/ Restart

PSpec == PInit /\ [][PNext]_pvars
-----------------------------------------------------------------------------
(* Properties.                                                             *)

Idle == deleting = 0 /\ \A w \in Worker : inFlight[w] = <<>>

\* Not older than the purges so far: the next one has no reason to remove it.
Fresh(r) == r.ts \notin 1 .. cutoff - 1

\* "A durable mirror of the store": with no flush or delete under way and
\* none ever failed, the table holds the listed rows as they are listed, and
\* nothing else a restart would list, but for rows that the next purge takes.
Mirror ==
  Idle /\ failures = 0 =>
    /\ \A i \in Visible : Fresh(records[i]) =>
         db[RecKey(records[i])] = records[i]
    /\ \A k \in Key : InTable(k) /\ ~db[k].subsumed /\ Fresh(db[k]) =>
         \E i \in Visible : RecKey(records[i]) = k

\* So a restart of an idle instance brings back the rows it listed, each
\* with the outcome and the lines it had, before any log is read again.
Listed(recs) == {r \in Range(recs) : ~r.subsumed /\ Fresh(r)}
RestartKeepsRows ==
  [][restarts' # restarts /\ Idle /\ failures = 0 =>
       Listed(records') = Listed(records)]_pvars
=============================================================================
