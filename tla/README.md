# A verification project for PLV

PLV (the Postfix Log Viewer, Go, one `main` package) parses Postfix's
`mail.log` and rspamd's `rspamd.log`, correlates their lines into one item per
message, shows the items in a web interface and, optionally, mirrors them to
PostgreSQL or ships them from many *forwarders* to one *receiver*.

This directory holds TLA+ modules translated from that code, the TLC runs that
model-check them on small instances, and theorems about the store, its table, the
receiver, the outcome, the log, the queries, enrolment and configurations with
proofs checked by TLAPS. `PROJECT.json` maps every definition to the lines
it stands for and lists the runs, the hazards, the theorems and, for each
property that is checked, a mutation of the code that it detects.

## 1. The system

| component | state | operations | talks to |
|---|---|---|---|
| Store (`store.go`) | `records`, `byQueueID`, `byDelivery`, `rspamdPending` under `Store.mu` | `AddRecords`, `ApplyRspamdVerdict`, `PruneRspamdPending`, `PurgeOlderThan`, `LoadFromDB`, `IngestSnapshots`; queries `Search`, `GetDetail`, `Stats`, `Suggest` | called by every goroutine; hands snapshots to the database or to the forwarder's queue after it released the lock |
| Line parsing (`parser.go`) | none (groups of lines in, records out) | `parseLines`, `parseFilterLine`, `extractStatus`, `deriveDisposition`, `parseAllLogs` | store |
| Watcher (`watcher.go`) | `offset`, `pending` groups, filter verdicts, connect/TLS lines | `tick`, `processLine`, `finalize`, `flushStale` | reads `mail.log`, calls `AddRecords` |
| rspamd watcher (`rspamd.go`) | `offset` | `parseAllRspamd`, `tick`, hourly prune | reads `rspamd.log`, calls `ApplyRspamdVerdict` |
| Persistence (`db.go`) | the `mail_records` table | `Migrate`, `LoadAll`, `UpsertRecords`, `DeleteOlderThan` | store, retention ticker in `main.go` |
| Forwarder (`forward.go`) | queue, the batch being sent, `conf`, `forward-state.json` | `Enqueue`, `Run`, `send`, `saveCheckpoint`, `enrollNode` | HTTPS to the receiver |
| Ingest (`ingest.go`) | the receiver's store, table and `pcfgByOrigin` | `handleIngest`, `handleEnroll` | store, PKI |
| PKI (`pki.go`) | a data directory per host: CA, its key, ticket salt, certificate, key | `pkiInit`, `pkiServer`, tickets, `signCSR`, `pkiReady` | `handleEnroll` reads the files on each call, both roles when they start |
| Config watcher (`main.go`, `postfixconf.go`) | the last configuration applied | `loadPostfixConf`, `watchPostfixConf` | `Forwarder.conf`, or the store of a receiver or standalone instance |
| Direction (`direction.go`, `postfixconf.go`) | `pcfg`, `pcfgByOrigin` | `SetPostfixConf`, `SetPostfixConfForOrigin`, `directionResolver`, `classifyDirection` | store's queries; set by the config watcher and by ingest |
| Web server (`handlers.go`) | sessions | login, logout, expiry, read handlers | store |
| Start-up (`main.go`, `wizard.go`, `buildmeta.go`) | - | order of loading, parsing, tailing; password set-up | all |

How a line travels. On a node, `bringUpParsing` either parses all log files
(`parseAllLogs`, `parseAllRspamd`) or, on a forwarder with a usable checkpoint,
resumes at the saved offsets; then the mail watcher and the rspamd watcher tail
their files as goroutines of their own. A message becomes one or several calls
of `AddRecords`: each rotated file has its own part of it, and the watcher hands
on what it has of a message when `removed` is logged or after five minutes. A
message that went through a content filter is logged under two queue ids, the
inbound one and the *leg* that the filter re-injected; the store folds the leg
into the inbound row, whichever comes first. Snapshots of the changed rows then
go to the table or to the forwarder's queue, which `Run` drains into batches.

What is hard here:

* the parts of a message, its leg and the rspamd verdict come from two
  goroutines and several files, in any order;
* snapshots are captured under the lock and written after it;
* retention compacts the rows under indexes that hold subscripts;
* a restart merges rows loaded from the table with the same lines parsed again,
  and a forwarder resumes with an offset but an empty store;
* a post may fail before or after the receiver took the batch, and its handler
  may go on after the forwarder gave it up and sent the batch again;
* a receiver restarts with what its table kept and with no configurations;
* set-up is commands on several hosts that write files one by one, beside
  processes that still run with the files of before;
* logrotate and syslogd change the log while it is parsed and tailed;
* status and disposition are recomputed from partial information in merges
  whose order nobody controls;
* table, cards and detail are three loops over rows and configurations that
  change, and the page shows their answers side by side.

What makes each component correct:

* **Store**: a line is listed exactly once, in the row of its message; every id
  leads to the row that shows it; the index survives a purge; lines vanish only
  by age; a held verdict is applied when its mail arrives.
* **Outcome**: status and badge are those of the whole message, however it was
  cut up; a scanner's verdict stands.
* **Persistence**: an idle table holds what is listed; a restart brings it back.
* **Forwarding**: a line that is in the log comes to be shown at the receiver and
  stays; what is sent twice is listed once; messages are not mixed up.
* **Tailing**: lines are handed on in order, once, and all of them.
* **Direction**: table and detail agree on it; a server's configuration touches
  only the messages that server has seen.
* **Search**: the pages of a query partition its answer; a message's rows stand
  together; cards count what the table lists; related links lead both ways.
* **Enrolment**: a node on which a command ran to its end and that looks enrolled
  is: its pair matches and was signed by the CA beside it.
* **Configuration**: no row is judged without the configuration of its server,
  and the receiver ends with the one each forwarder has.

## 2. The modules

    PlvStore --- PlvMirror --+-- PlvPersist    (standalone with a database)
       |                     +-- PlvForward    (forwarder and receiver)
       |                             : implements PlvDelivery
       +-- PlvStoreProofs --- PlvMirrorProofs --+-- PlvPersistProofs
                                                +-- PlvForwardProofs
    PlvDirection --- PlvSearch --- PlvSearchProofs   (queries)
    PlvEnrol --- PlvConf --- PlvConfProofs     (set-up, configurations)
    PlvTail --- PlvTailProofs                  (the log)
    PlvOutcome --- PlvOutcomeProofs            (the outcome)

Each `MCPlv...` module gives the constants of a module their values for TLC;
`PlvTail` and `PlvConf` have plain constants only and are run as they are.

**PlvStore** is `Store` as far as the place of each line is concerned. Rows keep
their identity, the onward queue id, the timestamp and the *set* of lines.
`AddRecords` is the disjunction of its three cases, `FoldLeg`, `MergeSame` and
`AppendNew`, whose guards are the conditions of lines 264 and 274 in that order.
`SettleRow` is the end that cases (2) and (3) share: `registerDelivery`, then
`applyPendingRspamd`. Everything under one hold of `Store.mu` is one action.
`FeedMail` hands over the next lines of a queue id, cut at any point, with the
filter's verdict known or forgotten (the watcher drops verdicts after five
minutes, a rotated file has its own). `Prune` forgets any set of held verdicts:
which ones are fifteen minutes old is left open. Rows count from 1 and 0 is a
missing key.

**PlvMirror** is what happens to finished rows: `LoadFromDB`, `IngestSnapshots`,
`restoreDeliveryLink`, the table's upsert and the order in which it is loaded, and
the rows that `AddRecords` captures for `flush`. Its operators map a store `[recs, byQ, byD]` to a store, since both a restart and a
receiver apply them to many rows under one hold of the lock.

**PlvPersist** composes the store with the table of a standalone instance. Each
worker goroutine captures rows, then upserts them in a later step or fails to;
`PurgeMemory` and `DeleteOlderThan` are two steps; `Restart` loses the memory
and what is in flight, loads the table in `LoadAll`'s order (ties in any order),
and starts to parse the logs again.

**PlvForward** composes the log of one node, the watchers, the forwarder's store,
its queue and `Run` loop, and the store and table of the receiver. `ReadLine` and
`ProcessLine` are separate because `tick` stores the offset before it
processes the line. The workers capture, then `Enqueue`. The loop is `Capture`
(offsets first), `Drain`, the request, and `SaveCheckpoint` after an answer.
`handleIngest` is two steps, `TakeBatch` under the store's lock and the upsert
after it, which comes with the answer (`Answer`) or without one (`SendFails`, which
puts the rows back; the request may have broken off before the handler began).
What may go wrong around these steps is `Faults`: `Crash` of the forwarder keeps
the logs and `forward-state.json`, `ReceiverRestart` keeps the table, a handler
goes on for a request that was given up (`LateTake`, `LatePersist`), an upsert of
the receiver fails and is acknowledged.

**PlvDelivery** is what the distributed mode promises, in three variables: lines that
are logged, lines the receiver shows, and those its database kept, which is
what a restart falls back to. `PlvForward` implements it, by
`shown <- the lines of the rows the receiver lists` and
`kept <- those of the rows in its table`. Its safety (`Safety`: which steps there
are) is proved, `AllShown` (every line is shown for good in the end) is checked.

**PlvOutcome** follows the outcome of one message: `parseLines`, `mergeRecord`,
`mergeDeliveryLeg`, `enrichRecordWithRspamd` on rows with a status, a
disposition and the *sequence* of lines, for parts cut anywhere, a leg that
comes before or after, and the verdict at any time.

**PlvTail** follows the lines of `mail.log` into the parser: the boot parse file
by file, the stat after it, `tick` as its four steps, and around it a log that
grows, is renamed, and is written to under its old name until syslogd reopens
it. `gentle` says what the surroundings spare PLV; it is chosen at the start.

**PlvDirection** has the rows as far as a direction needs them - client, relay,
domains, whether a line says `sasl_username=` or `orig_client=` - and the
configurations of this instance and of each forwarder. The code decides a
direction twice, and so does the module: `DirectionResolver` with one set of
Message-IDs per signal, as `Search` and `Stats` use it, and `DetailDirection`,
the pass inside `GetDetail`.

**PlvSearch** adds the queries, as operators, since they change nothing: `Search`
(match, stable sort by column, clustering of groups, page, edge flags, the flag
for messages on several servers), `Stats` (the direction cards and the total)
and `GetDetail` (direction and related rows). Around them rows arrive - by
`AddRecords` from the local log in any order, as snapshots from forwarders in
theirs - and configurations change. `handleIngest` sets a batch's configuration
and takes its rows under two holds of the lock, so these are two actions. The
merges here keep what queries tell apart; that they are right is the business
of `PlvStore` and `PlvMirror`.

**PlvEnrol** has the data directories of a receiver and its forwarders. `plv pki
init`, `pki server` and `enroll` are lists of files, each truncated and then
filled in a step of its own (`Truncate`, `Fill`), and may die in between;
`pki ticket` hands out what is on disk at that moment. `PlvEnroll` is the node's
command with `handleEnroll` in it: the connection is accepted when the node's copy
of the CA signed what the receiver *loaded*, ticket and CA are read from its
*disk*. `Start` is the beginning of `main`: without the three files a host falls
back to standalone, with three that do not load it ends at once. A CA, with its
key and salt, is the number of the `pki init` that made it; a certificate and its
key are the number under which they were issued. Directories are lost,
binaries upgraded, certificates issued again without need.

**PlvConf** adds what these processes carry: `main.cf`, the watcher's last
signature, `Forwarder.conf`, the request under way, handlers that outlived theirs,
`pcfgByOrigin`. `Post` sends rows or is the heartbeat; `HandleConf` and `HandleRows`
are the two holds of the lock in `handleIngest`. A configuration is a number,
equal to another where `signature()` is; it may be unreadable.

## 3. The runs

| run | question | bounds, and why they are enough |
|---|---|---|
| `store` | Does a purge leave rows and indexes intact? (`TypeOK`, `IndexInRange`, `PurgeReindexes`, `LinesVanishOnlyByAge`) | a scanned message of two lines with a leg of two, a plain message whose first timestamp does not parse, an older plain one; two verdicts; three cutoffs. Rows are dropped before, between and after the parts of a folded pair. |
| `persist_restart` | Does each line end up once and in the right place? (`NoForeignLines`, `ShownOnce`, `EveryIdResolves`, `OneItemPerMessage`, `HeldOnlyUntilSeen`) | no retention; the same kind of messages, each part cut anywhere, two restarts at any point between any two upserts. Without a restart these are exactly the behaviours of `PlvStore`. |
| `persist_mirror` | Does the table mirror the store? (`Mirror`, `RestartKeepsRows`) | retention on, one writer, one failed upsert, one restart |
| `forward_delivery` | Does the pipeline deliver? (`Conserved`, `RowsOnlyGrow`, `Delivers`) | four log lines of three queue ids, interleaved, the leg finished before its message; boot at any length of the log; posts fail any number of times, before or after the receiver took them; the receiver restarts twice at any step |
| `forward_crash` | What holds whatever goes wrong? (`ReceiverDedupes`, `ReceiverKeepsApart`) | one crash, restart, late handler or failed upsert at any step, three lines, one verdict from the second goroutine, any number of failed posts |
| `conf` | Does set-up end well, and is mail judged by its server's configuration? (`EnrolledIsWhole`, `ConfBeforeRows`, `ReceiverHasConf`) | one forwarder, since forwarders share nothing but the receiver's files; two CAs, so that files of an old one meet those of the new; two releases; one command or process that dies, or a lost directory, at any step; two configurations, one unreadable; one late handler |
| `outcome` | Is the outcome that of the message? (`TypeOK`, `StatusIsLatest`, `LegDecides`, `BadgeIsTruth`, `VerdictStands`) | nine lines of message, filter and leg, each deferred once; filter accepts or is absent; rspamd absent, tags or rejects |
| `tail` | Are lines read in order, once, and all? (`InOrderOnce`, `NothingLeftBehind`, `GentleLinesRead`) | five lines, three files, one crash of a forwarder; once with no mercy, once gentle |
| `search` | Do table, pages, cards and detail agree? (`TypeOK`, `PagesTile`, `GroupsStandTogether`, `EdgesAgree`, `CardsMatchTable`, `DetailAgrees`, `RelatedIsMutual`, `ForeignConfHarmless`) | ten rows of three servers, up to four listed at once: a message on two servers, one whose leg comes before or after, a transit, two rejects of one attempt, one without a time; two configurations that disagree on a public host and on the domains; four queries that differ in column, direction, filter and grouping; every page length. With two configurations and three servers, a leg is judged differently by its own server and by another. |

The state spaces are exhausted. Deadlock is not checked: the input is a finite
log, and once it is read and sent the system rests.

Runs that show a disagreement between the code and what it says of itself:

| run | what TLC finds |
|---|---|
| `store_purge_fold` | After a purge `byDelivery` still has the old subscripts: the next leg is folded into an unrelated row. |
| `forward_leg` | A leg that was forwarded as a row before its primary stays listed at the receiver, which skips the later snapshot that marks it subsumed. |
| `tail_resume` | A forwarder resumes at its offset in a log that was rotated and has grown again. |

More of them can be seen by changing a value or a property in a configuration:

* `HeldOnlyUntilSeen` with `Scored = {"out1"}` in `MCPlvPersistRestart.cfg`: case
  (1) of `AddRecords` folds a leg without applying the verdict held for its id.
* `EveryIdResolves` in `MCPlvStore.cfg`: the index a purge rebuilds knows each
  kept row by its own id only; the outbound id of a merged item is forgotten.
* `Mirror` with `Scored = {"in1"}` and `Retention = FALSE` in
  `MCPlvPersistMirror.cfg`: the two workers may upsert snapshots of one row in the
  opposite order. `OneItemPerMessage` with `Scored = {"in1"}` in
  `MCPlvPersistRestart.cfg` is the same race seen after a restart: the verdict's
  upsert (`store.go:376`) has the leg folded in, and the instance stops before the mail
  watcher's marks the leg subsumed. With `MaxFailures = 1` a lost upsert of the
  mark has that effect.
* `Mirror` with `MaxRestarts = 2` in `MCPlvPersistMirror.cfg`: the wrong fold of
  `store_purge_fold`, through rows that came from the table.
* In `MCPlvForward.cfg`: `RowsOnlyGrow` and `Conserved` with `Faults = {"crash"}`: a
  resumed forwarder has an empty store, and the rest of a message replaces the
  fuller row at the receiver. `RowsOnlyGrow` with `Faults = {"late"}`: the handler of
  a request that timed out applies the older batch over the newer one.
  `Conserved` with `Faults = {"restart", "upsert"}`: a batch is acknowledged although
  its upsert failed, and the restart forgets it - for a receiver without a
  database that is every batch, as documented (`docs/dev-test-stack.md:311`).
  `Delivers` and `RowsOnlyGrow` with `Scored = {"q2"}`, `Conserved` with
  `Scored = {"in1"}`: of two goroutines the one with the older snapshot enqueues
  last, and it replaces the newer one at the receiver.
* `ReceiverHasConf` with `InitMayDie = TRUE` in `PlvConf.cfg`: `pki init` that was
  interrupted after `ca.pem` refuses to run again, and `pki server` says to run it.
* In `PlvEnrol`, an enrolment that died leaves the new pair beside the old CA: the
  node looks enrolled, starts as a forwarder and is refused until it enrols
  again. This is why `EnrolledIsWhole` excepts it.
* `CheckpointIsLowerBound` in `MCPlvForwardCrash.cfg`: the offset captured with a
  batch is not "a conservative lower bound" (`forward.go:116`), since `tick` stores
  it before the line is processed and rows are enqueued after the lock is
  released.
* `StatusIsLatest` and `LegDecides` with `Log <- MCEarlyLegLog` in `MCPlvOutcome.cfg`: the re-injected leg is
  delivered before Postfix logs that the filter took its message. The next part of
  the message reads the status off the lines of both in the order of their times
  (`store.go:531`) and `delivered` becomes `sent` again, although the merged item
  "gains the real destination relay and the final delivery status"
  (`docs/disposition.md:69`).
* `ScannerDecides` with `Filters = {"spam"}` and `Actions = {"none"}` in
  `MCPlvOutcome.cfg`: a quarantine verdict that comes with a later part of a message
  gives way to `status=sent`, although "a scanner verdict must never be overwritten
  by a status change" (`store.go:556`).
* `ScannerDecides` with `Actions = {"soft reject"}` and `Filters = {"none"}` in
  `MCPlvOutcome.cfg` with a message refused at the end of its data: `deferred`
  from rspamd is taken for a Postfix status.
* `EveryLineRead` with `Surroundings = {{"rotation", "restart"}}` or
  `{{"boot", "restart"}}` in `PlvTail.cfg`: lines logged between the boot parse and
  the stat, and the rest of a rotated file, are not read. `NothingLeftBehind` fails
  with any one of the three left out if `Gentle` is replaced by `TRUE`.

The passing runs leave these situations out on purpose - by the constants just
named, not by the actions - so that they say what holds besides.

### Fairness

Safety properties need none. `PlvForward!LiveSpec` has weak fairness of the mail
goroutine (its ticker keeps ticking; a group that is left open grows stale and
is flushed) and of the `Run` loop, and it has that a receiver which is tried
again and again answers in time at some point. The last is stated on states,
`[]<>(pc = "sending") => []<>(pc = "acked")`, `Answer` being the only way to `"acked"`.
Nothing is assumed of the log: lines may stop at any time.
`PlvTail!LiveSpec` has weak fairness of the watcher's goroutine and of syslogd's
reopening of its log (logrotate's postrotate script).

`PlvConf!LiveSpec` has two parts. `Running` is the program: the watcher and the
heartbeat tick, a request ends one way or the other (`http.Client` has a timeout of
thirty seconds), a handler ends, and one that is reached again and again answers.
`Setup` is what the operators do, since no program enrols itself: a service that
is down is started; a command that was begun ends; a CA and a server certificate
are made where they are missing; a node whose certificate the receiver's CA did
not sign is given a ticket and enrols; a process is restarted when its files
changed; hosts end on one release. `docs/dev-test-stack.md:135` and `:306-318` ask
for exactly these. No step of `Setup` is assumed to succeed where the code
refuses it.

## 4. What is proved

`PlvStoreProofs` proves, for every set of origins and queue ids, every log and every cut of it:

| theorem | statement |
|---|---|
| `TypeCorrect` | `Spec => []TypeOK`, with and without retention |
| `SubscriptsInRange` | `Spec => []IndexInRange`: the unchecked subscripts of `GetDetail` and of case (2) never panic, purges included |
| `RowsKeepToTheirMessage` | without retention, `Spec => []NoForeignLines` |
| `IdsResolve` | without retention, `Spec => []EveryIdResolves` |
| `LegsAreFolded` | without retention, `Spec => []OneItemPerMessage` |
| `EachLineShownOnce` | without retention, `Spec => []ShownOnce`: every line handed over is shown by exactly one listed row |
| `VerdictsAreNotLeftBehind` | without retention and with no leg in `Scored`, `Spec => []HeldOnlyUntilSeen` |
| `PurgeRebuildsTheIndex` | `Spec => PurgeReindexes`, with and without retention |
| `LinesVanishOnlyWithAge` | `Spec => LinesVanishOnlyByAge`, with and without retention |

They assume `LegAssumption` and `LogAssumption` of `PlvStore` (which TLC evaluates on
the instances) and, where the table says so, `~Retention`: with a purge the three
link properties are false, as `store_purge_fold` shows.

The argument. `IndexInRange` is inductive together with `TypeOK`: rows are added
before their subscript is stored, and a purge takes the new subscripts from the
positions of the rows it kept. The three link properties are not inductive by
themselves: that a leg is folded into the right row depends on what
`byDelivery` and `byQueueID` hold for *every* id, listed or not. The strengthening
`Links` is a conjunction of named parts: each row's onward id is
`NoQid` or the true leg of its queue id; its lines are of its own id or of that
leg; a `byDelivery` entry points to the row that names that id; a `byQueueID` entry
points to the row with that id or to the row that names it as its leg; and a
row that is listed is the one its own id leads to. The step lemma has one step
per operation - fold, merge, append, verdict - with one step per conjunct below
it; `RegisterDelivery`, the one helper that writes all three structures, has
lemmas of its own for its two branches. `LegAssumption` (legs are not scanned
again, two messages do not share an onward id) is needed exactly where a row
that is folded might itself expect a leg.

`EachLineShownOnce` has two halves. That a line is shown at most once follows from
the links: two listed rows with one line would both be reached by its queue id.
That it is shown at all needs one more inductive part, `AllShown` - every line
handed over is in a listed row - and, for each operation, that the rows it drops from the list passed their
lines on: a fold moves the leg's lines to the primary before the leg is hidden,
and a merge takes the union.

`VerdictsAreNotLeftBehind` adds the part `Held` - the queue id of a listed row has no
verdict waiting - to the links. `SettleRow` empties the place of the row it ends with, a fold and a
merge change no queue id, and a verdict is held only where its id leads to no
listed row, which by the links means that no listed row has that id. A row's lines
are of its own id or of its leg, so the property follows if legs are never
scored; section 3 says what happens to a verdict on a leg, for which case (1) of
`AddRecords` never asks.

The last two hold through purges, after which the links are false, so they need
another invariant. Of a listed row `AllOwned` says two things that survive the
stale `byDelivery`: it is the last row of its key, and `byQueueID` leads to it
unless `byDelivery` has a row for that key, which then takes every later part as a
leg. The second is what keeps the first: `AppendNew` adds a row for a key only
when neither index has one, so no listed row of the key is left. A purge keeps
the order of the rows, hence the last of a key stays the last, and the index it
rebuilds takes the last. `Grows` says what any other operation does to the rows: they
stay, under their keys, none is listed again, and what a listed one shows is
shown by a listed one. That a purge drops no other row than the expired ones is a
counting argument: positions and kept rows are equally many, and the map between
them is strictly increasing.

`PlvPersistProofs` carries these promises through restarts, and proves of the table:

| theorem | statement |
|---|---|
| `RestartsKeepThePromises` | `~Retention`, `OneScanner`: while no upsert failed, all five promises, `PSpec => [](failures = 0 => ...)` |
| `TableMirrorsStore` | `~Retention`, `Scored = {}`: `PSpec => []Mirror` |
| `RestartBringsRowsBack` | `~Retention`, `Scored = {}`: `PSpec => RestartKeepsRows` |

`Mirror` speaks of an idle instance only, so the invariant needs something to say
while an upsert is under way. `Effect` is the table as the mail watcher's upsert
will leave it; it mirrors the store at *every* moment (`Mirrors`), since what
`AddRecords` captures under the lock is exactly what it changed
(`FeedMailRow`, `CapturedByMailRows`). Of the table as it *is*, which a restart may
read at any moment, the invariant says less (`Loadable`): a start builds a linked
store from it, in whatever order `LoadAll` returns the rows (`LoadedLinked`). From
there the promises are those of `PlvStore`, for a start empties `fed` and reads the
logs again. Each hypothesis is needed: with `Retention` the wrong fold of
`store_purge_fold` reaches the table, and section 3 says where a verdict on a
message the filter re-injects (against `OneScanner`), a failed upsert and a second
writer break `OneItemPerMessage` and `Mirror`.

`PlvForwardProofs` proves of the receiver, with *all* faults at any step and number -
crashes of the forwarder, restarts of the receiver, requests that break off,
handlers that go on for requests given up, upserts that fail:

| theorem | statement |
|---|---|
| `ReceiverIsDeduplicated` | `FSpec => []ReceiverDedupes` |
| `ReceiverMixesNothingUp` | `FSpec => []ReceiverKeepsApart` |

and of the whole way, with any number of restarts of the receiver, lost answers,
broken requests and batches put back and sent again, at any step, if
`Scored = {}` and `Faults \subseteq {"restart"}`:

| theorem | statement |
|---|---|
| `NothingLostOnTheWay` | `FSpec => []Conserved` |
| `SnapshotsOnlyGrow` | `FSpec => RowsOnlyGrow` |
| `WayImplementsDelivery` | `FSpec => Delivery!Safety`, the refinement of `PlvDelivery` |

For the first two the invariant follows rows along their way. The forwarder's store is linked
(`Links`, reused through `StoreStep`: every step of the pipeline is a step of
`PlvStore`, leaves it alone, or is the crash, which empties it); rows that were
captured, queued, posted, given up or written to the table are clean, that is,
show lines of their own message and its leg (`UnderWay`, `CleanTable`); and a
store made of such rows by `IngestSnapshots` or `LoadFromDB`, in any order and with
any omitted, is `Finished`: each id leads to its own row. `PlvMirrorProofs` has the
lemmas both use. A batch, a table and a load are folds over rows; tlapm cannot
instantiate the library's induction theorems, so `NatSetInduction` states
induction for a *set* of numbers, from the well-foundedness of `<` on it, and
`FoldTable` gives from it what `FoldLeft` computes, as a table of its partial
results (`IngestRun`, `LoadRun`, `UpsertRun`).

For the others that is too little: it says what a row on its way may show, not
what has to arrive. `WayInv` adds a *view* for each place on the way, the rows the
receiver's table would hold if all that is before that place had arrived: the
table itself, the table after the batch, after the queue as well, after the
captured rows as well (`Newest`, the last snapshot of each queue id).

* The last view is the node's store, row for row (`ViewOf`).
* Every view is `Whole`: no line is in folded rows alone, and no listed row is the
  leg of another. A view is in general not a store that ever was, since the rows
  of one batch were captured at different moments.
* Each view `Leads` to the next: no line is taken back, and someone who looks at
  the listed rows alone and skips the folded ones, as the receiver's memory does,
  comes to the same lines of each queue id.
* The receiver `Receives` the view it has accepted: it lists what the view lists;
  a row it goes on listing after the leg was folded (`forward_leg`) has no line
  that the view does not have.

`OnTheWay` is all of it but the last. Each hand-over has a lemma that says what
becomes of the views: `WayCaptures` (the only one that makes the way longer),
`WayEnqueues`, `WayDrains`, `WayKeeps` (the upsert; the batch may be put back all
the same, and arrives again), `WayRequeues`, and `TakeReceives` and
`RestartReceives` for the receiver. `NewestAgain` and `StageAgain` are why sending a batch twice is harmless,
`RestartReceives` why a start of the receiver shows what its table has. `Conserved` is then
read off the row of `byQueueID` in the last view: its lines go back, view by view,
to a batch that lists them or to the table. For the refinement `FromLog` adds that
what is in the store was logged; `WayShows` says which view stands for `shown` and
which for `kept`, and a step is one of `LogLines`, `Show` (`TakeBatch`), `Keep` (the
upsert) and `Restart`, or a stutter (`WayDelivers`).

The two hypotheses are the ones the run has, and section 3 has the
counterexamples without them: a crash of the forwarder, a late handler and a
failed upsert (`Faults`), and snapshots of two goroutines in the opposite order
(`Scored`) each lose a line or take one back.

`PlvOutcomeProofs` proves, for every log, every cut of it and every order of parts,
leg and verdict:

| theorem | statement |
|---|---|
| `OutcomeTypeCorrect` | `Spec => []TypeOK` |
| `VerdictsStand` | `OneVerdict`: `Spec => VerdictStands` |
| `StatusIsTheLatest` | `LogInOrder`: `Spec => []StatusIsLatest` |
| `LegHasTheLastWord` | `LogInOrder`: `Spec => []LegDecides` |
| `BadgeTellsTheTruth` | `LogInOrder`, `NoStop`: `Spec => []BadgeIsTruth` |

`InOrderSorts` says what sorting by time does, from a bijection between a finite set
of numbers and `1 .. Cardinality`. A row is `Current` when its status is that of the
latest status line it shows *and* its lines that tell a status are in rising
order - the second half is what makes the first inductive, since `extractStatus`
goes by position and not by time. Appending the new lines of a part keeps a row
current only if they come after all it has (`Before`); that is where `SInv` is
needed: which lines of the message and of its leg a row may show, by how far
each was read, and that once the two are linked the hand-over was read. The badge
then follows the status through `Reclassify` (`BInv`), except where rspamd rejected.

The hypotheses are about what is logged, not about the program. `LogInOrder`: filter
lines carry no Postfix status, a hand-over or a refusal as spam is the message's last
status, the leg's statuses come after the message's; `MCEarlyLegLog` of section 3 does
not keep to the last part, and `LegDecides` fails. `OneVerdict`: a log with a refusal as spam is
one of a message that met neither the filter nor a greylisting rspamd. `NoStop`: the
filter passes messages on. With a filter that stops messages, or greylisting, the
badge is the scanner's or not as the parts come, as section 3 shows for
`ScannerDecides`.

`PlvSearchProofs` proves, for all rows, configurations, queries and orders of arrival:

| theorem | statement |
|---|---|
| `SearchTypeCorrect` | `Spec => []TypeOK` |
| `DetailShowsTableDirection` | `Spec => []DetailAgrees` |
| `RelatedLeadsBack` | `Spec => []RelatedIsMutual` |
| `ForeignConfIsHarmless` | `Spec => ForeignConfHarmless` |
| `PagesTileTheTable` | `Spec => []PagesTile` |
| `GroupingKeepsOrder` | `Spec => []GroupsStandTogether` |
| `EdgesTellTheTruth` | `Spec => []EdgesAgree` |
| `CardsCountTheTable` | `Spec => []CardsMatchTable` |

`DetailAgrees` holds in every state, reachable or not: `SignalAgrees` says for any set
of rows that a Message-ID is among theirs exactly when one of the message's legs
is in it, and the six signals of a direction are six such sets.
`ForeignConfHarmless` uses that: the direction is that of the detail, which
depends on the configurations of the message's own legs alone.

The four about the table rest on one lemma about sorting, `Ordered`: a finite set in
a strict total order is listed by `InOrder`, each element once and before those
that come after it, because the number of predecessors is a bijection onto
`0 .. Cardinality - 1`. `SortedLists` and `ClusteredOrder` are the two sorts of
`Search` as such orders; a page is then a part of one list (`SearchPage`), the
table is the page of length `MaxRows` (`WholeTable`, which needs that there are
no more rows than that: `SInv`), a card is the length of the list of another
query, and the rows of a group have one rank, so what stands between two of
them has that rank too. The inductive part is small - a query changes nothing -,
the theorems are about the operators for every table. They all assume
`ConfAssumption` and `SearchAssumption`.

`PlvConfProofs` proves, for any number of hosts, CAs, releases, faults, edits and late
handlers:

| theorem | statement |
|---|---|
| `EnrolmentIsWhole` | if `pki init` is not interrupted, `CSpec => []EnrolledIsWhole` |
| `NoRowWithoutConf` | `CSpec => []ConfBeforeRows` |

`EnrolledIsWhole` speaks of one node and holds because of what is true at the
receiver when a ticket is made. The strengthening `EnrolInv` has three parts: the
salt on the receiver's disk is that of the CA beside it, except while `pki init`
runs, when it is empty or missing (`CAInv`); a ticket is handed out together with
the CA certificate it goes with (`GrantInv`); and what a node's `plv enroll` has yet
to write makes its directory whole (`NodeInv`). So a ticket that is accepted names
the CA on disk, the one that signs, and the one whose certificate the node
keeps - without reference to what the receiver's process had loaded. The
assumption `~InitMayDie` is needed: two interrupted `pki init` with a lost directory
between them leave two CAs with the same, empty salt.

`ConfBeforeRows` follows a configuration from hand to hand: a forwarder that found
one has it, its request carries it while `handleIngest` has not come to it, and
once it has, the receiver holds one for that node until it restarts; the same
for handlers nobody waits for any more (`ConfInv`). They assume `EnrolAssumption`
and `ConfAssumption`.

`PlvTailProofs` proves, for every number of lines, rotations and restarts - the first
at any moment of the boot parse and of `tick`, the second at gentle ones:

| theorem | statement |
|---|---|
| `LinesComeInOrder` | `Spec => []InOrderOnce` |
| `NothingIsLeftBehind` | `Spec => []NothingLeftBehind` |

Nothing in `tick` compares a line with the one before, and the offset alone does
not say which file it counts in. The invariant `TailInv` does: every file holds newer
lines than the files before it, because syslogd is at most one file late and
writes to the new one only after it reopened (`LogsOK`, `Ordered`); and what may still
be read, by the phase the watcher is in, is newer than all that was handed on
(`Ahead`). The step that needs care is a `mail.log` smaller than the offset: the offset never
exceeds the file it counts in (`TailOK`), so the smaller file is a newer one, and
starting at its top repeats nothing.

`NothingLeftBehind` is the safety half of "every line is read": when `tick` finds
`mail.log` as long as its offset and returns, all that was logged was handed on,
by this process or an earlier one. `GentleInv` says that everything up to the place
where the tail stands, and up to the checkpoint, was handed on (`Read`), that a
start parses from the oldest file on or resumes in the file the checkpoint
counts in, and that the tail stands in `mail.log` or at the very end of the file
before it, which is then longer than `mail.log`: so a size equal to the offset means the end
of the right file. Each of the three gentle conditions is needed (section 3). Both
assume `TailAssumption`.

### Only model-checked

Every invariant that a run checks, and every action property, is stated by a
theorem. What stays with TLC:

* `Delivers` as far as it says that every line is shown in the end (`AllShown`),
  `GentleLinesRead` and `ReceiverHasConf`: they rest on fairness, and neither
  `ENABLED` nor liveness under fairness is within reach of the proof system. What
  they say of each moment is proved: `WayImplementsDelivery`, `NothingIsLeftBehind`,
  `NoRowWithoutConf`.
* `Mirror` and `RestartKeepsRows` with retention, as `persist_mirror` checks them with
  one restart and one failed upsert: with two restarts the wrong fold of
  `store_purge_fold` breaks them. The theorems have any number of restarts and no
  retention.
* The three runs that expect a violation, and the counterexamples of section 3.

## 5. Assumptions and abstractions

* A queue id names one message. Postfix's short ids repeat after a while; the
  code has nothing to tell two messages of one id apart by.
* Legs do not chain, and one scanner looks at a message.
* `AddRecords` takes one record per step: it loops under one lock, but the
  watcher hands over one message at a time, and at boot nothing else reads.
* The batches of 500 in `UpsertRecords` are one transaction, `upsertBatchFallback`
  row by row has the same outcome or fails as a whole.
* The logs are still there when a standalone instance restarts.
* In `PlvForward` the log is not rotated and is read to its end at boot; `PlvTail` has
  what rotation and the end of the boot parse do. The receiver has a database
  and no retention. Batches have no size: nothing splits one, so a backlog beyond
  the 64 MiB that `handleIngest` reads is refused for ever, which needs no model.
* In `PlvEnrol` a write is a truncation and a fill; the operator of a host runs one
  command at a time (`plv pki ticket`, which writes nothing, waits for none on the
  receiver); certificates do not expire. A truncated salt is an empty one, which is
  as good as any to both sides.
* In `PlvConf` the rows of a batch are there or not; that they arrive is the business
  of `PlvForward`.
* In `PlvSearch` a page starts at a natural number - `handleRecords` bounds the length
  but not the start -, the detail is opened from a listed row, a server list and a
  status stand for the filters of `recordMatches`, and statuses are compared as
  numbers.
* Lines are numbers, ids are model values; regular expressions, formats, TLS and
  the wording of the interface are data.
* Bounds on what happens are constants: `MaxTime`, `MaxFailures`, `MaxRestarts`,
  `MaxCrashes`, `MaxFaults`, `MaxLines`, `MaxFiles`, `MaxRows`, `MaxCAs`, `MaxRelease`,
  `MaxIssued`, `MaxEdits`, `MaxLate`.

Not modelled:

* the web server and its sessions: the handlers format what the store returns,
  and a session is an entry of one map under one lock whose expiry `Valid` compares
  with the clock itself, so a property would only restate that comparison;
* the web password (`resolveAuth`), the wizard's questions, argument handling,
  version data, the web pages and the log generator;
* how Postfix's files and the log's lines are parsed, and the schema migration;
* connect and TLS lines that are attached to the next message, NOQUEUE rejects
  beyond being a message of one line, several recipients of one filter session;
* the status tallies, top senders, hourly series and suggestions of the queries.

## 6. The plan

What this directory has, in the order it was built: store, mirror, table,
pipeline, outcome, tail, direction and search with the proofs about the store and
the queries; then enrolment and configurations with their proofs, and the
receiver's table, its restarts and overtaken handlers in the pipeline; then the
proofs about table, receiver, outcome and log, and that the pipeline implements
the safety of `PlvDelivery`.

What would come next, in order of weight:

1. Several recipients per filter session in `PlvOutcome`, once the code says which
   of several verdicts a message has.
2. Two servers that forward one message's legs to one receiver, on the side of
   `PlvForward`; `PlvSearch` has it on the side of the queries.
