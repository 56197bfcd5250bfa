------------------------------ MODULE PlvSearch -----------------------------
(***************************************************************************)
(* What the store answers: Search (the table, page by page), Stats (the    *)
(* direction cards) and GetDetail (one message and its related rows).      *)
(*                                                                         *)
(* The three run under the read lock while rows and configurations change; *)
(* each has its own loop over the rows, and the web page shows their       *)
(* answers side by side.  The properties say that they agree, for every    *)
(* query and in every state the rows can reach.                            *)
(*                                                                         *)
(* Abstraction.  The substring filters of recordMatches are conjuncts of   *)
(* one kind: a server list and a status stand for all.  Queries are asked  *)
(* in any state and change nothing, so they are operators, not actions.    *)
(***************************************************************************)
EXTENDS PlvDirection

CONSTANTS
  Incoming,  \* the rows that can arrive from each server
  Queries,   \* the filters and orders that are asked for
  Window,    \* how far apart two related rejects can be: 15 minutes
  Embeds,    \* Embeds[d]: the replies that reply d has in it verbatim
  MaxRows    \* bound on the rows

\* A query: no server is all of them, NoStatus and "" are any.
Query ==
  [servers : SUBSET Origins, status : Statuses \cup {NoStatus},
   direction : {"", "inbound", "outbound", "internal", "relayed"},
   column : {"time", "status", "direction", "none"},
   desc : BOOLEAN, group : BOOLEAN]

ASSUME SearchAssumption ==
  /\ Incoming \in [Origins -> Seq(Row)]
  /\ Queries \subseteq Query
  /\ Statuses \subseteq Nat /\ NoStatus = 0  \* in the order of their names
  /\ Window \in Nat /\ MaxRows \in Nat
  /\ Embeds \in [Details -> SUBSET Details]
  /\ \A d \in Details : d \notin Embeds[d]

VARIABLE arrived  \* arrived[o]: which rows of Incoming[o] did

vars == <<records, pcfg, pcfgByOrigin, arrived>>

-----------------------------------------------------------------------------
(* How the rows come about: what decides a direction, in the operations    *)
(* that PlvStore and PlvMirror have in full.                               *)

OrElse(a, none, b) == IF a # none THEN a ELSE b

MergeRecord(dst, src) ==
  [origin |-> dst.origin, qid |-> dst.qid,
   dqid   |-> OrElse(dst.dqid, NoQid, src.dqid),
   mid    |-> OrElse(dst.mid, NoMid, src.mid),
   from   |-> OrElse(dst.from, NoDomain, src.from),
   to     |-> OrElse(dst.to, NoDomain, src.to),
   client |-> OrElse(dst.client, NoHost, src.client),
   relay  |-> OrElse(dst.relay, NoHost, src.relay),
   saved  |-> IF src.status # NoStatus THEN src.saved ELSE dst.saved,
   sasl   |-> dst.sasl \/ src.sasl, orig |-> dst.orig \/ src.orig,
   ts     |-> OrElse(dst.ts, 0, src.ts),
   status |-> OrElse(src.status, NoStatus, dst.status),
   detail |-> dst.detail, subsumed |-> dst.subsumed]

\* The primary keeps its client and gains the relay and the status.
MergeDeliveryLeg(primary, leg) ==
  [MergeRecord(primary, leg) EXCEPT
     !.dqid = leg.qid, !.ts = primary.ts, !.client = primary.client,
     !.relay = OrElse(leg.relay, NoHost, primary.relay)]

\* The listed row that expects r as its leg, and the one of r's own id.
PrimaryOf(r) == {i \in Listed : records[i].origin = r.origin /\ records[i].dqid = r.qid}
SameAs(r)    == {i \in Listed : RecKey(records[i]) = RecKey(r)}

\* A leg of row i of recs that came first is folded in.
RegisterDelivery(recs, i) ==
  LET own == {j \in Listed : /\ recs[j].origin = recs[i].origin
                             /\ recs[j].qid = recs[i].dqid}
  IN  IF own = {} \/ i \in own THEN recs
      ELSE LET j == CHOOSE j \in own : TRUE
           IN  [recs EXCEPT ![i] = MergeDeliveryLeg(@, recs[j]), ![j] = [@ EXCEPT !.subsumed = TRUE]]

AddRecords(r) ==
  \/ \E i \in PrimaryOf(r) :
       records' = [records EXCEPT ![i] = MergeDeliveryLeg(@, r)]
  \/ /\ PrimaryOf(r) = {}
     /\ \E i \in SameAs(r) :
          records' = RegisterDelivery([records EXCEPT ![i] = MergeRecord(@, r)], i)
  \/ /\ PrimaryOf(r) = {} /\ SameAs(r) = {}
     /\ records' = RegisterDelivery(Append(records, r), Len(records) + 1)

\* A snapshot replaces the row of its id; a folded leg is not listed.
IngestSnapshots(r) ==
  records' = IF r.subsumed THEN records
             ELSE IF SameAs(r) = {} THEN Append(records, r)
             ELSE [i \in DOMAIN records |-> IF i \in SameAs(r) THEN r ELSE records[i]]

\* A row of server o.  Its snapshots come in order; what this instance parses
\* itself comes in any order, as PlvStore has it.
Arrive(o) ==
  \E n \in DOMAIN Incoming[o] \ arrived[o] :
    /\ Len(records) < MaxRows
    /\ IF o = Local THEN AddRecords(Incoming[o][n])
       ELSE 1 .. n - 1 \subseteq arrived[o] /\ IngestSnapshots(Incoming[o][n])
    /\ arrived' = [arrived EXCEPT ![o] = @ \cup {n}]
    /\ UNCHANGED <<pcfg, pcfgByOrigin>>

Configure ==
  /\ \E pc \in Confs :
       SetPostfixConf(pc) \/ \E o \in Origins : SetPostfixConfForOrigin(o, pc)
  /\ UNCHANGED arrived

Init ==
  /\ records = <<>>
  /\ pcfg = NoConf
  /\ pcfgByOrigin = [o \in Origins |-> NoConf]
  /\ arrived = [o \in Origins |-> {}]

Next == Configure \/ \E o \in Origins : Arrive(o)

Spec == Init /\ [][Next]_vars

-----------------------------------------------------------------------------
(* Search.                                                                 *)

GroupKey(r) == IF r.mid # NoMid THEN <<"m", r.mid>> ELSE <<"q", RecKey(r)>>

RecordMatches(r, p) ==
  /\ p.servers = {} \/ r.origin \in p.servers
  /\ p.status = NoStatus \/ r.status = p.status

DirectionOrder == [inbound |-> 1, internal |-> 2, outbound |-> 3, relayed |-> 4]

\* What compareByColumn compares.
ColumnValue(i, column, direction) ==
  CASE column = "time"      -> records[i].ts
    [] column = "status"    -> records[i].status
    [] column = "direction" -> DirectionOrder[direction[i]]
    [] column = "none"      -> 0

\* The domain of before in the order that before says: before[i] are those that
\* come before i.
InOrder(before) ==
  [n \in 1 .. Cardinality(DOMAIN before) |->
     CHOOSE i \in DOMAIN before : Cardinality(before[i]) = n - 1]

Matching(p, direction) ==
  {i \in Listed : RecordMatches(records[i], p) /\ p.direction \in {"", direction[i]}}

\* The matching rows, stable-sorted by the column.
Sorted(p, direction) ==
  LET rows == Matching(p, direction)
      value == [i \in rows |-> ColumnValue(i, p.column, direction)]
      Precedes(a, b) ==
        IF value[a] = value[b] THEN a < b
        ELSE IF p.desc THEN value[a] > value[b] ELSE value[a] < value[b]
  IN  InOrder([i \in rows |-> {j \in rows : Precedes(j, i)}])

BadClustered(list) == list  \* the rows of a group stay where they are

\* Each group where its first row is, its rows in the order they had.
Clustered(list) ==
  LET at == DOMAIN list
      group == [n \in at |-> GroupKey(records[list[n]])]
      rank == [n \in at |-> CHOOSE m \in at :
                 group[m] = group[n] /\ \A k \in 1 .. m - 1 : group[k] # group[n]]
      Precedes(m, n) == IF rank[m] = rank[n] THEN m < n ELSE rank[m] < rank[n]
      order == InOrder([n \in at |-> {m \in at : Precedes(m, n)}])
  IN  [n \in at |-> list[order[n]]]

BadPageEnd(total, start, length) == IF start + length >= total THEN total - 1 ELSE start + length

\* The end of the page that starts after `start` rows, cut at the last row.
PageEnd(total, start, length) ==
  IF start + length > total THEN total ELSE start + length

\* A page past the end is an empty one at the end.
PageStart(total, first) == IF first > total THEN total ELSE first

\* The servers on which a message was seen; more than one flags its rows.
MidOrigins(mid) == {records[i].origin : i \in {j \in Listed : records[j].mid = mid}}

BadContinuesBelow(list, start, end) ==  \* compared with the row after the next
  /\ start < end /\ end + 1 < Len(list)
  /\ GroupKey(records[list[end + 2]]) = GroupKey(records[list[end]])

ContinuesBelow(list, start, end) ==
  /\ start < end /\ end < Len(list)
  /\ GroupKey(records[list[end + 1]]) = GroupKey(records[list[end]])

ContinuesAbove(list, start, end) ==
  /\ start < end /\ start > 0
  /\ GroupKey(records[list[start]]) = GroupKey(records[list[start + 1]])

\* The rows of list from start to end, with what each is flagged with.
Page(p, list, direction, start, end) ==
  [recordsTotal    |-> Cardinality(Listed),
   recordsFiltered |-> Len(list),
   data |-> [n \in 1 .. end - start |->
               LET i == list[start + n]
               IN  [row       |-> i,
                    crossNode |-> /\ records[i].mid # NoMid
                                  /\ Cardinality(MidOrigins(records[i].mid)) > 1,
                    group     |-> GroupKey(records[i]),
                    direction |-> direction[i]]],
   continuesAbove |-> p.group /\ ContinuesAbove(list, start, end),
   continuesBelow |-> p.group /\ ContinuesBelow(list, start, end)]

PageFrom(p, list, direction, start, length) ==
  Page(p, list, direction, start, PageEnd(Len(list), start, length))

Search(p, first, length) ==
  LET direction == DirectionResolver
      sorted == Sorted(p, direction)
      list   == IF p.group THEN Clustered(sorted) ELSE sorted
  IN  PageFrom(p, list, direction, PageStart(Len(list), first), length)

-----------------------------------------------------------------------------
(* Stats and GetDetail.                                                    *)

BadStats(p) ==  \* the tallies are taken behind the direction filter
  LET direction == DirectionResolver
      counted  == {i \in Listed : /\ RecordMatches(records[i], p)
                                  /\ p.direction \in {"", direction[i]}}
  IN  [card  |-> [d \in DOMAIN DirectionOrder |->
                    Cardinality({i \in counted : direction[i] = d})],
       total |-> Cardinality(counted)]

\* The cards ignore the direction filter, the total obeys it.
Stats(p) ==
  LET direction == DirectionResolver
      matching == {i \in Listed : RecordMatches(records[i], p)}
  IN  [card  |-> [d \in DOMAIN DirectionOrder |->
                    Cardinality({i \in matching : direction[i] = d})],
       total |-> Cardinality({i \in matching : p.direction \in {"", direction[i]}})]

WithinWindow(a, b) == a = 0 \/ b = 0 \/ (a - b <= Window /\ b - a <= Window)

IsNoqueueReject(r) == r.detail # NoDetail

BadRejectEmbeds(a, b) == b \in Embeds[a]  \* only the opened row's reply is searched

\* The shorter reply is looked for in the longer one.
RejectEmbeds(a, b) == b \in Embeds[a] \/ a \in Embeds[b]

\* The other listed rows GetDetail links to row i: those of its Message-ID,
\* and the reject that the other server made of the same attempt.
Related(i) ==
  LET r == records[i]
      others == {j \in Listed : RecKey(records[j]) # RecKey(r)}
  IN  {j \in others : r.mid # NoMid /\ records[j].mid = r.mid}
      \cup {j \in others : /\ IsNoqueueReject(r) /\ IsNoqueueReject(records[j])
                            /\ (r.to = records[j].to \/ NoDomain \in {r.to, records[j].to})
                            /\ WithinWindow(r.ts, records[j].ts)
                            /\ RejectEmbeds(r.detail, records[j].detail)}

GetDetail(i) == [direction |-> DetailDirection(i), related |-> Related(i)]

-----------------------------------------------------------------------------
(* Properties.                                                             *)

\* Rows, configurations and what arrived have their types; the rows of this
\* instance itself have no configuration but the common one.
TypeOK ==
  /\ records \in Seq(Row)
  /\ pcfg \in Confs \cup {NoConf}
  /\ pcfgByOrigin \in [Origins -> Confs \cup {NoConf}]
  /\ pcfgByOrigin[Local] = NoConf
  /\ DOMAIN arrived = Origins
  /\ \A o \in Origins : arrived[o] \subseteq DOMAIN Incoming[o]

Whole(p) == Search(p, 0, MaxRows)
RowsOf(result) == [n \in DOMAIN result.data |-> result.data[n].row]

Tile(p, all) ==
  /\ \A m, n \in DOMAIN all : all[m] = all[n] => m = n
  /\ \A length \in 1 .. MaxRows : \A k \in 0 .. Len(all) \div length :
       RowsOf(Search(p, k * length, length))
         = SubSeq(all, k * length + 1, PageEnd(Len(all), k * length, length))

\* The pages of any length, read one after the other, list every matching row
\* once and in one order, and the last page ends with the last row.
PagesTile ==
  \A p \in Queries :
    /\ Len(Whole(p).data) = Whole(p).recordsFiltered
    /\ Tile(p, RowsOf(Whole(p)))

SameRowsGrouped(list, flat) ==
  LET At(x) == CHOOSE n \in DOMAIN flat : flat[n].row = x.row
      First(x) == CHOOSE n \in DOMAIN flat :
        flat[n].group = x.group /\ \A k \in 1 .. n - 1 : flat[k].group # x.group
  IN  /\ {list[n].row : n \in DOMAIN list} = {flat[n].row : n \in DOMAIN flat}
      /\ \A m, n \in DOMAIN list : m < n =>
           IF list[m].group = list[n].group
           THEN /\ At(list[m]) < At(list[n])
                /\ \A k \in m .. n : list[k].group = list[m].group
           ELSE First(list[m]) < First(list[n])

\* Grouped, the rows of a message stand together, in the order they have
\* ungrouped, and the groups in the order of their first rows.
GroupsStandTogether ==
  \A p \in Queries : p.group =>
    SameRowsGrouped(Whole(p).data, Whole([p EXCEPT !.group = FALSE]).data)

EdgeIs(continues, upper, lower) ==
  upper.continuesBelow = continues /\ lower.continuesAbove = continues

EdgesAreTrue(p, all) ==
  \A cut \in 1 .. Len(all) - 1 : \A length \in {n \in 1 .. cut : cut % n = 0} :
    EdgeIs(all[cut].group = all[cut + 1].group,
           Search(p, cut - length, length), Search(p, cut, length))

\* Of two adjacent pages the upper one says that its last group goes on below
\* exactly when the lower one says that its first group comes from above, and
\* both are right.
EdgesAgree == \A p \in Queries : p.group => EdgesAreTrue(p, Whole(p).data)

\* A direction card shows the number of rows that the table lists when the
\* card is chosen; the cards add up to the table without a direction filter,
\* and the total is that of the table.
CardsMatchTable ==
  \A p \in Queries :
    LET stats == Stats(p)
    IN  /\ stats.total = Whole(p).recordsFiltered
        /\ \A d \in DOMAIN DirectionOrder :
             stats.card[d] = Whole([p EXCEPT !.direction = d]).recordsFiltered

\* GetDetail's own aggregation agrees with the resolver of the table and the
\* cards, for rows of every server and whatever the configurations are; so all
\* the rows of a message show the same direction.
DetailAgrees ==
  \A i \in Listed : GetDetail(i).direction = DirectionResolver[i]

\* A related link leads both ways: from either of two legs of a message, and
\* from either of the two rejects of one attempt.
RelatedIsMutual ==
  \A i, j \in Listed : j \in GetDetail(i).related => i \in GetDetail(j).related

\* What a forwarder says of its configuration changes the direction only of
\* messages that passed through that server.
ForeignConfHarmless ==
  [][\A o \in Origins : pcfgByOrigin'[o] # pcfgByOrigin[o] =>
       \A i \in Listed :
         DirectionResolver'[i] # DirectionResolver[i] =>
           \/ records[i].origin = o
           \/ (records[i].mid # NoMid /\ o \in MidOrigins(records[i].mid))]_vars
=============================================================================
