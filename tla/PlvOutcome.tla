----------------------------- MODULE PlvOutcome ------------------------------
(***************************************************************************)
(* What becomes of one message's outcome: the status, the disposition and  *)
(* the timeline of its row, while the parts of the message, of the leg the *)
(* content filter re-injects and the rspamd verdict reach the store in any *)
(* order.  PlvStore says which row a part goes to; here there are at most  *)
(* two rows, the message's and its leg's, and the subject is what parser,  *)
(* mergeRecord, mergeDeliveryLeg and enrichRecordWithRspamd make of them.  *)
(*                                                                         *)
(* A line is its position in mail.log, which is its time; line 0 is the    *)
(* rspamd verdict, logged in a file of its own.                            *)
(***************************************************************************)
EXTENDS Naturals, Sequences, SequencesExt

CONSTANTS
  Log,        \* mail.log: whose line it is (main, leg or filter) and its kind
  Filters,    \* what the content filter may do: accept, spam, virus, blocked;
              \*   none: the message meets no filter
  Actions     \* what rspamd may do: reject, soft reject, add header; none: no
              \*   rspamd

Statuses == {"sent", "saved", "deferred", "bounced", "reject", "spam reject"}

ASSUME OutcomeAssumption ==
  /\ Log \in Seq([q : {"main", "leg", "filter"},
                  kind : Statuses \cup {"handoff", "queued", "other"}])
  /\ Filters \subseteq {"accept", "spam", "virus", "blocked", "none"}
  /\ Actions \subseteq {"reject", "soft reject", "add header", "none"}

VARIABLES
  filter,   \* what the content filter did with the message
  action,   \* what rspamd did with it
  main,     \* the message's row
  leg,      \* the row of the leg while it is listed on its own
  linked,   \* byDelivery knows the onward queue id
  pending,  \* the rspamd verdict waits for the row
  fed,      \* the lines of mail.log below which each queue id was handed over
  told      \* the rspamd verdict was read

vars == <<filter, action, main, leg, linked, pending, fed, told>>

NoRow == [raw |-> <<>>, status |-> "", disp |-> "", size |-> FALSE,
          action |-> "", link |-> FALSE]

-----------------------------------------------------------------------------
(* parser.go, rspamd.go: what is read off the lines.                       *)

BadExtractStatus(raw) ==  \* the first status of the group
  LET at == {i \in DOMAIN raw : raw[i] # 0 /\ Log[raw[i]].kind \in Statuses \cup {"handoff"}}
      k == Log[raw[CHOOSE i \in at : \A j \in at : i <= j]].kind
  IN  IF at = {} THEN "" ELSE IF k = "handoff" THEN "sent" ELSE k

\* The last status in the order the lines are in.
ExtractStatus(raw) ==
  LET at == {i \in DOMAIN raw : raw[i] # 0 /\ Log[raw[i]].kind \in Statuses \cup {"handoff"}}
      k == Log[raw[CHOOSE i \in at : \A j \in at : j <= i]].kind
  IN  IF at = {} THEN "" ELSE IF k = "handoff" THEN "sent" ELSE k

\* The lines of a set in the order of their timestamps.
InOrder(lines) ==
  LET at == lines \cap 0 .. Len(Log)
  IN  [n \in 1 .. Cardinality(at) |->
         CHOOSE i \in at : Cardinality({j \in at : j <= i}) = n]

\* Ordered by leading timestamp, without duplicates.  An rspamd line has none
\* that this understands: it sorts first.
SortRawByTime(raw) == InOrder(ToSet(raw))

DeriveDisposition(r) ==
  CASE r.status = "saved"       -> "delivered"
    [] r.status = "reject"      -> "rejected"
    [] r.status = "spam reject" -> "spam"
    [] r.status = ""            -> IF r.size THEN "received" ELSE "incomplete"
    [] OTHER                    -> r.status

BadIsStatusDisposition(d) ==  \* spam is taken for a status as well
  d \in {"sent", "delivered", "deferred", "bounced", "rejected", "received",
         "incomplete", "spam"}
IsStatusDisposition(d) ==
  d \in {"sent", "delivered", "deferred", "bounced", "rejected", "received", "incomplete"}

\* The disposition a scanner's action stands for, "" when it leaves it alone.
FilterDisposition(f) == IF f = "accept" THEN "sent" ELSE f
RspamdDisposition(a) ==
  CASE a = "reject" -> "spam" [] a = "soft reject" -> "deferred" [] OTHER -> ""

LinesOf(q) == {i \in DOMAIN Log : Log[i].q = q}

EnrichFromVerdict(r) ==
  [r EXCEPT !.action = filter,
            !.link = (filter = "accept"),
            !.raw = InOrder(ToSet(@) \cup LinesOf("filter")),
            !.disp = FilterDisposition(filter)]

EnrichRecordWithRspamd(r) ==
  [r EXCEPT !.action = action,
            !.disp = IF RspamdDisposition(action) # "" THEN RspamdDisposition(action) ELSE @,
            !.raw = IF 0 \in ToSet(@) THEN @ ELSE Append(@, 0)]

BadParseLines(q, a, b, known) ==  \* no disposition where no verdict is known
  LET raw == InOrder(LinesOf(q) \cap (a + 1) .. b)
  IN  [NoRow EXCEPT !.raw = raw, !.status = ExtractStatus(raw)]

\* parseLines (and finalize) for the lines of q after the ath up to the bth;
\* known: the filter's verdict on the session is at hand.
ParseLines(q, a, b, known) ==
  LET raw == InOrder(LinesOf(q) \cap (a + 1) .. b)
      kinds == {Log[i].kind : i \in ToSet(raw)}
      r == [NoRow EXCEPT !.raw = raw,
                         !.status = ExtractStatus(raw),
                         !.size = "queued" \in kinds]
  IN  IF "handoff" \in kinds /\ known /\ filter # "none"
      THEN EnrichFromVerdict(r)
      ELSE [r EXCEPT !.disp = DeriveDisposition(r)]

-----------------------------------------------------------------------------
(* store.go: how rows are combined.                                        *)

BadReclassify(r) == r  \* the disposition of the first part stays

\* The disposition follows the status unless a scanner set it.
Reclassify(r) ==
  IF IsStatusDisposition(r.disp) THEN [r EXCEPT !.disp = DeriveDisposition(r)] ELSE r

\* A later part of the same queue id; a part's lines are in their order.
MergeRecord(dst, src) ==
  LET new == InOrder(ToSet(src.raw) \ ToSet(dst.raw))
      r == [dst EXCEPT
              !.raw = @ \o new,
              !.size = @ \/ src.size,
              !.action = IF @ = "" THEN src.action ELSE @,
              !.link = @ \/ src.link]
      st == ExtractStatus(r.raw)
  IN  Reclassify([r EXCEPT !.status = IF st # "" THEN st ELSE @])

BadMergeDeliveryLeg(primary, l) ==  \* the relay's outcome only where none is known
  LET r == [primary EXCEPT !.link = TRUE, !.raw = SortRawByTime(@ \o l.raw)]
  IN  IF l.status = "" \/ r.status # "" THEN r
      ELSE [r EXCEPT !.status = l.status, !.disp = DeriveDisposition(l)]

\* The leg's outcome is the message's.
MergeDeliveryLeg(primary, l) ==
  LET r == [primary EXCEPT !.link = TRUE, !.raw = SortRawByTime(@ \o l.raw)]
  IN  IF l.status = "" THEN r
      ELSE [r EXCEPT !.status = l.status, !.disp = DeriveDisposition(l)]

-----------------------------------------------------------------------------
(* AddRecords and ApplyRspamdVerdict.                                      *)

\* Cases (2) and (3) for a part of the message: merge or add, register the
\* onward id, then apply the waiting verdict.
FeedMain(b) ==
  \E known \in BOOLEAN :
    LET src == ParseLines("main", fed.main, b, known)
        own == IF main = NoRow THEN src ELSE MergeRecord(main, src)
        fold == src.link /\ leg # NoRow
        r == IF fold THEN MergeDeliveryLeg(own, leg) ELSE own
    IN  /\ src.raw # <<>>
        /\ main' = IF pending THEN EnrichRecordWithRspamd(r) ELSE r
        /\ leg' = IF fold THEN NoRow ELSE leg
        /\ linked' = (linked \/ src.link)
        /\ pending' = FALSE
        /\ fed' = [fed EXCEPT !.main = b]
        /\ UNCHANGED <<filter, action, told>>

\* Case (1) when the onward id is known, else the leg has a row of its own.
FeedLeg(b) ==
  LET src == ParseLines("leg", fed.leg, b, FALSE)
  IN  /\ filter = "accept"
      /\ src.raw # <<>>
      /\ IF linked
         THEN main' = MergeDeliveryLeg(main, src) /\ UNCHANGED leg
         ELSE leg' = (IF leg = NoRow THEN src ELSE MergeRecord(leg, src)) /\ UNCHANGED main
      /\ fed' = [fed EXCEPT !.leg = b]
      /\ UNCHANGED <<filter, action, linked, pending, told>>

FeedVerdict ==
  /\ action # "none" /\ ~told
  /\ told' = TRUE
  /\ main' = IF main = NoRow THEN main ELSE EnrichRecordWithRspamd(main)
  /\ pending' = (main = NoRow)
  /\ UNCHANGED <<filter, action, leg, linked, fed>>

Init ==
  /\ filter \in Filters /\ action \in Actions
  /\ "none" \in {filter, action}  \* one scanner looks at a message
  /\ main = NoRow /\ leg = NoRow
  /\ linked = FALSE /\ pending = FALSE /\ told = FALSE
  /\ fed = [main |-> 0, leg |-> 0]

Next ==
  \/ \E b \in DOMAIN Log : FeedMain(b) \/ FeedLeg(b)
  \/ FeedVerdict

Spec == Init /\ [][Next]_vars
-----------------------------------------------------------------------------
(* Properties.                                                             *)

Dispositions == {"sent", "delivered", "deferred", "bounced", "rejected", "received",
                 "incomplete", "spam", "virus", "blocked"}
Row == [raw : Seq(0 .. Len(Log)), status : Statuses \cup {""}, disp : Dispositions,
        size : BOOLEAN, action : (Filters \cup Actions \cup {""}) \ {"none"},
        link : BOOLEAN]

TypeOK ==
  /\ main \in Row \cup {NoRow} /\ leg \in Row \cup {NoRow}
  /\ linked \in BOOLEAN /\ pending \in BOOLEAN /\ told \in BOOLEAN
  /\ fed \in [{"main", "leg"} -> 0 .. Len(Log)]

\* "The terminal line is the real outcome": a row's status is that of the
\* latest status line it shows, in whatever parts and order the lines came.
StatusIsLatest ==
  \A r \in {main, leg} \ {NoRow} : r.status = ExtractStatus(SortRawByTime(r.raw))

\* "The merged item [...] gains the real destination relay and the final
\* delivery status": a row that shows a leg's outcome has the leg's status.
LegDecides ==
  LET st == ExtractStatus(InOrder(ToSet(main.raw) \cap LinesOf("leg")))
  IN  st # "" => main.status = st

\* What a message that no scanner stopped has come to when all of it was
\* read: the outcome of the leg, or of the message if it has none.
Truth ==
  DeriveDisposition(
    [main EXCEPT !.status = ExtractStatus(InOrder(ToSet(main.raw) \ LinesOf("filter")))])

\* The badge does not depend on where flushes and rotation cut the message up
\* nor on which of leg, message and verdict came first.
BadgeIsTruth ==
  main # NoRow /\ (told \/ action = "none") =>
    main.disp = IF RspamdDisposition(action) # "" THEN RspamdDisposition(action)
                ELSE IF fed.leg = 0 /\ main.action = "accept" THEN "sent"
                ELSE Truth

\* "A scanner verdict must never be overwritten by a status change."
Stopped == {"spam", "virus", "blocked"}
VerdictStands == [][main.disp \in Stopped => main'.disp = main.disp]_vars

\* "The quarantine example yields Disposition = spam even though Postfix said
\* sent", "soft reject, greylist: deferred": a row that carries a scanner's
\* action has the disposition the action stands for.
ScannerDecides ==
  /\ main.action \in Stopped => main.disp = main.action
  /\ main.action \in {"reject", "soft reject"} =>
       main.disp = RspamdDisposition(main.action)
=============================================================================
