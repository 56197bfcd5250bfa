----------------------------- MODULE MCPlvSearch ----------------------------
(***************************************************************************)
(* An instance of PlvSearch: a receiver that also parses its own log, and  *)
(* two forwarders.                                                         *)
(*                                                                         *)
(*   gateway  an inbound message, before and after the leg to the public   *)
(*            host `backend` was folded in, that leg, and the reject of    *)
(*            an attempt                                                   *)
(*   mailbox  a message its user submits, the reject that the gateway's    *)
(*            quotes, and the inbound message put into a mailbox           *)
(*   local    the submitted message, from the public host `backend`, and   *)
(*            its leg, in any order; a transit without a Message-ID        *)
(***************************************************************************)
EXTENDS PlvSearch

MCEmbeds   == [d \in Details |-> IF d = "front" THEN {"back"} ELSE {}]
MCConfs    == {[nets |-> {"backend"}, doms |-> {"ours"}], [nets |-> {}, doms |-> {"theirs"}]}

Blank ==
  [origin |-> Local, qid |-> "q1", dqid |-> NoQid, mid |-> NoMid,
   from |-> NoDomain, to |-> NoDomain, client |-> NoHost, relay |-> NoHost,
   saved |-> FALSE, sasl |-> FALSE, orig |-> FALSE, ts |-> 1,
   status |-> 2, detail |-> NoDetail, subsumed |-> FALSE]

Accepted == [Blank EXCEPT !.origin = "gateway", !.mid = "m1", !.from = "theirs", !.to = "ours",
                          !.client = "sender", !.relay = "filter"]
Folded   == [Accepted EXCEPT !.dqid = "q2", !.relay = "backend", !.orig = TRUE]
Leg      == [Folded EXCEPT !.qid = "q2", !.dqid = NoQid, !.subsumed = TRUE]
Stored   == [Blank EXCEPT !.origin = "mailbox", !.qid = "q3", !.mid = "m1", !.to = "ours",
                          !.client = "backend", !.relay = Mailbox, !.ts = 2]
Front    == [Blank EXCEPT !.origin = "gateway", !.qid = "q4", !.to = "ours", !.client = "sender",
                          !.status = 1, !.detail = "front", !.ts = 2]
Back     == [Blank EXCEPT !.origin = "mailbox", !.qid = "q4", !.to = "ours", !.client = "backend",
                          !.status = 1, !.detail = "back", !.ts = 0]
Primary  == [Blank EXCEPT !.qid = "q5", !.dqid = "q6", !.mid = "m2", !.from = "ours",
                          !.to = "theirs", !.client = "backend", !.relay = "filter"]
Onward   == [Blank EXCEPT !.qid = "q6", !.mid = "m2", !.from = "ours", !.to = "theirs",
                          !.client = "backend", !.relay = "relayhost", !.orig = TRUE, !.ts = 2]
Handed   == [Blank EXCEPT !.origin = "mailbox", !.qid = "q8", !.mid = "m2", !.from = "ours",
                          !.to = "theirs", !.client = "sender", !.relay = "filter", !.sasl = TRUE]
Transit  == [Blank EXCEPT !.qid = "q7", !.client = "sender", !.relay = "relayhost", !.ts = 2]

MCIncoming ==
  [o \in Origins |->
     CASE o = "gateway" -> <<Accepted, Front, Folded, Leg>>
       [] o = "mailbox" -> <<Handed, Back, Stored>>
       [] o = Local   -> <<Primary, Onward, Transit>>]

Ask(column, desc, group) ==
  [servers |-> {}, status |-> NoStatus, direction |-> "",
   column |-> column, desc |-> desc, group |-> group]

MCQueries ==
  {Ask("time", TRUE, TRUE),
   [Ask("direction", TRUE, TRUE) EXCEPT !.servers = {"gateway", Local}],
   [Ask("status", FALSE, TRUE) EXCEPT !.direction = "inbound"],
   [Ask("none", FALSE, FALSE) EXCEPT !.status = 2, !.direction = "outbound"]}
=============================================================================
